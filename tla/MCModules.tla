------------------------------ MODULE MCModules ------------------------------
(***************************************************************************)
(* An instance of Modules for TLC.  Blocks of 10 addresses; printk and     *)
(* kfree are the kernel's exported symbols.                                *)
(***************************************************************************)
EXTENDS Modules

MCKernelSyms == [printk |-> 1, kfree |-> 2]

Sec(a, n, z) == [alloc |-> a, size |-> n, bss |-> z]
Sym(s, v, n) == [sec |-> s, value |-> v, name |-> n]

\* .text, .data, .comment and .bss, as the compiler leaves them.
Secs == <<Sec(TRUE, 2, FALSE), Sec(TRUE, 1, FALSE),
          Sec(FALSE, 3, FALSE), Sec(TRUE, 2, TRUE)>>
Syms == <<Sym(0, 0, NULL), Sym(1, 0, "module_init"), Sym(0, 0, "printk"),
          Sym(2, 0, "count"), Sym(4, 1, "start"), Sym(9, 5, "absolute")>>
Rels == <<[sym |-> 3], [sym |-> 4], [sym |-> 5], [sym |-> 6]>>

hello == [name |-> "hello", fresh |-> FALSE, valid |-> TRUE, symtab |-> TRUE,
          secs |-> Secs, syms |-> Syms, rels |-> Rels]

\* The same name from a file, with a function of its own called kfree.
copied == [hello EXCEPT !.fresh = TRUE, !.syms[4] = Sym(1, 1, "kfree")]

\* An image that needs a symbol the kernel does not export.
broken == [hello EXCEPT !.name = "broken", !.syms[3] = Sym(0, 0, "strtok")]

\* Nothing allocated, no table of symbols.
empty == [hello EXCEPT !.name = "empty", !.fresh = TRUE, !.symtab = FALSE,
                       !.secs = <<Sec(FALSE, 3, FALSE)>>, !.syms = <<>>, !.rels = <<>>]

\* A second module, whose module_init is behind the start of its text.
counter == [hello EXCEPT !.name = "counter", !.syms[2] = Sym(1, 1, "module_init")]

MCImages == {hello, copied, broken, empty, counter}
MCRegNames == {"disk"}
=============================================================================
