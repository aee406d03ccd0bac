------------------------------ MODULE Modules ------------------------------
(***************************************************************************)
(* Loadable kernel modules: the relocating loader of module_loader.c, the  *)
(* commands and system calls that reach it, and the registry of module.c.  *)
(*                                                                         *)
(* The loader relocates the symbol table of the image where the image      *)
(* lies.  A file of the VFS is copied first, so every load sees it as it   *)
(* was; an image of the initial RAM disk, or of a user buffer, keeps what  *)
(* an earlier load has written to it.                                      *)
(*                                                                         *)
(* A block of the heap is a number, Span addresses from Span times that    *)
(* number on.  An image is a record [name, fresh, valid, symtab, secs,     *)
(* syms, rels]: sections with `alloc' and a size in words, symbols with a  *)
(* section (0 when undefined), a value and a name, relocations with a      *)
(* section, an offset and a symbol.                                        *)
(***************************************************************************)
EXTENDS Integers, Sequences, FiniteSets, FiniteSetsExt, SequencesExt

CONSTANTS
    Images,             \* the images that can be loaded
    KernelSyms,         \* function: exported name -> address
    Blocks, Span,       \* blocks of the heap, addresses per block
    MinSize,            \* size of a module without allocated sections (1024)
    NULL,
    MaxLoads,           \* bound: attempts to load
    RegNames            \* names of modules of the registry

Names == {img.name : img \in Images}

\* What module_validate_elf and the format leave: tables with a length, and
\* relocations of symbols that exist (the loader skips any other).
Image(img) ==
    /\ Len(img.secs) \in Nat /\ DOMAIN img.secs = 1 .. Len(img.secs)
    /\ \A i \in DOMAIN img.secs : img.secs[i].size \in Nat
    /\ Len(img.syms) \in Nat /\ DOMAIN img.syms = 1 .. Len(img.syms)
    /\ \A k \in DOMAIN img.syms :
           img.syms[k].sec \in Nat /\ img.syms[k].value \in Nat
    /\ \A r \in DOMAIN img.rels : img.rels[r].sym \in DOMAIN img.syms

ASSUME ModulesAssumption ==
    /\ Blocks \subseteq Nat \ {0} /\ IsFiniteSet(Blocks)
    /\ MinSize \in Nat
    /\ NULL \notin Nat /\ NULL \notin DOMAIN KernelSyms
    /\ \A k \in DOMAIN KernelSyms : KernelSyms[k] < Span
    /\ \A img \in Images : Image(img)

VARIABLES
    loaded,     \* module_list_head: sequence of [name, img, base, size, mod,
                \* init, refs, first]; refs: the symbol values the relocations
                \* used, first: no earlier load has relocated the image
    symval,     \* image -> the values in its symbol table now
    touched,    \* history: images whose symbols an earlier load has relocated
    blocks,     \* blocks that kmalloc has given out
    kept,       \* history: those that went to copies for the registry
    loads,      \* attempts so far
    crashed,    \* the kernel has jumped to or written at a wrong address
    registry,   \* the list of module.c: sequence of [name, copy]
    count       \* module_count

loader == <<loaded, symval, touched, loads, crashed>>
vars == <<loader, blocks, kept, registry, count>>

Init ==
    /\ loaded = <<>>
    /\ symval = [img \in Images |-> [k \in DOMAIN img.syms |-> img.syms[k].value]]
    /\ touched = {}
    /\ blocks = {}
    /\ kept = {}
    /\ loads = 0
    /\ crashed = FALSE
    /\ registry = <<>>
    /\ count = 0

----------------------------------------------------------------------------
(***************************************************************************)
(* Layout and relocation of an image img loaded at block b.                *)
(***************************************************************************)
AllocSize(sec) == IF sec.alloc THEN sec.size ELSE 0

\* Words that the first i sections take: total_size, and current_offset.
SizeTo(img) ==
    LET words[i \in 0 .. Len(img.secs)] ==
            IF i = 0 THEN 0 ELSE words[i - 1] + AllocSize(img.secs[i])
    IN  words

module_calc_size(img) ==
    LET size == SizeTo(img)[Len(img.secs)] IN IF size = 0 THEN MinSize ELSE size

Offset(img, i) == SizeTo(img)[i - 1]
sh_addr(img, b, i) ==
    IF img.secs[i].alloc THEN b * Span + Offset(img, i) ELSE 0

Undefined(sym) == sym.sec = 0
Defined(img, sym) == sym.sec \in DOMAIN img.secs
Unknown(img) ==
    {k \in DOMAIN img.syms : /\ Undefined(img.syms[k]) /\ img.syms[k].name # NULL
                             /\ img.syms[k].name \notin DOMAIN KernelSyms}

\* First pass: the section's address is added to the value that is there.
FirstPass(img, b, val) ==
    [k \in DOMAIN val |-> IF Defined(img, img.syms[k])
                          THEN sh_addr(img, b, img.syms[k].sec) + val[k] ELSE val[k]]

\* Mutant: a kernel symbol takes precedence over the module's own.
ResolvedAll(img, val) ==
    [k \in DOMAIN val |-> IF img.syms[k].name \in DOMAIN KernelSyms
                          THEN KernelSyms[img.syms[k].name] ELSE val[k]]

\* Second pass: undefined symbols up to the first that the kernel has not.
Resolved(img, val) ==
    [k \in DOMAIN val |->
        IF /\ Undefined(img.syms[k]) /\ img.syms[k].name \in DOMAIN KernelSyms
           /\ \A u \in Unknown(img) : k < u
        THEN KernelSyms[img.syms[k].name] ELSE val[k]]

SymbolsAt(img, b) ==
    IF ~img.symtab THEN symval[img] ELSE Resolved(img, FirstPass(img, b, symval[img]))

\* The last symbol called module_init, or NULL.
InitSym(img) ==
    LET inits == {k \in DOMAIN img.syms : img.syms[k].name = "module_init"}
    IN  IF inits = {} THEN NULL ELSE Max(inits)

InitAddr(img, val) == val[InitSym(img)]

\* What the symbol names once the image is at b; the null symbol is 0.
Meaning(img, b, k) ==
    IF Undefined(img.syms[k]) /\ img.syms[k].name # NULL
    THEN KernelSyms[img.syms[k].name]
    ELSE IF Defined(img, img.syms[k])
         THEN sh_addr(img, b, img.syms[k].sec) + img.syms[k].value
    ELSE img.syms[k].value

----------------------------------------------------------------------------
(***************************************************************************)
(* module_load_binary, called by kernel_main, insmod and the init_module   *)
(* system call.  For a file of the VFS, insmod holds a block c with a copy *)
(* of it around the call; c is 0 otherwise.  kmalloc takes the first free  *)
(* block, and may refuse.                                                  *)
(***************************************************************************)
Free == Blocks \ blocks
FirstFit(taken, b) == Free \ taken # {} /\ b = Min(Free \ taken)
Attempt == ~crashed /\ loads < MaxLoads /\ loads' = loads + 1

\* The first element of the list with the name, which the walks stop at.
FirstNamed(list, n, i) ==
    list[i].name = n /\ \A j \in 1 .. i - 1 : list[j].name # n

AlreadyLoaded(n) == \E i \in DOMAIN loaded : loaded[i].name = n

\* No block is touched: the name is taken, the ELF header is wrong, or there
\* is no memory for the image.
LoadRefused(img) ==
    /\ Attempt
    /\ UNCHANGED <<loaded, symval, touched, crashed, blocks, kept, registry, count>>

Incomplete(img) == ~img.symtab \/ Unknown(img) # {} \/ InitSym(img) = NULL

Relocate(img, b) ==
    /\ symval' = IF img.fresh THEN symval ELSE [symval EXCEPT ![img] = SymbolsAt(img, b)]
    /\ touched' = IF img.fresh \/ ~img.symtab THEN touched ELSE touched \cup {img}

\* Mutant: the return on an undefined symbol does not free the image.
KeptAfterFailure(img, b) == IF Unknown(img) # {} THEN blocks \cup {b} ELSE blocks

AfterFailure(img, b) == blocks

\* The image is relocated where it lies and then given up: a table or a symbol
\* is missing, or there is no memory for the module structure.
LoadFails(img, b) ==
    /\ Attempt
    /\ ~AlreadyLoaded(img.name) /\ img.valid /\ FirstFit({}, b)
    /\ Relocate(img, b)
    /\ blocks' = AfterFailure(img, b)
    /\ UNCHANGED <<loaded, crashed, kept, registry, count>>

\* Mutant: a module of the same name is loaded beside the first.
NameFreeAlways(n) == TRUE

NameFree(n) == ~AlreadyLoaded(n)

\* insmod's copy of a file of the VFS.
insmod_copy(img, c) == IF img.fresh THEN FirstFit({}, c) ELSE c = 0

\* The module is linked in front and its module_init called.
LoadSucceeds(img, c, b, m) ==
    LET val == SymbolsAt(img, b)
        init == InitAddr(img, val)
    IN  /\ Attempt
        /\ NameFree(img.name) /\ img.valid /\ ~Incomplete(img)
        /\ insmod_copy(img, c)
        /\ FirstFit({c}, b) /\ FirstFit({c, b}, m)
        /\ Relocate(img, b)
        /\ blocks' = blocks \cup {b, m}
        /\ loaded' = <<[name |-> img.name, img |-> img, base |-> b, mod |-> m,
                        size |-> module_calc_size(img), init |-> init,
                        refs |-> [r \in DOMAIN img.rels |-> val[img.rels[r].sym]],
                        first |-> img \notin touched]>> \o loaded
        /\ crashed' = (init # Meaning(img, b, InitSym(img)))
        /\ UNCHANGED <<kept, registry, count>>

module_unload_binary(n) ==
    /\ ~crashed
    /\ \E i \in DOMAIN loaded :
        /\ FirstNamed(loaded, n, i)
        /\ loaded' = RemoveAt(loaded, i)
        /\ blocks' = blocks \ {loaded[i].base, loaded[i].mod}
    /\ UNCHANGED <<symval, touched, loads, crashed, kept, registry, count>>

----------------------------------------------------------------------------
(***************************************************************************)
(* The registry of module.c.  copy is the block of a module that came from *)
(* memory, 0 for one that the caller keeps.                                *)
(***************************************************************************)
Registered(n) == \E i \in DOMAIN registry : registry[i].name = n

\* module_register, module_load_from_memory; ok: the answer of mod->init.  A
\* copy whose registration fails is not freed.
module_register(n, copy, ok) ==
    /\ ~crashed /\ (copy = 0 \/ FirstFit({}, copy))
    /\ blocks' = blocks \cup ({copy} \ {0})
    /\ kept' = kept \cup ({copy} \ {0})
    /\ IF Registered(n) \/ ~ok THEN UNCHANGED <<registry, count>>
       ELSE registry' = <<[name |-> n, copy |-> copy]>> \o registry /\ count' = count + 1
    /\ UNCHANGED loader

module_unregister(n) ==
    /\ ~crashed /\ Registered(n)
    /\ \E i \in DOMAIN registry :
           FirstNamed(registry, n, i) /\ registry' = RemoveAt(registry, i)
    /\ count' = count - 1
    /\ UNCHANGED <<loader, blocks, kept>>

Next ==
    \/ \E img \in Images :
        \/ LoadRefused(img)
        \/ \E b \in Blocks : LoadFails(img, b)
        \/ \E c \in Blocks \cup {0}, b, m \in Blocks : LoadSucceeds(img, c, b, m)
    \/ \E n \in Names : module_unload_binary(n)
    \/ \E n \in RegNames :
        \/ \E copy \in Blocks \cup {0}, ok \in BOOLEAN : module_register(n, copy, ok)
        \/ module_unregister(n)

Spec == Init /\ [][Next]_vars

----------------------------------------------------------------------------
\* Types of the loader's list, of the registry and of the images.
TypeOK ==
    /\ \A i \in DOMAIN loaded :
        loaded[i].img \in Images /\ loaded[i].base \in Blocks /\ loaded[i].mod \in Blocks
    /\ blocks \subseteq Blocks /\ kept \subseteq blocks
    /\ touched \subseteq {img \in Images : ~img.fresh}
    /\ count \in Nat

\* Every block the loader has is the image or the structure of one loaded
\* module: no way out of a failed load keeps one, no unload frees another's.
BlocksAccountedFor ==
    LET own == {loaded[i].base : i \in DOMAIN loaded} \cup {loaded[i].mod : i \in DOMAIN loaded}
    IN  /\ blocks \ kept = own
        /\ own \cap kept = {}
        /\ Cardinality(own) = 2 * Len(loaded)

\* Both lists of modules hold a name once, so that rmmod and unregistering take
\* the one that is meant, and the registry's counter is the length of its list.
ModuleListsExact ==
    /\ \A i, j \in DOMAIN loaded : loaded[i].name = loaded[j].name => i = j
    /\ \A i, j \in DOMAIN registry : registry[i].name = registry[j].name => i = j
    /\ count = Len(registry)

\* A loaded image has its sections in its block, one behind the other, its
\* relocations refer to what the symbols mean (the kernel's addresses and the
\* module's own sections), and module_init is entered at its own address;
\* unless an earlier load, successful or not, has relocated the symbols of the
\* image already.
RelocationsExact ==
    \A i \in DOMAIN loaded :
        LET img == loaded[i].img
            meaning(k) == Meaning(img, loaded[i].base, k)
        IN  /\ \A k \in DOMAIN img.secs :
                   Offset(img, k) + AllocSize(img.secs[k]) <= loaded[i].size
            /\ loaded[i].first =>
                   /\ \A r \in DOMAIN img.rels :
                          loaded[i].refs[r] = meaning(img.rels[r].sym)
                   /\ loaded[i].init = meaning(InitSym(img))

\* What the help text of the shell says: a module can be loaded, unloaded and
\* loaded again (shell.c:103, shell.c:104).
ModuleInitRuns == ~crashed
=============================================================================
