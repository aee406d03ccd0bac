------------------------------ MODULE Terminal ------------------------------
(***************************************************************************)
(* The text screen of drivers/vga.c and the line editor and the command    *)
(* parser of kernel/shell.c on top of it.  The screen is a function from   *)
(* cell numbers to characters; its colours are left out.                   *)
(***************************************************************************)
EXTENDS Integers, Sequences, SequencesExt

CONSTANTS
    VGA_WIDTH, VGA_HEIGHT, TabStop,     \* 80, 25 and 8
    CmdMax,         \* characters that fit in cmd_buf (255)
    Printable,      \* what vga_putchar puts in a cell: not "\n", "\r", "\t", "BS"
    Prompt,         \* what shell_prompt prints
    Banner,         \* what shell_init prints
    Typed,          \* printable characters that are typed, with the blank
    Outputs,        \* what commands print
    MaxLines,       \* bound: lines entered
    NoWords         \* no command runs

Blank == " "

ASSUME TerminalAssumption ==
    /\ {VGA_WIDTH, VGA_HEIGHT, TabStop, CmdMax} \subseteq Nat \ {0}
    /\ VGA_WIDTH % TabStop = 0
    /\ Blank \in Typed /\ Typed \subseteq Printable
    /\ Printable \cap {"\n", "\r", "\t", "BS"} = {}
    /\ NoWords \notin [cmd : Seq(Typed), arg1 : Seq(Typed), arg2 : Seq(Typed)]

\* The prompt is one line.  No text of the kernel has a "\r": printk sends it
\* to the serial port only (printk.c:47); a file or a program's output that
\* has one, behind which a longer line would stay, is left out.
ASSUME PrintAssumption ==
    /\ Prompt \in Seq(Printable)
    /\ Outputs \cup {Banner} \subseteq Seq(Printable \cup {"\n", "\t", "BS"})

VARIABLES
    vga,            \* [cells, row, col]
    cmd_buf,        \* the characters before cmd_pos
    words,          \* cmd, arg1 and arg2 while shell_exec runs
    lines,          \* history: number of lines entered
    strayed         \* history: a backspace met column 0 since the prompt

term_vars == <<vga, cmd_buf, words, lines, strayed>>

Cells == 0 .. VGA_WIDTH * VGA_HEIGHT - 1
CursorOf(v) == v.row * VGA_WIDTH + v.col

Screen(cells, row, col) == [cells |-> cells, row |-> row, col |-> col]

vga_clear == Screen([n \in Cells |-> Blank], 0, 0)

vga_scroll(v) ==
    Screen([n \in Cells |-> IF n + VGA_WIDTH \in Cells
                            THEN v.cells[n + VGA_WIDTH] ELSE Blank],
           VGA_HEIGHT - 1, v.col)

\* Mutant: what was in the bottom row stays there.
ScrolledDirty(v) ==
    IF v.row >= VGA_HEIGHT
    THEN Screen([n \in Cells |-> v.cells[IF n + VGA_WIDTH \in Cells
                                         THEN n + VGA_WIDTH ELSE n]],
                VGA_HEIGHT - 1, v.col)
    ELSE v

Scrolled(v) == IF v.row >= VGA_HEIGHT THEN vga_scroll(v) ELSE v
Wrapped(v) == IF v.col >= VGA_WIDTH THEN Screen(v.cells, v.row + 1, 0) ELSE v

\* The effect of one character, before the cursor is brought back in range.
Effect(v, c) ==
    CASE c = "\n" -> Screen(v.cells, v.row + 1, 0)
      [] c = "\r" -> Screen(v.cells, v.row, 0)
      [] c = "\t" -> Screen(v.cells, v.row, ((v.col + TabStop) \div TabStop) * TabStop)
      [] c = "BS" -> IF v.col > 0
                     THEN Screen([v.cells EXCEPT ![CursorOf(v) - 1] = Blank],
                                 v.row, v.col - 1)
                     ELSE v
      [] OTHER -> Screen([v.cells EXCEPT ![CursorOf(v)] = c], v.row, v.col + 1)

vga_putchar(v, c) == Scrolled(Wrapped(Effect(v, c)))

vga_write(v, s) ==
    LET after[i \in 0 .. Len(s)] ==
            IF i = 0 THEN v ELSE vga_putchar(after[i - 1], s[i])
    IN  after[Len(s)]

(***************************************************************************)
(* shell_parse: the first two words of the line, and what follows them.    *)
(* An absent word is the empty sequence (NULL in the code).                *)
(***************************************************************************)
Blanks(s) == {n \in 1 .. Len(s) : s[n] = Blank}
NonBlanks(s) == (1 .. Len(s)) \ Blanks(s)
Word(s) == IF Blanks(s) = {} THEN s ELSE SubSeq(s, 1, Min(Blanks(s)) - 1)
Behind(s) == IF Blanks(s) = {} THEN <<>> ELSE SubSeq(s, Min(Blanks(s)) + 1, Len(s))

\* Mutant: one blank is skipped, not all of them.
SkipOneBlank(s) == IF s # <<>> /\ Head(s) = Blank THEN Tail(s) ELSE s

SkipBlanks(s) ==
    IF NonBlanks(s) = {} THEN <<>> ELSE SubSeq(s, Min(NonBlanks(s)), Len(s))

shell_parse(buf) ==
    LET s == SkipBlanks(buf)
        r1 == SkipBlanks(Behind(s))
        r2 == SkipBlanks(Behind(r1))
    IN  [cmd |-> Word(s), arg1 |-> Word(r1), arg2 |-> r2]

(***************************************************************************)
(* shell_run: one character of keyboard_read.                              *)
(***************************************************************************)
shell_init == vga_write(vga_write(vga_clear, Banner), Prompt)

\* Before shell_run the screen holds the messages of the boot.
term_init_state ==
    /\ vga = vga_clear
    /\ cmd_buf = <<>>
    /\ words = NoWords
    /\ lines = 0
    /\ strayed = FALSE

shell_start ==
    /\ vga' = shell_init
    /\ UNCHANGED <<cmd_buf, words, lines, strayed>>

Room == Len(cmd_buf) < CmdMax

shell_char(c) ==
    /\ IF Room
       THEN cmd_buf' = Append(cmd_buf, c) /\ vga' = vga_putchar(vga, c)
       ELSE UNCHANGED <<cmd_buf, vga>>
    /\ UNCHANGED <<words, lines, strayed>>

shell_backspace ==
    /\ IF cmd_buf = <<>>
       THEN UNCHANGED <<cmd_buf, vga, strayed>>
       ELSE /\ cmd_buf' = Front(cmd_buf)
            /\ vga' = vga_putchar(vga, "BS")
            /\ strayed' = (strayed \/ vga.col = 0)
    /\ UNCHANGED <<words, lines>>

\* The newline: shell_exec takes the line apart.
shell_enter ==
    /\ lines < MaxLines
    /\ vga' = vga_putchar(vga, "\n")
    /\ words' = shell_parse(cmd_buf)
    /\ lines' = lines + 1
    /\ UNCHANGED <<cmd_buf, strayed>>

\* What a command leaves on the screen: its output, or nothing but a clear
\* screen.  An empty line is no command.
Outcomes ==
    IF words.cmd = <<>> THEN {vga}
    ELSE {vga_write(vga, out) : out \in Outputs} \cup {vga_clear}

\* The command's output and the next prompt.
shell_exec ==
    /\ \E v \in Outcomes : vga' = vga_write(v, Prompt)
    /\ words' = NoWords
    /\ cmd_buf' = <<>>
    /\ strayed' = FALSE
    /\ UNCHANGED lines

shell_run ==
    \/ words = NoWords /\ \E c \in Typed : shell_char(c)
    \/ words = NoWords /\ shell_backspace
    \/ words = NoWords /\ shell_enter
    \/ words # NoWords /\ shell_exec

----------------------------------------------------------------------------
(***************************************************************************)
(* What the user sees is what the shell has: the prompt and the characters *)
(* of cmd_buf stand in the cells before the cursor, across the ends of     *)
(* rows and after any scrolling, and nothing stands behind it, so that the *)
(* command that runs is the one that was read on the screen.  It holds     *)
(* until a backspace meets column 0, which vga_putchar ignores while the   *)
(* shell takes the character back (vga.c:70, shell.c:378).  The cursor     *)
(* never leaves the screen, and the line always leaves room for its NUL.   *)
(***************************************************************************)
ScreenShowsCommand ==
    /\ vga.row \in 0 .. VGA_HEIGHT - 1 /\ vga.col \in 0 .. VGA_WIDTH - 1
    /\ DOMAIN vga.cells = Cells
    /\ Len(cmd_buf) <= CmdMax
    /\ (vga # vga_clear /\ words = NoWords /\ ~strayed) =>
           LET text == Prompt \o cmd_buf
               first == CursorOf(vga) - Len(text)
           IN  /\ \A k \in 1 .. Len(text) :
                     first + k - 1 \in Cells => vga.cells[first + k - 1] = text[k]
               /\ \A n \in CursorOf(vga) .. VGA_WIDTH * VGA_HEIGHT - 1 :
                     vga.cells[n] = Blank

\* Where the words of a line begin and end.
WordStarts(s) == {n \in DOMAIN s : s[n] # Blank /\ (n = 1 \/ s[n - 1] = Blank)}
Least(S) == {n \in S : \A j \in S : n <= j}
First(s) == Least(WordStarts(s))
Second(s) == Least(WordStarts(s) \ First(s))
Third(s) == Least(WordStarts(s) \ (First(s) \cup Second(s)))
WordAt(s, n) == SubSeq(s, n, CHOOSE e \in n .. Len(s) :
                    /\ e = Len(s) \/ s[e + 1] = Blank
                    /\ \A j \in n .. e : s[j] # Blank)

(***************************************************************************)
(* The parser, which cuts the line in place while it walks over it, finds  *)
(* the first two words and gives the rest from the third word on, however  *)
(* many blanks are before, between and behind them.                        *)
(***************************************************************************)
ParseFindsWords ==
    words # NoWords =>
        /\ \A n \in First(cmd_buf) : words.cmd = WordAt(cmd_buf, n)
        /\ \A n \in Second(cmd_buf) : words.arg1 = WordAt(cmd_buf, n)
        /\ \A n \in Third(cmd_buf) :
               words.arg2 = SubSeq(cmd_buf, n, Len(cmd_buf))
        /\ First(cmd_buf) = {} => words.cmd = <<>>
        /\ Second(cmd_buf) = {} => words.arg1 = <<>>
        /\ Third(cmd_buf) = {} => words.arg2 = <<>>
=============================================================================
