----------------------------- MODULE CommandLine ----------------------------
(***************************************************************************)
(* From the arguments of scc to the job a scan runs: run declares the flags  *)
(* of the command, reorderArgs moves flags before operands, and package flag *)
(* parses the result up to the first operand.  Two passes have to agree on   *)
(* which argument is a flag, which a flag's value and which a target.        *)
(*                                                                          *)
(* An argument is a string; Lex is what both passes see of it: its leading   *)
(* dashes, the name after them, and the value after an "=".                  *)
(***************************************************************************)
EXTENDS Scan

CONSTANTS
    Arg,       \* the arguments considered
    Lex,       \* Arg -> [dashes, name, value]
    NoValue    \* the value of an argument without "="

\* strconv.ParseBool.
trueText  == {"1", "t", "T", "true", "TRUE", "True"}
falseText == {"0", "f", "F", "false", "FALSE", "False"}

ASSUME LexAssumption ==
    /\ Lex \in [Arg -> [dashes : Nat, name : STRING, value : STRING \cup {NoValue}]]
    /\ NoValue \notin trueText \cup falseText
    /\ "--" \in Arg => Lex["--"].dashes = 2

VARIABLE argv   \* os.Args[2:], what follows the command

\* newFlags, and -recursive for dir.
valueFlags     == {"format", "libc"}
boolFlags(cmd) == {"verbose", "no-color"} \cup (IF cmd = "dir" THEN {"recursive"} ELSE {})

\* Anything that starts with "-", but for "-" itself.
dashed(a) == Lex[a].dashes > 0 /\ a # "-"

-----------------------------------------------------------------------------
(***************************************************************************)
(* reorderArgs.  Whatever follows "--" is an operand; an unknown flag takes  *)
(* no value; a flag of package flag that is not boolean takes the next one.  *)
(***************************************************************************)
\* Fault: every flag without "=" takes the next argument.
takesNextAlways(cmd, a) == Lex[a].value = NoValue

takesNext(cmd, a) == Lex[a].value = NoValue /\ Lex[a].name \in valueFlags

reorderStep(cmd, s, a) ==
    CASE s.mode = "operands" -> [s EXCEPT !.positional = Append(@, a)]
      [] s.mode = "value"    -> [s EXCEPT !.flags = Append(@, a), !.mode = "any"]
      [] s.mode = "any" /\ a = "--" -> [s EXCEPT !.mode = "operands"]
      [] s.mode = "any" /\ dashed(a) /\ a # "--" ->
            [s EXCEPT !.flags = Append(@, a),
                      !.mode = IF takesNext(cmd, a) THEN "value" ELSE "any"]
      [] s.mode = "any" /\ ~dashed(a) -> [s EXCEPT !.positional = Append(@, a)]

reordering(cmd, args) ==
    LET after[i \in 0..Len(args)] ==
            IF i = 0 THEN [mode |-> "any", flags |-> <<>>, positional |-> <<>>]
            ELSE reorderStep(cmd, after[i - 1], args[i])
    IN  after[Len(args)]

reorderArgs(cmd, args) ==
    LET s == reordering(cmd, args) IN s.flags \o s.positional

-----------------------------------------------------------------------------
(***************************************************************************)
(* Package flag.  Of what it sets, a scan reads format and recursive; -libc  *)
(* sets an option nobody reads.                                             *)
(***************************************************************************)
setFlag(s, name, v) ==
    [s EXCEPT !.mode = "any",
              !.format = IF name = "format" THEN v ELSE @,
              !.recursive = IF name = "recursive" THEN v = "true" ELSE @]

\* A flag must be declared; "-=v", "-" twice and more, have bad syntax; a
\* boolean is set by its bare name or by a value that is one.
parseFlag(cmd, s, a) ==
    LET f == Lex[a]
        isBool  == f.name \in boolFlags(cmd)
        isValue == f.name \in valueFlags
    IN  CASE f.dashes > 2 \/ ~(isBool \/ isValue) -> [s EXCEPT !.mode = "error"]
          [] f.dashes <= 2 /\ isBool ->
                CASE f.value \in trueText \cup {NoValue} -> setFlag(s, f.name, "true")
                  [] f.value \in falseText -> setFlag(s, f.name, "false")
                  [] OTHER -> [s EXCEPT !.mode = "error"]
          [] f.dashes <= 2 /\ isValue ->
                IF f.value = NoValue THEN [s EXCEPT !.mode = "value", !.flag = f.name]
                ELSE setFlag(s, f.name, f.value)

\* Parse ends at the first operand, and at "--", which it drops.
parseStep(cmd, s, a) ==
    CASE s.mode = "error"    -> s
      [] s.mode = "operands" -> [s EXCEPT !.rest = Append(@, a)]
      [] s.mode = "value"    -> setFlag(s, s.flag, a)
      [] s.mode = "any" /\ a = "--" -> [s EXCEPT !.mode = "operands"]
      [] s.mode = "any" /\ dashed(a) /\ a # "--" -> parseFlag(cmd, s, a)
      [] s.mode = "any" /\ ~dashed(a) -> [s EXCEPT !.mode = "operands", !.rest = Append(@, a)]

unparsed == [mode |-> "any", flag |-> "", format |-> "table", recursive |-> FALSE, rest |-> <<>>]

jobOf(cmd, s) ==
    [cmd |-> cmd, flagsOK |-> s.mode \notin {"error", "value"}, rest |-> s.rest,
     recursive |-> s.recursive, format |-> s.format, lines |-> <<>>]

\* What run makes of its arguments.
commandLine(cmd, args) ==
    LET list == reorderArgs(cmd, args)
        after[i \in 0..Len(list)] == IF i = 0 THEN unparsed
                                     ELSE parseStep(cmd, after[i - 1], list[i])
    IN  jobOf(cmd, after[Len(list)])

-----------------------------------------------------------------------------
(***************************************************************************)
(* Reference: one pass, in which an operand does not end the flags and "--"  *)
(* does.                                                                    *)
(***************************************************************************)
permuteStep(cmd, s, a) ==
    IF s.mode = "any" /\ ~dashed(a) THEN [s EXCEPT !.rest = Append(@, a)]
    ELSE parseStep(cmd, s, a)

permuted(cmd, args) ==
    LET after[i \in 0..Len(args)] == IF i = 0 THEN unparsed
                                     ELSE permuteStep(cmd, after[i - 1], args[i])
    IN  jobOf(cmd, after[Len(args)])

\* reorderArgs drops "--": when the first operand stands behind it and starts
\* with a dash, Parse takes it for a flag.
dashFirst(cmd, args) ==
    LET p == reordering(cmd, args).positional IN p # <<>> /\ dashed(p[1])

\* A last flag without its value: Parse gives it the first operand.
valueMissing(cmd, args) ==
    LET s == reordering(cmd, args) IN s.mode = "value" /\ s.positional # <<>>

-----------------------------------------------------------------------------
\* The job is what the command line c says; what a list file holds is not on it.
jobIs(c) == job = [c EXCEPT !.lines = job.lines]

\* Any arguments; the job of a scanning command is what run makes of them.
CommandInit ==
    /\ Init
    /\ argv \in Seq(Arg)
    /\ scans => jobIs(commandLine(job.cmd, argv))

CommandSpec == CommandInit /\ [][Next /\ UNCHANGED argv]_<<vars, argv>>

(***************************************************************************)
(* Flags mean the same before and after the targets (README.md:63): what is  *)
(* scanned, printed and gated is what one pass over the arguments asks for,  *)
(* and arguments that ask for nothing end in 1 with nothing scanned.  Two    *)
(* command lines escape: dashFirst and valueMissing.                        *)
(***************************************************************************)
ScannedAsAsked ==
    LET asked == permuted(job.cmd, argv)
        sound == asked.flagsOK /\ asked.rest # <<>> /\ asked.format \in Format
    IN  /\ phase # "start" /\ scans
        /\ ~dashFirst(job.cmd, argv) /\ ~valueMissing(job.cmd, argv)
        => /\ sound => jobIs(asked)
           /\ sound /\ job.cmd = "file" => paths = asked.rest
           /\ ~sound => exit = 1 /\ paths = <<>>
=============================================================================
