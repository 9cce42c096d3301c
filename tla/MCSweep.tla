------------------------------- MODULE MCSweep ------------------------------
(***************************************************************************)
(* Nobody else on the system, and every scan of five families: images of one *)
(* file (stack protection against what is left of the section headers;       *)
(* layout and dynamic flags; imported and static names), files built by      *)
(* elfgen, and command lines.                                               *)
(***************************************************************************)
EXTENDS Documented, CommandLine, ElfGen, Output, TLC

MCBaseName    == {"__stack_chk_fail", "__memcpy_chk", "memcpy", "main"}
MCCanaryBase  == {"__stack_chk_fail"}
MCFortifyBase == {"__memcpy_chk"}
MCFortifiable == {"memcpy"}
MCLibrary     == {"libc.so.6", "libm.so.6", "libc.musl-x86_64.so.1"}
MCLibcLibrary == {"libc.so.6"}
MCRunEntry    == {"/opt/lib", "$ORIGIN", "."}
MCEntryRisk   == [e \in MCRunEntry |-> CASE e = "/opt/lib" -> 0
                                         [] e = "$ORIGIN" -> 1 [] e = "." -> 2]

sym(b, v, t) == [name |-> [base |-> b, ver |-> v], type |-> t]
canary       == sym("__stack_chk_fail", "", "FUNC")

tables  == {"STRTAB", "SYMTAB"}
headers == {".dynamic", ".dynsym", ".text"}

noBody == [dyn |-> {}, needed |-> {}, rpath |-> {}, runpath |-> {}, dynsym |-> {},
           symtab |-> {}, trailing |-> {}, pac |-> {}]

baseBody == [noBody EXCEPT !.dyn = tables \cup {"DF_1_NOW", "DF_1_PIE"},
                           !.dynsym = {canary}]

baseHdr == [machine |-> "AARCH64", type |-> "DYN",
            segs |-> {"LOAD", "DYNAMIC", "INTERP", "GNU_RELRO", "GNU_STACK"},
            sections |-> headers]

elf(h, b) == [readable |-> TRUE, kind |-> "elf", hdr |-> h, body |-> b]

StackFamily ==
    {elf([baseHdr EXCEPT !.machine = m, !.segs = @ \cup seg, !.sections = sec],
         [baseBody EXCEPT !.dynsym = d, !.pac = p,
              !.symtab = IF ".symtab" \in sec THEN s ELSE {}]) :
        m \in Machine, seg \in {{}, {"RETGUARD"}},
        sec \in {{}, headers, headers \cup {".symtab"}, {".text", ".ohos.randomdata"}},
        d \in {{}, {canary}, {sym("__stack_chk_fail", "", "NOTYPE")}},
        s \in {{}, {canary}, {sym("main", "", "FUNC")}},
        p \in SUBSET {"text", "other"}}

dynFlags ==
    {tables \cup b \cup p \cup t :
        b \in {{}, {"BIND_NOW"}, {"DF_BIND_NOW"}, {"DF_1_NOW"}},
        p \in {{}, {"DF_1_PIE"}}, t \in {{}, {"TEXTREL"}, {"DF_TEXTREL"}}}

LayoutFamily ==
    {elf([machine |-> "other", type |-> t, segs |-> {"LOAD", "DYNAMIC"} \cup seg,
          sections |-> sec],
         [baseBody EXCEPT !.dyn = f, !.rpath = r, !.runpath = r]) :
        t \in {"DYN", "EXEC"}, f \in dynFlags,
        seg \in {i \cup x : i \in SUBSET {"INTERP", "GNU_RELRO"},
                             x \in {{}, {"GNU_STACK"}, {"GNU_STACK_X"}}},
        sec \in {{}, headers}, r \in {{}, {"$ORIGIN"}}}
    \cup {elf([baseHdr EXCEPT !.type = "REL", !.segs = {}, !.sections = sec],
              [noBody EXCEPT !.symtab = {canary}]) : sec \in {{".text", ".symtab"}}}
    \cup {elf([baseHdr EXCEPT !.type = "EXEC", !.segs = {"LOAD", "GNU_STACK"},
                              !.sections = {".text"}], noBody)}
    \cup {elf([baseHdr EXCEPT !.segs = (@ \ {"GNU_STACK"}) \cup {"CROWD"} \cup x], baseBody) :
              x \in {{}, {"GNU_STACK"}, {"GNU_STACK_X"}}}

NameFamily ==
    {elf([baseHdr EXCEPT !.machine = "other", !.sections = sec],
         [baseBody EXCEPT !.dynsym = d, !.needed = n, !.runpath = r,
              !.symtab = IF ".symtab" \in sec THEN s ELSE {}]) :
        sec \in {{}, headers, headers \cup {".symtab"}},
        d \in SUBSET {sym("memcpy", "", "FUNC"), sym("__memcpy_chk", "", "FUNC"),
                      sym("__memcpy_chk", "", "NOTYPE"), canary},
        n \in {{}, {"libc.so.6"}, {"libm.so.6"}},
        s \in {{sym("main", "", "FUNC")}, {sym("__memcpy_chk", "@", "FUNC")}},
        r \in {{"/opt/lib"}, {"/opt/lib", "."}}}

SweepContent == {img \in StackFamily \cup LayoutFamily \cup NameFamily :
                    wellFormed(img) /\ unambiguous(img)}

\* What cannot be opened and what cannot be parsed.
BrokenContent == {[elf(baseHdr, baseBody) EXCEPT !.readable = FALSE],
                  [elf(baseHdr, noBody) EXCEPT !.kind = "truncated"]}

ImageContent == SweepContent \cup BrokenContent

plainLayout ==
    [Machine |-> "other", Pie |-> FALSE, ETDyn |-> FALSE, Interp |-> FALSE,
     GnuStackX |-> FALSE, NoStack |-> FALSE, Relro |-> FALSE, BindNow |-> FALSE,
     Flags1Pie |-> FALSE, FlagsBind |-> FALSE, TextRel |-> FALSE, FlagsTextRel |-> FALSE,
     Retguard |-> FALSE, PacIBSP |-> FALSE, Rpath |-> {}, Runpath |-> {},
     DynSyms |-> {}, ObjectSyms |-> {}]

\* Layouts of the link, and layouts of the stack protection.
SweepLayout ==
    {[plainLayout EXCEPT !.Pie = p, !.ETDyn = d, !.Interp = i, !.Relro = g, !.BindNow = b,
                         !.FlagsBind = b2, !.Flags1Pie = f, !.TextRel = t, !.Rpath = r,
                         !.DynSyms = y] :
        p \in BOOLEAN, d \in BOOLEAN, i \in BOOLEAN, g \in BOOLEAN, b \in BOOLEAN,
        b2 \in BOOLEAN, f \in BOOLEAN, t \in BOOLEAN, r \in {{}, {"."}},
        y \in {{}, {canary.name}}}
    \cup {[plainLayout EXCEPT !.Machine = m, !.ETDyn = TRUE, !.Relro = TRUE, !.BindNow = TRUE,
                              !.Retguard = r, !.PacIBSP = p, !.GnuStackX = x, !.NoStack = n,
                              !.FlagsTextRel = t, !.DynSyms = y, !.ObjectSyms = o] :
        m \in Machine, r \in BOOLEAN, p \in BOOLEAN, x \in BOOLEAN, n \in BOOLEAN,
        t \in BOOLEAN, y \in {{}, {canary.name}}, o \in {{}, {canary.name}}}

\* TLC evaluates what a cfg substitutes for a constant at every use; a value
\* with a name of its own it evaluates once.
sweepContent == ImageContent \cup {Build(l) : l \in SweepLayout}
AllContent   == sweepContent

\* Images for the statements of Documented.
LazyContent   == {elf([baseHdr EXCEPT !.machine = m], [baseBody EXCEPT !.dyn = tables]) : m \in Machine}
NoTypeContent == {elf(baseHdr, [baseBody EXCEPT !.dynsym = {sym("__stack_chk_fail", "", t)}]) :
                      t \in {"FUNC", "NOTYPE"}}

-----------------------------------------------------------------------------
\* Operands, flags with and without their value, and what reorderArgs and
\* package flag may take for one another.
lex(d, n, v) == [dashes |-> d, name |-> n, value |-> v]

SweepLex ==
    [a |-> lex(0, "a", NoValue), root |-> lex(0, "root", NoValue), json |-> lex(0, "json", NoValue)]
    @@ ("compliance-json" :> lex(0, "compliance-json", NoValue))
    @@ ("table" :> lex(0, "table", NoValue))
    @@ ("-" :> lex(1, "", NoValue)) @@ ("--" :> lex(2, "", NoValue))
    @@ ("-format" :> lex(1, "format", NoValue)) @@ ("--format=xml" :> lex(2, "format", "xml"))
    @@ ("---libc" :> lex(3, "libc", NoValue)) @@ ("-libc" :> lex(1, "libc", NoValue))
    @@ ("-verbose" :> lex(1, "verbose", NoValue)) @@ ("-verbose=x" :> lex(1, "verbose", "x"))
    @@ ("-recursive" :> lex(1, "recursive", NoValue))
    @@ ("--recursive=false" :> lex(2, "recursive", "false"))
    @@ ("-recursive=T" :> lex(1, "recursive", "T"))
    @@ ("-x" :> lex(1, "x", NoValue))

SweepArg == DOMAIN SweepLex

FileArg  == {"a", "json", "-", "--", "-format", "--format=xml", "---libc", "-verbose", "-x"}
DirArg   == {"root", "a", "--", "-recursive", "--recursive=false",
             "-recursive=T", "-libc", "-verbose=x"}

argvOf(args, max) == UNION {[1..n -> args] : n \in 0..max}

FileArgv == argvOf(FileArg, 3) \cup argvOf({"a", "json", "--", "-format"}, 4)
DirArgv  == argvOf(DirArg, 3)

FormatArgv(fmt) == <<"a", "-format", fmt>>
ImageArgv == {FormatArgv("json"), FormatArgv("compliance-json")}

-----------------------------------------------------------------------------
SweepPath    == SweepArg \ {"root"}
SweepDir     == {"root", "sub"}
SweepEntries == [root |-> <<"sub">>, sub |-> <<"a">>]
SweepInode   == {1}

fileJob == [args \in FileArgv \cup ImageArgv |-> commandLine("file", args)]
dirJob  == [args \in DirArgv |-> commandLine("dir", args)]

sweepJobs == {fileJob[args] : args \in DOMAIN fileJob}
                 \cup {dirJob[args] : args \in DOMAIN dirJob}
SweepJobs == sweepJobs
JsonJob   == {commandLine("file", FormatArgv("json"))}
TableJob  == {commandLine("file", FormatArgv("table"))}

holds(img) == disk = [i \in Inode |-> img]

SweepFamily ==
    \/ /\ argv \in ImageArgv /\ job = fileJob[argv]
       /\ layout = NoLayout /\ \E img \in ImageContent : holds(img)
    \/ /\ argv = FormatArgv("json") /\ job = fileJob[argv]
       /\ layout \in SweepLayout /\ holds(Build(layout))
    \/ /\ \/ argv \in FileArgv /\ job = fileJob[argv]
          \/ argv \in DirArgv /\ job = dirJob[argv]
       /\ layout = NoLayout /\ holds(elf(baseHdr, baseBody))

sweepVars == <<vars, argv, layout>>

present == files = [p \in Path |-> IF p = "a" THEN 1 ELSE NoInode]

SweepInit == SweepFamily /\ present /\ CommandInit

SweepNext == Next /\ UNCHANGED <<argv, layout>>

SweepSpec == SweepInit /\ [][SweepNext]_sweepVars

\* The scans of Documented.
DocInit == /\ argv = <<>> /\ layout = NoLayout /\ present /\ Init

DocSpec == DocInit /\ [][SweepNext]_sweepVars
=============================================================================
