------------------------------- MODULE MCScan -------------------------------
(***************************************************************************)
(* Small instances of Scan: two files, one of them in a subdirectory, four   *)
(* inodes (two names, one open descriptor, one new file), and images that    *)
(* differ in every check.                                                   *)
(***************************************************************************)
EXTENDS ScanRefinement

\* The strings the source's patterns tell apart.
MCBaseName    == {"__stack_chk_fail", "__memcpy_chk", "memcpy", "main"}
MCCanaryBase  == {"__stack_chk_fail"}
MCFortifyBase == {"__memcpy_chk"}
MCFortifiable == {"memcpy"}
MCLibrary     == {"libc.so.6", "libm.so.6"}
MCLibcLibrary == {"libc.so.6"}
MCRunEntry    == {"/opt/lib", "$ORIGIN", "."}
MCEntryRisk   == [e \in MCRunEntry |-> CASE e = "/opt/lib" -> 0
                                         [] e = "$ORIGIN" -> 1 [] e = "." -> 2]

sym(b, v, t) == [name |-> [base |-> b, ver |-> v], type |-> t]

noBody == [dyn |-> {}, needed |-> {}, rpath |-> {}, runpath |-> {}, dynsym |-> {},
           symtab |-> {}, trailing |-> {}, pac |-> {}]

\* gcc -fPIE -pie -fstack-protector -Wl,-z,relro,-z,now -D_FORTIFY_SOURCE=2 -s
goodBody == [noBody EXCEPT
    !.dyn = {"STRTAB", "SYMTAB", "BIND_NOW", "DF_1_NOW", "DF_1_PIE"},
    !.needed = {"libc.so.6"},
    !.dynsym = {sym("__stack_chk_fail", "", "FUNC"), sym("__memcpy_chk", "", "FUNC")}]

goodHdr == [machine |-> "AARCH64", type |-> "DYN",
            segs |-> {"LOAD", "DYNAMIC", "INTERP", "GNU_RELRO", "GNU_STACK"},
            sections |-> {".dynamic", ".dynsym", ".text"}]

elfImage(h, b) == [readable |-> TRUE, kind |-> "elf", hdr |-> h, body |-> b]

GoodImg == elfImage(goodHdr, goodBody)

\* A library with retguard and pointer authentication instead of a canary.
RetguardImg == elfImage([goodHdr EXCEPT !.segs = {"LOAD", "DYNAMIC", "GNU_RELRO",
                                                  "GNU_STACK", "RETGUARD"}],
                        [goodBody EXCEPT !.dynsym = {}, !.pac = {"text"},
                                         !.dyn = @ \ {"DF_1_PIE"}])

\* The same program built with nothing switched on, not stripped.
WeakImg == elfImage([goodHdr EXCEPT !.type = "EXEC",
                        !.segs = {"LOAD", "DYNAMIC", "INTERP", "GNU_STACK_X"},
                        !.sections = @ \cup {".symtab"}],
                    [goodBody EXCEPT !.dyn = {"STRTAB", "SYMTAB"},
                        !.rpath = {"."}, !.runpath = {"$ORIGIN"},
                        !.dynsym = {sym("memcpy", "", "FUNC")},
                        !.symtab = {sym("main", "", "FUNC")}])

\* What chrpath and a rebind in place may leave of GoodImg.
LazyImg == elfImage(goodHdr, [goodBody EXCEPT !.dyn = {"STRTAB", "SYMTAB", "DF_1_PIE"},
                                             !.rpath = {"/opt/lib"}])

\* GoodImg without its stack protection and with text relocations, as a library.
BareImg == elfImage([goodHdr EXCEPT !.segs = {"LOAD", "DYNAMIC"}],
                    [goodBody EXCEPT !.dynsym = {}, !.dyn = {"STRTAB", "SYMTAB", "TEXTREL"}])

DataImg      == [readable |-> TRUE, kind |-> "data", hdr |-> noHdr, body |-> noBody]
TruncatedImg == [DataImg EXCEPT !.kind = "truncated"]
LockedImg    == [GoodImg EXCEPT !.readable = FALSE]

BuildContent   == {GoodImg, WeakImg, DataImg}
ExitContent    == BuildContent \cup {RetguardImg}
WalkContent    == {GoodImg, DataImg, TruncatedImg}
AtomicContent  == WalkContent \cup {WeakImg, LockedImg}
PatchContent   == {GoodImg, LazyImg, RetguardImg, BareImg}

-----------------------------------------------------------------------------
MCPath    == {"a", "b"}
MCDir     == {"root", "sub"}
MCEntries == [root |-> <<"a", "sub">>, sub |-> <<"b">>]
MCInode   == 1..4

command(cmd, rest, fmt) ==
    [cmd |-> cmd, flagsOK |-> TRUE, rest |-> rest, recursive |-> FALSE,
     format |-> fmt, lines |-> <<>>]

WalkJobs ==
    {[command("dir", <<"root">>, "json") EXCEPT !.recursive = r] : r \in BOOLEAN}
        \cup {command("dir", <<"a">>, "compliance")}

FileJobs ==
    {command("file", <<"a">>, f) : f \in {"table", "compliance-json"}}

CommandJobs ==
    {command("file", <<"a", "b">>, f) : f \in Format \ {"csv", "xml"}}
        \cup {command("file", <<"a", "a">>, "xml"),
              [command("list", <<"l">>, "csv") EXCEPT !.lines = <<"#", "b", "", "a">>],
              [command("list", <<"l">>, "compliance-json") EXCEPT !.lines = <<"">>],
              command("dir", <<"sub", "a">>, "table"),
              command("file", <<>>, "json"), command("file", <<"a">>, "yaml"),
              [command("dir", <<"root">>, "json") EXCEPT !.flagsOK = FALSE],
              command("version", <<>>, ""), command("none", <<>>, "")}

AtomicJobs == WalkJobs \cup {command("file", <<"a", "b">>, "json"),
                             command("file", <<"a">>, "table"),
                             command("file", <<"a">>, "yaml"), command("help", <<>>, "")}

\* A third file after the subdirectory, for what moves ahead of the walk or
\* behind it.
WalkPath    == {"a", "b", "z"}
WalkEntries == [root |-> <<"a", "sub", "z">>, sub |-> <<"b">>]
WalkInode   == 1..5

-----------------------------------------------------------------------------
\* Each file starts in an inode of its own or is missing; inodes nobody uses
\* hold the same image, so that they do not multiply the initial states.
MCInit ==
    /\ files \in [Path -> Inode \cup {NoInode}]
    /\ \A p \in Path : files[p] \in {NoInode, CASE p = "a" -> 1 [] p = "b" -> 2 [] p = "z" -> 3}
    /\ disk \in [Inode -> Content]
    /\ \A i \in Inode \ {files[p] : p \in Path} : disk[i] = GoodImg
    /\ Init

MCSpec == MCInit /\ [][Next]_vars

MCFairSpec == MCSpec /\ WF_vars(scc)
=============================================================================
