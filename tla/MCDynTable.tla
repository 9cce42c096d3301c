----------------------------- MODULE MCDynTable -----------------------------
(***************************************************************************)
(* Words of six bits, symbols of three cells, and files of two symbols that  *)
(* are linked in every order and then damaged one header at a time.          *)
(***************************************************************************)
EXTENDS DynTable, SequencesExt

MCHalf == 32

FUNC   == 18    \* STB_GLOBAL, STT_FUNC
OBJECT == 17

A == 40
B == 41

\* The string table of the two names, and the symbol table.
strings(first, second) == <<0>> \o first \o <<0>> \o second \o <<0>>

entry(nameOff, info) == <<nameOff, info, 0>>

\* opts: base and size of the PT_LOAD, where a second one takes over and how much
\* higher it lies, order of the tables, what follows the symbol table, entry size
\* and string size declared, types, an entry cut off, an offset that is wrong.
built(o) ==
    LET strs  == strings(<<A, B>>, <<B>>)
        syms  == entry(1, o.first) \o entry(4, FUNC)
        dynLn == IF o.syment = NoValue THEN 8 ELSE 10
        two   == IF o.symsFirst THEN syms \o o.after \o strs ELSE strs \o syms \o o.after
        symAt == IF o.symsFirst THEN dynLn ELSE dynLn + Len(strs)
        strAt == IF o.symsFirst THEN dynLn + Len(syms \o o.after) ELSE dynLn
        at(x) == uint(o.vaddr + x + (IF x >= o.split THEN o.gap ELSE 0))
        dyn   == <<DT_STRTAB, at(strAt), DT_SYMTAB, at(symAt), DT_STRSZ, o.strsz>>
                     \o (IF o.syment = NoValue THEN <<>> ELSE <<DT_SYMENT, o.syment>>)
                     \o <<DT_NULL, 0>>
        cells == dyn \o two
        load(from, to) == [type |-> "LOAD", vaddr |-> at(from), off |-> from + o.skew,
                           filesz |-> to - from]
        size  == Len(cells) - o.short
        loads == IF o.split >= size THEN <<load(o.off, size)>>
                 ELSE <<load(o.off, o.split), load(o.split, size)>>
        dynp  == [type |-> "DYNAMIC", vaddr |-> o.vaddr, off |-> 0, filesz |-> o.dynsz]
    IN  [progs |-> (IF o.last THEN Reverse(loads) ELSE loads) \o <<dynp>>, cells |-> cells,
         link |-> [syms |-> <<[name |-> <<A, B>>, info |-> o.first],
                              [name |-> <<B>>, info |-> FUNC]>>,
                   symAt |-> symAt, strAt |-> strAt, strLen |-> Len(strs)]]

plain == [vaddr |-> 16, off |-> 0, short |-> 0, split |-> 99, gap |-> 0, last |-> FALSE,
          symsFirst |-> TRUE, after |-> <<>>, syment |-> 3, strsz |-> 6, dynsz |-> 10,
          first |-> FUNC, skew |-> 0]

\* Linked in order: at the bottom, in the middle and at the top of the address
\* space; a segment that starts later in the file; no, default and right sizes.
inOrderFiles ==
    {built([plain EXCEPT !.vaddr = v, !.off = f, !.symsFirst = s, !.after = a,
                         !.syment = e, !.dynsz = IF e = NoValue THEN 8 ELSE 10, !.first = t]) :
        v \in {0, 16, 41}, f \in {0, 8}, s \in BOOLEAN, a \in {<<>>, entry(2, FUNC)},
        e \in {NoValue, 0, 3}, t \in {FUNC, OBJECT}}

\* Two segments, as linkers make them: with both tables in the second, with one
\* table in each, and with the border within a table.
splitFiles ==
    {built([plain EXCEPT !.split = k, !.gap = g, !.last = r, !.symsFirst = s, !.after = a,
                         !.first = t]) :
        k \in {10, 16, 19}, g \in {0, 8}, r \in BOOLEAN, s \in BOOLEAN,
        a \in {<<>>, entry(2, FUNC)}, t \in {FUNC, OBJECT}}

\* One header wrong: a segment past the top of the address space, or that ends
\* before its tables do, or that puts one or both at an offset beyond int64; sizes
\* that are too small, too large or negative; a dynamic section that is cut or
\* reads on.
damagedFiles ==
    {built([plain EXCEPT !.vaddr = v, !.symsFirst = s]) : v \in {45, 60}, s \in BOOLEAN}
    \cup {built([plain EXCEPT !.short = k, !.symsFirst = s]) : k \in {1, 4, 9, 14}, s \in BOOLEAN}
    \cup {built([plain EXCEPT !.syment = e, !.symsFirst = s]) :
             e \in {1, 2, 4, 9, 31, 32, 63}, s \in BOOLEAN}
    \cup {built([plain EXCEPT !.skew = k, !.symsFirst = FALSE]) : k \in {18, 24}}
    \cup {built([plain EXCEPT !.strsz = k]) : k \in {0, 2, 8, 20}}
    \cup {built([plain EXCEPT !.dynsz = k]) : k \in {0, 3, 5, 8, 20}}

MCImageFile == inOrderFiles \cup splitFiles \cup damagedFiles
=============================================================================
