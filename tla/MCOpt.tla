-------------------------------- MODULE MCOpt --------------------------------
(* Instances of Opt for TLC: three tables that between them hold every type *)
(* of option, and the command lines of up to three entries.                 *)
EXTENDS Opt, SequencesExt
CONSTANT Text   \* a value that is not a number

\* The names, with their lengths.
Name(n)  == [id |-> n, len |-> 1]
Long(n)  == [id |-> n, len |-> 3]
Entry(name, type, param, in, out) ==
  [name |-> name, type |-> type, param |-> param, in |-> in, out |-> out,
   help |-> TRUE, helpParam |-> 2, callback |-> "none"]
Group(n) == Entry(Name(n), "GROUP", "NONE", None, None)
Between(lo, hi, def) == [min |-> lo, max |-> hi, def |-> def]

\* Numbers with and without a range, a counter and a flag that take no
\* parameter, a callback that rejects, a missing out pointer.
NumberTable == <<Entry(Name("n"), "INT", "REQUIRED", Between(1, 5, 9), "num"),
                 Group("g"),
                 Entry(Name("x"), "DOUBLE", "OPTIONAL", None, "dbl"),
                 Entry(Long("c"), "COUNTER", "NONE", None, "cnt"),
                 [Entry(Name("c"), "FLAG", "NONE", None, "flag")
                    EXCEPT !.callback = "accepts"],
                 [Entry(Name("h"), "CALLBACK_ONLY", "OPTIONAL", None, None)
                    EXCEPT !.callback = "rejects"],
                 Entry(Long("v"), "INT", "OPTIONAL", None, None)>>
\* Help, version, strings, and two bits of one word.
HelpTable == <<Entry(Name("h"), "HELP", "NONE", None, None),
               Entry(Long("n"), "STRING", "REQUIRED", None, "str"),
               [Entry(Name("x"), "BIT", "NONE", {1}, "bits") EXCEPT !.help = FALSE],
               Entry(Name("c"), "BIT", "NONE", {2}, "bits"),
               Group("g"),
               Entry(Long("v"), "VERSION", "NONE", None, None)>>
\* A name that occurs twice, a string without an out pointer, callbacks.
OddTable == <<[Entry(Name("n"), "FLAG", "OPTIONAL", None, "flag")
                 EXCEPT !.callback = "accepts"],
              Entry(Name("n"), "COUNTER", "OPTIONAL", None, "cnt"),
              Entry(Name("x"), "INT", "OPTIONAL", None, None),
              Entry(Long("n"), "STRING", "OPTIONAL", None, None),
              [Entry(Name("c"), "CALLBACK_ONLY", "OPTIONAL", None, None)
                 EXCEPT !.callback = "rejects"]>>
GroupTable == <<Group("g")>>

MCTables == {NumberTable, HelpTable, OddTable, GroupTable}
Option(n, eq) == [kind |-> "option", name |-> n, eq |-> eq]
Options == {Option(Name("n"), e) : e \in {None, 3, Text}}
           \cup {Option(Name("x"), None), Option(Name("c"), None),
                 Option(Long("c"), None), Option(Long("n"), None),
                 Option(Name("x"), 3), Option(Long("c"), 3),
                 Option(Name("h"), None), Option(Long("v"), None)}
Words   == {[kind |-> "word", value |-> v] : v \in {3, 7, Text}}
End     == [kind |-> "end"]
MCEntries == Options \cup Words \cup {End}
MCCommandLines == SeqOf(MCEntries, 3)
=============================================================================
