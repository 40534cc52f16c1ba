--------------------------------- MODULE Opt ---------------------------------
(***************************************************************************)
(* The option parser of libae/opt.c: the walk of ae_opt_process over a     *)
(* command line, what it stores through the option table, and the columns  *)
(* of the help it prints.                                                  *)
(*                                                                         *)
(* An entry of the command line is an option, whose name is what lies      *)
(* between "--" and "=" and whose eq is what follows "=", or a word, whose *)
(* value is all of it, or the end marker "--".  A value is a number or     *)
(* something sscanf does not read as one.                                  *)
(***************************************************************************)
EXTENDS Integers, Sequences, FiniteSets, FiniteSetsExt

CONSTANTS
  None,         \* NULL, and no "=" part
  Numbers,      \* the values that are numbers
  Tables,       \* the option tables
  Entries,      \* what argv[1], argv[2], ... can be
  CommandLines, \* argv[1], argv[2], ...
  Program,      \* argv[0], a word
  FirstOptinds, \* what the caller leaves in optind: ae_opt_init does not set it
  MaxCalls      \* bound: calls of ae_opt_process

\* A table has its length, names and parameters theirs, in bytes; the entries
\* of a command line are of the three kinds, and a word is a string.
ASSUME OptAssumption ==
  /\ None \notin Numbers \cup {Program} /\ Numbers \subseteq Int
  /\ FirstOptinds \subseteq Nat /\ MaxCalls \in Nat
  /\ \A t \in Tables :
       /\ Len(t) \in Nat /\ DOMAIN t = 1..Len(t)
       /\ \A k \in DOMAIN t : t[k].name.len \in Nat /\ t[k].helpParam \in Nat
  /\ CommandLines \subseteq Seq(Entries)
  /\ \A e \in Entries :
       /\ e.kind \in {"option", "word", "end"}
       /\ e.kind = "word" => e.value # None

VARIABLES
  table,    \* self->options
  lenient,  \* the callback for unknown arguments accepts them
  argv,     \* with argv[1] of the code as the second element
  optind,   \* self->optind
  cur,      \* index of the entry being processed
  j,        \* the table entry that was matched last
  matched,  \* processed, in ae_opt_process
  outs,     \* what the out pointers of the table point to
  printed,  \* the rows of the help text
  pc, result, calls,
  start,    \* optind at the first call
  used      \* the entries that were taken as an option, a parameter or "--"

fixed == <<table, lenient, argv, start>>
vars  == <<fixed, optind, cur, j, matched, outs, printed, pc, result, calls,
           used>>

argc   == Len(argv)
At(i)  == argv[i + 1]   \* the code's indices begin at 0
OutVar == {table[k].out : k \in DOMAIN table} \ {None}
Number == {"INT", "DOUBLE"}

\* The value of every variable an out pointer may point to, before the call.
InitialValue(t, v) ==
  LET o == CHOOSE k \in DOMAIN t : t[k].out = v
  IN  CASE t[o].type = "FLAG" -> FALSE
        [] t[o].type = "BIT" -> {}
        [] t[o].type = "STRING" -> None
        [] OTHER -> 0

Init ==
  /\ table \in Tables /\ lenient \in BOOLEAN
  /\ argv \in {<<[kind |-> "word", value |-> Program]>> \o l : l \in CommandLines}
  /\ optind \in FirstOptinds /\ start = optind
  /\ cur = 0 /\ j = 0 /\ matched = FALSE
  /\ outs = [v \in OutVar |-> InitialValue(table, v)]
  /\ printed = <<>>
  /\ pc = "caller" /\ result = "none" /\ calls = 0
  /\ used = {}

TypeOK ==
  /\ optind \in 0..Max({start, argc + Cardinality(DOMAIN table)})
  /\ cur \in 0..(argc - 1) /\ j \in 0..Len(table) /\ matched \in BOOLEAN
  /\ pc \in {"caller", "next", "match", "exited", "crashed"}
  /\ result \in {"none", "ok", "error"}
  /\ calls \in 0..MaxCalls /\ used \subseteq 0..(argc - 1)

----------------------------------------------------------------------------
(* One option of the table. *)

\* What follows an option, unless it begins with "--".
NextWord ==
  IF optind < argc /\ At(optind).kind = "word" THEN At(optind).value ELSE None

Param == IF At(cur).eq # None THEN At(cur).eq ELSE NextWord

Default(o) == IF o.in # None THEN o.in.def ELSE -1

\* What a number is read as, from a number or without a parameter.
NumberRead(o, p) == IF p = None THEN Default(o) ELSE p

\* What the parse functions store.  The number is stored before its range is
\* looked at, and a counter adds nothing for what is not a number.
NewValue(o, p) ==
  CASE o.type = "FLAG"   -> TRUE
    [] o.type = "BIT"    -> outs[o.out] \cup o.in
    [] o.type = "STRING" -> p
    [] o.type \in Number -> IF p \in Numbers \cup {None} THEN NumberRead(o, p)
                            ELSE outs[o.out]
    [] o.type = "COUNTER" -> outs[o.out] + (IF p = None THEN 1
                                            ELSE IF p \in Numbers THEN p ELSE 0)

Stores(o) == o.type \in Number \cup {"FLAG", "BIT", "STRING", "COUNTER"}

InRange(o, x) == o.in # None => o.in.min <= x /\ x <= o.in.max

\* A string is stored without a look at its out pointer: through NULL.
Crashes(o) == o.type = "STRING" /\ o.out = None

\* The parse function, which tests every other out pointer, and then the
\* option's callback accept the parameter.
Accepts(o, p) ==
  /\ Stores(o) /\ o.type # "STRING" => o.out # None
  /\ o.type \in Number => /\ p \in Numbers \cup {None}
                          /\ InRange(o, NumberRead(o, p))
  /\ o.callback # "rejects"

Returns(r) == pc' = "caller" /\ result' = r

----------------------------------------------------------------------------
(* The help text. *)

ParamWidth(o) == IF o.param = "NONE" THEN 0 ELSE 3 + o.helpParam
Field1Width(o) == o.name.len + ParamWidth(o)

\* Mutant of CountedWidth: parameters are not counted.
CountedWidthOfName(o) == o.name.len

\* ae_opt_option_field1_width: what is counted when the column is chosen ...
CountedWidth(o) ==
  IF o.type \in {"INT", "STRING"} THEN Field1Width(o) ELSE o.name.len

\* ... and what is printed there.
PrintedWidth(o) ==
  IF o.type \in Number \cup {"STRING", "COUNTER"}
  THEN Field1Width(o) ELSE o.name.len

Groups == {k \in DOMAIN table : table[k].type = "GROUP"}
Rows   == {k \in DOMAIN table \ Groups : table[k].help}

\* ae_opt_group_get_longest, and the group a row is printed in.
GroupOf(k) == Max({0} \cup {g \in Groups : g < k})
Longest(g) == Max({0} \cup {CountedWidth(table[k]) : k \in {r \in Rows : GroupOf(r) = g}})

\* ae_opt_help_print: the place of the dash in every row.
HelpPrint == printed' = [k \in Rows |-> Max({Longest(GroupOf(k)), PrintedWidth(table[k])})]

----------------------------------------------------------------------------
(* ae_opt_process. *)

Call ==
  /\ pc = "caller" /\ calls < MaxCalls
  /\ calls' = calls + 1
  /\ IF optind > argc THEN Returns("error") ELSE pc' = "next" /\ result' = "none"
  /\ UNCHANGED <<fixed, optind, cur, j, matched, outs, printed, used>>

EndOfArguments ==
  /\ pc = "next" /\ optind >= argc
  /\ Returns("ok")
  /\ UNCHANGED <<fixed, optind, cur, j, matched, outs, printed, calls, used>>

EndMarker ==
  /\ pc = "next" /\ optind < argc /\ At(optind).kind = "end"
  /\ optind' = optind + 1 /\ used' = used \cup {optind}
  /\ Returns("ok")
  /\ UNCHANGED <<fixed, cur, j, matched, outs, printed, calls>>

\* The test for a word is made in the loop over the table: with nothing but
\* groups there, a word is an unknown argument.
StopAtWord ==
  /\ pc = "next" /\ optind < argc /\ At(optind).kind = "word"
  /\ DOMAIN table # Groups
  /\ Returns("ok")
  /\ UNCHANGED <<fixed, optind, cur, j, matched, outs, printed, calls, used>>

\* Mutant of TakeArgument: optind is not moved.
TakeArgumentInPlace ==
  /\ pc = "next" /\ optind < argc /\ At(optind).kind = "option"
  /\ cur' = optind /\ used' = used \cup {optind}
  /\ j' = 0 /\ matched' = FALSE /\ pc' = "match"
  /\ UNCHANGED <<fixed, optind, outs, printed, result, calls>>

TakeArgument ==
  /\ pc = "next" /\ optind < argc
  /\ \/ At(optind).kind = "option"
     \/ At(optind).kind = "word" /\ DOMAIN table = Groups
  /\ cur' = optind /\ optind' = optind + 1 /\ used' = used \cup {optind}
  /\ j' = 0 /\ matched' = FALSE /\ pc' = "match"
  /\ UNCHANGED <<fixed, outs, printed, result, calls>>

\* The table entries that are still to be tried and have the option's name;
\* a match does not end the loop.
Matches ==
  IF At(cur).kind # "option" THEN {}
  ELSE {k \in DOMAIN table \ Groups : k > j /\ table[k].name = At(cur).name}

\* Mutant of Consumes: an entry is skipped also when there is no parameter.
ConsumesUnseen(o) ==
  IF o.param # "NONE"
  THEN optind' = optind + 1
       /\ used' = used \cup (IF Param # None /\ At(cur).eq = None THEN {optind} ELSE {})
  ELSE UNCHANGED <<optind, used>>

\* An entry is skipped whenever an option that takes a parameter has one,
\* be it this entry or what followed "=".
Consumes(o) ==
  IF o.param # "NONE" /\ Param # None
  THEN /\ optind' = optind + 1
       /\ used' = used \cup (IF At(cur).eq = None THEN {optind} ELSE {})
  ELSE UNCHANGED <<optind, used>>

\* ae_opt_option_process.
ProcessOption ==
  /\ pc = "match" /\ Matches # {}
  /\ LET k == Min(Matches)
         o == table[k]
         p == Param
     IN  /\ j' = k /\ matched' = TRUE
         /\ Consumes(o)
         /\ outs' = IF Stores(o) /\ o.out # None
                    THEN [outs EXCEPT ![o.out] = NewValue(o, p)] ELSE outs
         /\ CASE o.type \in {"HELP", "VERSION"} -> pc' = "exited" /\ UNCHANGED result
              [] Crashes(o) -> pc' = "crashed" /\ UNCHANGED result
              [] OTHER -> IF Accepts(o, p) THEN UNCHANGED <<pc, result>>
                                           ELSE Returns("error")
         /\ IF o.type = "HELP" THEN HelpPrint ELSE UNCHANGED printed
  /\ UNCHANGED <<fixed, cur, calls>>

\* After the last table entry: nothing had the name of the option.
Unknown ==
  /\ pc = "match" /\ Matches = {} /\ ~matched
  /\ IF lenient THEN pc' = "next" /\ UNCHANGED result ELSE Returns("error")
  /\ UNCHANGED <<fixed, optind, cur, j, matched, outs, printed, calls, used>>

Known ==
  /\ pc = "match" /\ Matches = {} /\ matched
  /\ pc' = "next"
  /\ UNCHANGED <<fixed, optind, cur, j, matched, outs, printed, result, calls,
                 used>>

Step == EndOfArguments \/ EndMarker \/ StopAtWord \/ TakeArgument
        \/ ProcessOption \/ Unknown \/ Known

Next == Call \/ Step

Spec == Init /\ [][Next]_vars /\ WF_vars(Step)

----------------------------------------------------------------------------
(* The meaning that ae/opt.h gives to a command line, read off it without  *)
(* walking and without the code's look-up of parameters.                   *)

Named(n) == {k \in DOMAIN table \ Groups : table[k].name = n}

IsOption(i) == At(i).kind = "option" /\ Named(At(i).name) # {}
OptionAt(i) == table[CHOOSE k \in Named(At(i).name) : TRUE]

FollowedByWord(i) == i + 1 < argc /\ At(i + 1).kind = "word"

\* A word is the parameter of the option before it, if that takes one and
\* has none after "="; any other word is a trailing parameter.
IsParam(i) ==
  /\ i - 1 >= start /\ At(i).kind = "word"
  /\ IsOption(i - 1) /\ OptionAt(i - 1).param # "NONE" /\ At(i - 1).eq = None

\* The parameter of an option; one with AE_OPT_PARAM_NONE has none.
ParamAt(i) ==
  IF OptionAt(i).param = "NONE" THEN None
  ELSE IF At(i).eq # None THEN At(i).eq
  ELSE IF FollowedByWord(i) THEN At(i + 1).value ELSE None

Lacks(i) == OptionAt(i).param = "REQUIRED" /\ ParamAt(i) = None

\* Entries at which the parser must stop: a word that is nobody's parameter,
\* the end marker, help and version, and whatever is refused.
Refused(i) ==
  \/ At(i).kind = "option" /\ ~IsOption(i) /\ ~lenient
  \/ /\ IsOption(i) /\ OptionAt(i).type \notin {"HELP", "VERSION"}
     /\ Lacks(i) \/ ~Accepts(OptionAt(i), ParamAt(i))
Halts(i) ==
  \/ At(i).kind = "end"
  \/ At(i).kind = "word" /\ ~IsParam(i)
  \/ Refused(i)
  \/ IsOption(i) /\ OptionAt(i).type \in {"HELP", "VERSION"}

StopsAt == Min({argc} \cup {i \in start..(argc - 1) : Halts(i)})

\* The entries at which the code is known to do something else: a parameter
\* after "=" where there must be none or with another entry behind it
\* (NothingSkipped), a parameter that is missing (RequiredIsRequired), a word
\* that an option without parameter reads (NoneTakesNone), a string without
\* an out pointer (NeverCrashes).
Deviates(i) ==
  LET o == OptionAt(i)
  IN  /\ IsOption(i)
      /\ \/ At(i).eq # None /\ (o.param = "NONE" \/ i + 1 < argc)
         \/ Lacks(i)
         \/ /\ o.param = "NONE" /\ FollowedByWord(i)
            /\ o.type \in Number \cup {"STRING", "COUNTER"}
         \/ Crashes(o)

\* The lines that are parsed as ae/opt.h says: the walk reaches none of those
\* entries, and in the table no name occurs twice and every variable has one
\* type.
Plain ==
  /\ start = 1 /\ DOMAIN table # Groups
  /\ \A k \in DOMAIN table \ Groups : Named(table[k].name) = {k}
  /\ \A k, l \in DOMAIN table :
       table[k].out = table[l].out /\ table[k].out # None => table[k].type = table[l].type
  /\ \A i \in 1..(argc - 1) : (\A k \in 1..(i - 1) : ~Halts(k)) => ~Deviates(i)

\* The options among some entries that write a variable.
WritersIn(v, s) == {i \in s : IsOption(i) /\ OptionAt(i).out = v /\ Stores(OptionAt(i))}

Adds(i) == IF ParamAt(i) = None THEN 1
           ELSE IF ParamAt(i) \in Numbers THEN ParamAt(i) ELSE 0

\* The value that the writers w give to a variable.
MeantBy(v, w) ==
  LET last  == Max(w)
      reads == {i \in w : ParamAt(i) \in Numbers \cup {None}}
  IN  IF w = {} THEN InitialValue(table, v)
      ELSE CASE OptionAt(last).type = "FLAG" -> TRUE
             [] OptionAt(last).type = "BIT" -> UNION {OptionAt(i).in : i \in w}
             [] OptionAt(last).type = "STRING" -> ParamAt(last)
             [] OptionAt(last).type = "COUNTER" -> MapThenSumSet(Adds, w)
             [] OTHER -> IF reads = {} THEN 0
                         ELSE NumberRead(OptionAt(Max(reads)), ParamAt(Max(reads)))

\* The writers are those up to the entry at which the parser stops: what is
\* refused has been stored before.
Meant(v) == MeantBy(v, WritersIn(v, start..StopsAt \cap 1..(argc - 1)))

\* When the first call is over, optind, the result and every variable are
\* what the command line says: which words are parameters and which one ends
\* the options depends on the entries around them and not on how the parser
\* came there.  A last option with "=" moves optind once more.
ParsesAsMeant ==
  Plain /\ calls = 1 /\ pc \in {"caller", "exited", "crashed"} =>
    /\ \A v \in OutVar : outs[v] = Meant(v)
    /\ pc = "exited" <=> /\ StopsAt < argc /\ IsOption(StopsAt)
                         /\ ~Refused(StopsAt)
    /\ pc = "caller" =>
         /\ result = "error" <=> StopsAt < argc /\ Refused(StopsAt)
         /\ StopsAt < argc /\ At(StopsAt).kind = "end" => optind = StopsAt + 1
         /\ StopsAt < argc /\ At(StopsAt).kind = "word" => optind = StopsAt
         /\ StopsAt = argc => optind >= argc
    /\ pc # "crashed"

Takers(n) == {k \in Named(n) : table[k].param # "NONE"}

\* The i-th entry is skipped behind the k-th, an option with a parameter after
\* "=": one entry for each row of the table that has its name and takes a
\* parameter, and none that was used lies between them.
SkippedBehind(k, i) ==
  /\ At(k).kind = "option" /\ At(k).eq # None
  /\ k < i /\ i <= k + Cardinality(Takers(At(k).name))
  /\ (k + 1)..i \cap used = {}

\* No entry is lost: what lies before optind was an option, a parameter or
\* the end marker, but for the entries skipped directly behind an option that
\* has its parameter after "=", no more of them than rows match it.
EntriesAccounted ==
  \A i \in start..(optind - 1) \cap 0..(argc - 1) :
    i \in used \/ \E k \in used : SkippedBehind(k, i)

\* In every group of the help text the dashes are below each other, for the
\* rows whose width is counted.
HelpColumns ==
  \A k, l \in DOMAIN printed :
    /\ GroupOf(k) = GroupOf(l)
    /\ \A r \in {k, l} : table[r].param = "NONE"
                         \/ table[r].type \notin {"DOUBLE", "COUNTER"}
    => printed[k] = printed[l]

\* Whatever the table and the command line, a call ends.
ProcessReturns == (pc = "next") ~> (pc \in {"caller", "exited", "crashed"})

\* "holds the number of the last processed argument.  This is used to process
\* trailing parameters" (ae/opt.h): no entry is skipped unseen.
NothingSkipped == start..(optind - 1) \cap 0..(argc - 1) \subseteq used

\* "You had better provide an argument.  I'm not kidding around" (ae/opt.h):
\* an option with AE_OPT_PARAM_REQUIRED and no parameter is refused.
RequiredIsRequired ==
  pc = "match" /\ j > 0 /\ matched /\ table[j].param = "REQUIRED"
    => At(cur).eq # None \/ cur + 1 \in used

\* "You had better NOT provide an argument" (ae/opt.h): an option with
\* AE_OPT_PARAM_NONE reads nothing of the words behind it.
NoneTakesNone ==
  [][j' > j /\ table[j'].param = "NONE" /\ Stores(table[j']) /\ table[j'].out # None
       => outs'[table[j'].out] = NewValue(table[j'], None)]_vars

\* "programmer error: '%s' null output argument" (opt.c, of the other types):
\* an option without an out pointer is an error, and the program goes on.
NeverCrashes == pc # "crashed"

=============================================================================
