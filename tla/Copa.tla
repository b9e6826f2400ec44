-------------------------------- MODULE Copa ---------------------------------
(***************************************************************************)
(* copa_parse of src/src/copa.c, one action per word, or per letter of a   *)
(* group of short options.  A word is [dash, text]: how many dashes it     *)
(* starts with and what follows them.  A text is a sequence whose elements *)
(* are the letters of a short option's word, the parts of a long option's  *)
(* name, or the characters of a value.                                     *)
(*                                                                         *)
(* An option is [short, long, has_param]; a short option without a letter  *)
(* and a long one without a name have NoText.  given and values are what   *)
(* the parser adds to it.                                                  *)
(***************************************************************************)
EXTENDS Naturals, Sequences, SequencesExt, Texts

CONSTANT COPA_MAX_OPTS  \* the size of the arrays unknown and arguments

ASSUME CopaAssumption == COPA_MAX_OPTS \in Nat

VARIABLES
    argv,       \* the words
    opts,       \* the parser's options
    i,          \* the index of the word that is looked at
    x,          \* the index of the letter in a group of short options
    given,      \* option -> whether it was given
    values,     \* option -> its values, words
    unknown, arguments,
    parser      \* where copa_parse is, or how it ended

Word == [dash : Nat, text : Seq(Symbols)]
Option == [short : Symbols \union {NoText}, long : Seq(Symbols) \union {NoText},
           has_param : BOOLEAN]

inputVars == <<argv, opts>>
resultVars == <<given, values, unknown, arguments>>
copaVars == <<inputVars, i, x, resultVars, parser>>

IsOption(word) == word.dash > 0
DashDash == [dash |-> 2, text |-> << >>]

\* A parser with the options o before it parses the words w.
Parser(w, o) ==
    /\ argv = w
    /\ opts = o
    /\ i = 1
    /\ x = 0
    /\ given = [n \in 1..Len(o) |-> FALSE]
    /\ values = [n \in 1..Len(o) |-> << >>]
    /\ unknown = << >>
    /\ arguments = << >>
    /\ parser = "words"

\* copa_parser, copa_opt for each of the options o, and the call of copa_parse.
CopaStart(w, o) ==
    /\ argv' = w
    /\ opts' = o
    /\ i' = 1
    /\ x' = 0
    /\ given' = [n \in 1..Len(o) |-> FALSE]
    /\ values' = [n \in 1..Len(o) |-> << >>]
    /\ unknown' = << >>
    /\ arguments' = << >>
    /\ parser' = "words"

-----------------------------------------------------------------------------

\* The next word is read at the top of the loop.
AtWord == parser = "words" /\ i <= Len(argv)

\* The first of the options that match, if any does.
First(matching, n) == n \in matching /\ \A m \in matching : n <= m

\* The value rule: the next word, unless there is none or it starts with '-'.
ValueFollows(n) ==
    opts[n].has_param /\ i < Len(argv) /\ ~IsOption(argv[i + 1])

\* Mutant: the next word is taken as a value in any case.
GivenGreedily(n) ==
    /\ given' = [given EXCEPT ![n] = TRUE]
    /\ IF opts[n].has_param /\ i < Len(argv)
       THEN values' = [values EXCEPT ![n] = Append(@, argv[i + 1])] /\ i' = i + 2
       ELSE values' = values /\ i' = i + 1
    /\ UNCHANGED <<inputVars, unknown, arguments>>

\* Mutant: without a value the word is read once more.
GivenAgain(n) ==
    /\ given' = [given EXCEPT ![n] = TRUE]
    /\ IF ValueFollows(n)
       THEN values' = [values EXCEPT ![n] = Append(@, argv[i + 1])] /\ i' = i + 2
       ELSE values' = values /\ i' = i
    /\ UNCHANGED <<inputVars, unknown, arguments>>

\* opt_given, with or without a value; the word after what was used is next.
opt_given(n) ==
    /\ given' = [given EXCEPT ![n] = TRUE]
    /\ IF ValueFollows(n)
       THEN values' = [values EXCEPT ![n] = Append(@, argv[i + 1])] /\ i' = i + 2
       ELSE values' = values /\ i' = i + 1
    /\ UNCHANGED <<inputVars, unknown, arguments>>

\* Mutant: a word is added twice.
AddUnknownTwice(word) ==
    Len(unknown) < COPA_MAX_OPTS /\ unknown' = unknown \o <<word, word>>

\* p->unknown[p->unknown_s++] = word, inside the array.
AddUnknown(word) == Len(unknown) < COPA_MAX_OPTS /\ unknown' = Append(unknown, word)

-----------------------------------------------------------------------------
(* A group of short options *)

ShortWord ==
    /\ AtWord
    /\ argv[i].dash = 1
    /\ argv[i].text # << >>
    /\ x' = 1
    /\ parser' = "letters"
    /\ UNCHANGED <<inputVars, i, resultVars>>

Group == argv[i].text
AtLetter == parser = "letters" /\ x <= Len(Group)
Lettered == {n \in 1..Len(opts) : opts[n].short # NoText /\ opts[n].short = Group[x]}

\* Mutant: the last letter is taken for one in the middle.
IsBehindLast == x > Len(Group)

IsLast == x = Len(Group)

\* The loop over the letters ends, for (i++).
LeaveGroup == parser' = "words" /\ x' = 0
StayInGroup == parser' = "letters" /\ x' = x + 1

\* An option with a parameter anywhere but at the end: exit(EXIT_FAILURE).
Chained ==
    /\ AtLetter
    /\ \E n \in Lettered : First(Lettered, n) /\ opts[n].has_param /\ ~IsLast
    /\ parser' = "exit"
    /\ UNCHANGED <<inputVars, i, x, resultVars>>

\* The last letter decides how far the next word is.
LastLetter ==
    /\ AtLetter
    /\ IsLast
    /\ \E n \in Lettered : First(Lettered, n) /\ opt_given(n)
    /\ LeaveGroup

Letter ==
    /\ AtLetter
    /\ ~IsLast
    /\ \E n \in Lettered :
        /\ First(Lettered, n)
        /\ ~opts[n].has_param
        /\ given' = [given EXCEPT ![n] = TRUE]
    /\ StayInGroup
    /\ UNCHANGED <<inputVars, i, values, unknown, arguments>>

\* The whole word is unknown, once for each such letter.
UnknownLetter ==
    /\ AtLetter
    /\ Lettered = {}
    /\ IF Group[x] = "-" THEN unknown' = unknown ELSE AddUnknown(argv[i])
    /\ IF IsLast THEN i' = i + 1 /\ LeaveGroup ELSE i' = i /\ StayInGroup
    /\ UNCHANGED <<inputVars, given, values, arguments>>

-----------------------------------------------------------------------------
(* Long options and other words *)

AtLongWord == AtWord /\ argv[i].dash = 2 /\ argv[i].text # << >>
Named == {n \in 1..Len(opts) : opts[n].long # NoText /\ opts[n].long = argv[i].text}

LongWord ==
    /\ AtLongWord
    /\ \E n \in Named : First(Named, n) /\ opt_given(n)
    /\ UNCHANGED <<x, parser>>

UnknownLongWord ==
    /\ AtLongWord
    /\ Named = {}
    /\ AddUnknown(argv[i])
    /\ i' = i + 1
    /\ UNCHANGED <<inputVars, x, given, values, arguments, parser>>

\* arguments[arguments_s++] for the words from k on, inside the array.
Rest(k) == SubSeq(argv, k, Len(argv))
AddArguments(k) ==
    Len(arguments) + Len(Rest(k)) <= COPA_MAX_OPTS /\ arguments' = arguments \o Rest(k)

\* "--": everything behind it is the command.
EndOfOptions ==
    /\ AtWord
    /\ argv[i] = DashDash
    /\ AddArguments(i + 1)
    /\ i' = Len(argv) + 1
    /\ parser' = "done"
    /\ UNCHANGED <<inputVars, x, given, values, unknown>>

\* No option and not "--": a plain word, a single "-", or too many dashes.
AtOtherWord ==
    AtWord /\ (argv[i].dash \in {1, 2} => argv[i].dash = 1 /\ argv[i].text = << >>)
AllArgs == \A n \in i..Len(argv) : ~IsOption(argv[n])

OtherWord ==
    /\ AtOtherWord
    /\ ~AllArgs
    /\ AddUnknown(argv[i])
    /\ i' = i + 1
    /\ UNCHANGED <<inputVars, x, given, values, arguments, parser>>

\* No word that is left starts with '-': they are the command as well.
TrailingWords ==
    /\ AtOtherWord
    /\ AllArgs
    /\ AddUnknown(argv[i])
    /\ AddArguments(i)
    /\ parser' = "done"
    /\ UNCHANGED <<inputVars, i, x, given, values>>

EndOfWords ==
    /\ parser = "words"
    /\ i > Len(argv)
    /\ parser' = "done"
    /\ UNCHANGED <<inputVars, i, x, resultVars>>

\* A write behind unknown or arguments; the source says nothing from there on.
Overrun ==
    /\ \/ AtLetter /\ Lettered = {} /\ Group[x] # "-" /\ Len(unknown) >= COPA_MAX_OPTS
       \/ AtLongWord /\ Named = {} /\ Len(unknown) >= COPA_MAX_OPTS
       \/ AtOtherWord /\ Len(unknown) >= COPA_MAX_OPTS
       \/ AtOtherWord /\ AllArgs /\ Len(Rest(i)) > COPA_MAX_OPTS
       \/ AtWord /\ argv[i] = DashDash /\ Len(Rest(i + 1)) > COPA_MAX_OPTS
    /\ parser' = "overrun"
    /\ UNCHANGED <<inputVars, i, x, resultVars>>

CopaNext ==
    \/ ShortWord \/ Chained \/ LastLetter \/ Letter \/ UnknownLetter
    \/ LongWord \/ UnknownLongWord
    \/ EndOfOptions \/ OtherWord \/ TrailingWords \/ EndOfWords
    \/ Overrun
-----------------------------------------------------------------------------
(* Properties *)

CopaTypeOK ==
    /\ argv \in Seq(Word)
    /\ opts \in Seq(Option)
    /\ i \in 1..(Len(argv) + 1)
    /\ x \in Nat
    /\ given \in [1..Len(opts) -> BOOLEAN]
    /\ values \in [1..Len(opts) -> Seq(Word)]
    /\ unknown \in Seq(Word)
    /\ arguments \in Seq(Word)
    /\ parser \in {"idle", "words", "letters", "done", "exit", "overrun"}
    /\ parser = "letters" => /\ i <= Len(argv)
                             /\ x \in 1..Len(argv[i].text)

\* "Usage: distexec [OPTIONS]... -- command..." (main.c:96): the arguments are
\* what follows the first "--", which no option before it can take for its
\* value; without "--" they are words at the end of the line none of which
\* starts with a dash (copa.c:206-240).
CommandIsWhatFollows ==
    parser = "done" =>
        \/ \E k \in 1..Len(argv) :
            /\ argv[k] = DashDash
            /\ \A j \in 1..(k - 1) : argv[j] # DashDash
            /\ arguments = SubSeq(argv, k + 1, Len(argv))
        \/ /\ \A k \in 1..Len(argv) : argv[k] # DashDash
           /\ \E k \in 1..(Len(argv) + 1) :
                /\ arguments = SubSeq(argv, k, Len(argv))
                /\ \A j \in k..Len(argv) : ~IsOption(argv[j])

\* A line that has no more words than the arrays have places, and no group of
\* short options, cannot leave them, though no index is tested (copa.c:160,
\* 203, 212, 217, 238); a single group can.
ArraysFit ==
    parser = "overrun" =>
        \/ Len(argv) > COPA_MAX_OPTS
        \/ \E k \in 1..Len(argv) : argv[k].dash = 1 /\ Len(argv[k].text) > 1
===============================================================================
