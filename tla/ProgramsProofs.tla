---------------------------- MODULE ProgramsProofs ----------------------------
(***************************************************************************)
(* Theorems about the programs, for every set of command lines, whatever   *)
(* the server answers, and for every size of the parser's arrays.          *)
(***************************************************************************)
EXTENDS Programs, UriProofs, LinkedListsProofs

-----------------------------------------------------------------------------
(* The option parser: what copa_parse makes of a line, one step at a time *)

NoGroups == \A a \in 1..Len(argv) : argv[a].dash = 1 => Len(argv[a].text) <= 1

\* While words are read: no "--" was passed, the command is empty, and without
\* groups each word passed was added to the unknown ones at most once.
Reading ==
    /\ arguments = << >>
    /\ \A j \in 1..(i - 1) : argv[j] # DashDash
    /\ NoGroups => Len(unknown) < i

InGroup ==
    /\ i <= Len(argv)
    /\ argv[i].dash = 1
    /\ x \in 1..Len(argv[i].text)

CopaInv ==
    /\ argv \in Seq(Word)
    /\ i \in 1..(Len(argv) + 1)
    /\ unknown \in Seq(Word)
    /\ parser \in {"words", "letters"} => Reading
    /\ parser = "letters" => InGroup
    /\ CommandIsWhatFollows
    /\ ArraysFit

-----------------------------------------------------------------------------

LEMMA ParserStarts ==
    ASSUME NEW w \in Seq(Word), NEW o, Parser(w, o)
    PROVE  CopaInv
<1>1. << >> \in Seq(Word) /\ Len(<< >>) = 0
  OBVIOUS
<1>2. Len(argv) \in Nat
  BY DEF Parser
<1>. QED
  BY <1>1, <1>2 DEF Parser, CopaInv, Reading, CommandIsWhatFollows, ArraysFit

LEMMA CopaStarts ==
    ASSUME NEW w \in Seq(Word), NEW o, CopaStart(w, o)
    PROVE  CopaInv'
<1>1. << >> \in Seq(Word) /\ Len(<< >>) = 0
  OBVIOUS
<1>2. Len(argv') \in Nat
  BY DEF CopaStart
<1>. QED
  BY <1>1, <1>2 DEF CopaStart, CopaInv, Reading, CommandIsWhatFollows, ArraysFit

LEMMA CopaStutters == CopaInv /\ UNCHANGED copaVars => CopaInv'
  BY DEF CopaInv, Reading, NoGroups, InGroup, CommandIsWhatFollows, ArraysFit, copaVars,
         inputVars, resultVars

-----------------------------------------------------------------------------
(* Steps after which words are still read *)

LEMMA Split ==
    \A a, b \in Nat : \A j \in 1..(b - 1) : j \in 1..(a - 1) \/ j \in a..(b - 1)
  OBVIOUS

\* Such a step passes words that are not "--", and adds at most the first.
LEMMA StillReading ==
    ASSUME CopaInv, Reading, parser' \in {"words", "letters"},
           argv' = argv, arguments' = arguments,
           i' \in i..(Len(argv) + 1),
           \A j \in i..(i' - 1) : argv[j] # DashDash,
           \/ unknown' = unknown
           \/ i' > i /\ unknown' = Append(unknown, argv[i])
           \/ ~NoGroups /\ unknown' = Append(unknown, argv[i]) /\ i <= Len(argv),
           parser' = "letters" => InGroup'
    PROVE  CopaInv'
<1>1. argv \in Seq(Word) /\ Len(argv) \in Nat /\ i \in Nat /\ i >= 1 /\ i' \in Nat
  BY DEF CopaInv
<1>2. i' \in 1..(Len(argv') + 1)
  BY <1>1
<1>3. /\ unknown' \in Seq(Word)
      /\ NoGroups => Len(unknown') < i'
  <2>1. CASE unknown' = unknown
    BY <1>1, <2>1 DEF CopaInv, Reading
  <2>2. CASE i <= Len(argv) /\ unknown' = Append(unknown, argv[i]) /\ (i' > i \/ ~NoGroups)
    <3>1. argv[i] \in Word
      BY <1>1, <2>2
    <3>2. unknown' \in Seq(Word) /\ Len(unknown') = Len(unknown) + 1 /\ Len(unknown) \in Nat
      BY <2>2, <3>1, AppendProperties DEF CopaInv
    <3>. QED
      BY <1>1, <2>2, <3>2 DEF Reading
  <2>. QED
    BY <1>1, <2>1, <2>2
<1>4. \A j \in 1..(i' - 1) : argv'[j] # DashDash
  <2>1. TAKE j \in 1..(i' - 1)
  <2>2. CASE j \in 1..(i - 1)
    BY <2>2 DEF Reading
  <2>3. CASE j \in i..(i' - 1)
    BY <2>3
  <2>4. j \in 1..(i - 1) \/ j \in i..(i' - 1)
    BY <1>1, Split
  <2>. QED
    BY <2>2, <2>3, <2>4
<1>5. NoGroups' <=> NoGroups
  BY DEF NoGroups
<1>6. Reading'
  BY <1>3, <1>4, <1>5 DEF Reading
<1>7. CommandIsWhatFollows' /\ ArraysFit'
  BY DEF CommandIsWhatFollows, ArraysFit
<1>. QED
  BY <1>1, <1>2, <1>3, <1>6, <1>7 DEF CopaInv

\* opt_given goes on behind the option, or behind its value, which is not "--".
LEMMA GivenGoesOn ==
    ASSUME CopaInv, i <= Len(argv), argv[i] # DashDash, NEW o, opt_given(o)
    PROVE  /\ argv' = argv /\ arguments' = arguments /\ unknown' = unknown
           /\ i' \in i..(Len(argv) + 1)
           /\ \A j \in i..(i' - 1) : argv[j] # DashDash
<1>1. Len(argv) \in Nat /\ i \in Nat
  BY DEF CopaInv
<1>2. CASE ValueFollows(o)
  <2>1. i < Len(argv) /\ ~(argv[i + 1].dash > 0)
    BY <1>2 DEF ValueFollows, IsOption
  <2>2. argv[i + 1] # DashDash
    BY <2>1 DEF DashDash
  <2>. QED
    BY <1>1, <1>2, <2>1, <2>2 DEF opt_given, inputVars
<1>3. CASE ~ValueFollows(o)
  BY <1>1, <1>3 DEF opt_given, inputVars
<1>. QED
  BY <1>2, <1>3

LEMMA WordSteps ==
    ASSUME CopaInv, ShortWord \/ LongWord \/ UnknownLongWord \/ OtherWord
    PROVE  CopaInv'
<1>1. /\ parser = "words" /\ Reading /\ i <= Len(argv)
      /\ Len(argv) \in Nat /\ i \in Nat
  BY DEF ShortWord, LongWord, UnknownLongWord, OtherWord, AtLongWord, AtOtherWord, AtWord,
         CopaInv
<1>2. argv[i] # DashDash
  BY DEF ShortWord, LongWord, UnknownLongWord, OtherWord, AtLongWord, AtOtherWord, DashDash
<1>3. CASE ShortWord
  <2>1. argv[i] \in Word
    BY <1>1 DEF CopaInv
  <2>2. argv[i].text \in Seq(Symbols) /\ argv[i].text # << >>
    BY <1>3, <2>1 DEF Word, ShortWord
  <2>3. Len(argv[i].text) \in Nat /\ Len(argv[i].text) # 0
    BY <2>2, EmptySeq
  <2>4. 1 \in 1..Len(argv[i].text)
    BY <2>3
  <2>5. InGroup'
    BY <1>1, <1>3, <2>4 DEF ShortWord, InGroup, inputVars
  <2>. QED
    BY <1>1, <1>3, <2>5, StillReading DEF ShortWord, inputVars, resultVars
<1>4. CASE LongWord
  <2>1. PICK o \in Named : opt_given(o)
    BY <1>4 DEF LongWord
  <2>. QED
    BY <1>1, <1>2, <1>4, <2>1, GivenGoesOn, StillReading DEF LongWord
<1>5. CASE UnknownLongWord \/ OtherWord
  BY <1>1, <1>2, <1>5, StillReading DEF UnknownLongWord, OtherWord, AddUnknown, inputVars
<1>. QED
  BY <1>3, <1>4, <1>5

LEMMA LetterSteps ==
    ASSUME CopaInv, LastLetter \/ Letter \/ UnknownLetter
    PROVE  CopaInv'
<1>1. /\ parser = "letters" /\ Reading /\ InGroup
      /\ Len(argv) \in Nat /\ i \in Nat /\ x \in Nat
      /\ i <= Len(argv) /\ argv[i] # DashDash
  BY DEF LastLetter, Letter, UnknownLetter, AtLetter, CopaInv, InGroup, DashDash
<1>2. CASE LastLetter
  <2>1. PICK o \in Lettered : opt_given(o)
    BY <1>2 DEF LastLetter
  <2>. QED
    BY <1>1, <1>2, <2>1, GivenGoesOn, StillReading DEF LastLetter, LeaveGroup
<1>3. Len(argv[i].text) \in Nat
  <2>1. argv[i] \in Word
    BY <1>1 DEF CopaInv
  <2>. QED
    BY <2>1 DEF Word
<1>4. CASE Letter
  <2>1. InGroup'
    BY <1>1, <1>3, <1>4 DEF Letter, AtLetter, IsLast, Group, StayInGroup, InGroup, inputVars
  <2>. QED
    BY <1>1, <1>4, <2>1, StillReading DEF Letter, StayInGroup, inputVars
<1>5. CASE UnknownLetter /\ IsLast
  BY <1>1, <1>5, StillReading DEF UnknownLetter, AddUnknown, LeaveGroup, inputVars
<1>6. CASE UnknownLetter /\ ~IsLast
  <2>1. argv[i].dash = 1 /\ Len(argv[i].text) > 1 /\ i \in 1..Len(argv)
    BY <1>1, <1>3, <1>6 DEF CopaInv, InGroup, IsLast, Group
  <2>2. ~NoGroups
    BY <1>3, <2>1 DEF NoGroups
  <2>3. InGroup'
    BY <1>1, <1>3, <1>6 DEF UnknownLetter, AtLetter, IsLast, Group, StayInGroup, InGroup, inputVars
  <2>. QED
    BY <1>1, <1>6, <2>2, <2>3, StillReading DEF UnknownLetter, AddUnknown, StayInGroup, inputVars
<1>. QED
  BY <1>2, <1>4, <1>5, <1>6

-----------------------------------------------------------------------------
(* Steps that end the parser *)

\* Words from word a on, added to an empty command.
LEMMA AddedAre ==
    ASSUME CopaInv, Reading, NEW a \in 1..(Len(argv) + 1), AddArguments(a)
    PROVE  arguments' = SubSeq(argv, a, Len(argv))
<1>1. Len(argv) \in Nat /\ \A j \in a..Len(argv) : argv[j] \in Word
  BY DEF CopaInv
<1>2. Rest(a) \in Seq(Word)
  BY <1>1, SubSeqProperties DEF Rest
<1>. QED
  BY <1>2, ConcatEmptySeq DEF AddArguments, Reading, Rest

LEMMA EndSteps ==
    ASSUME CopaInv, EndOfOptions \/ TrailingWords \/ EndOfWords
    PROVE  CopaInv'
<1>1. /\ parser = "words" /\ Reading /\ parser' = "done" /\ argv' = argv
      /\ Len(argv) \in Nat /\ i \in Nat /\ argv \in Seq(Word)
  BY DEF EndOfOptions, TrailingWords, EndOfWords, AtOtherWord, AtWord, CopaInv, inputVars
<1>2. unknown' \in Seq(Word) /\ i' \in 1..(Len(argv') + 1)
  <2>1. CASE EndOfOptions \/ EndOfWords
    BY <1>1, <2>1 DEF EndOfOptions, EndOfWords, CopaInv, resultVars
  <2>2. CASE TrailingWords
    <3>1. argv[i] \in Word
      BY <1>1, <2>2 DEF TrailingWords, AtOtherWord, AtWord, CopaInv
    <3>. QED
      BY <1>1, <2>2, <3>1, AppendProperties DEF TrailingWords, AddUnknown, CopaInv
  <2>. QED
    BY <2>1, <2>2
<1>3. CommandIsWhatFollows'
  <2>1. CASE EndOfOptions
    <3>1. i <= Len(argv) /\ argv[i] = DashDash
      BY <2>1 DEF EndOfOptions, AtWord
    <3>2. arguments' = SubSeq(argv, i + 1, Len(argv))
      BY <1>1, <2>1, <3>1, AddedAre DEF EndOfOptions, CopaInv
    <3>3. i \in 1..Len(argv)
      BY <1>1, <3>1 DEF CopaInv
    <3>. QED
      BY <1>1, <3>1, <3>2, <3>3 DEF CommandIsWhatFollows, Reading
  <2>2. CASE TrailingWords
    <3>1. AllArgs /\ i \in 1..(Len(argv) + 1)
      BY <2>2 DEF TrailingWords, CopaInv
    <3>2. arguments' = SubSeq(argv, i, Len(argv))
      BY <1>1, <2>2, <3>1, AddedAre DEF TrailingWords
    <3>3. \A j \in 1..Len(argv) : argv[j] # DashDash
      <4>1. \A j \in i..Len(argv) : argv[j] # DashDash
        BY <3>1 DEF AllArgs, IsOption, DashDash
      <4>. QED
        BY <1>1, <4>1 DEF Reading
    <3>4. \A j \in i..Len(argv) : ~IsOption(argv[j])
      BY <3>1 DEF AllArgs
    <3>. QED
      BY <1>1, <3>1, <3>2, <3>3, <3>4 DEF CommandIsWhatFollows, IsOption
  <2>3. CASE EndOfWords
    <3>1. i = Len(argv) + 1 /\ arguments' = << >>
      BY <1>1, <2>3 DEF EndOfWords, CopaInv, Reading, resultVars
    <3>2. SubSeq(argv, i, Len(argv)) = << >>
      BY <1>1, <3>1, SubSeqEmpty
    <3>3. \A j \in 1..Len(argv) : argv[j] # DashDash
      BY <1>1, <3>1 DEF Reading
    <3>4. \A j \in i..Len(argv) : ~IsOption(argv[j])
      BY <1>1, <3>1
    <3>5. i \in 1..(Len(argv) + 1)
      BY <1>1, <3>1
    <3>. QED
      BY <1>1, <3>1, <3>2, <3>3, <3>4, <3>5 DEF CommandIsWhatFollows, IsOption
  <2>. QED
    BY <2>1, <2>2, <2>3
<1>4. ArraysFit'
  BY <1>1 DEF ArraysFit
<1>. QED
  BY <1>1, <1>2, <1>3, <1>4 DEF CopaInv

\* Without groups, a line that fits leaves no place to overrun.
LEMMA OverrunNeeds ==
    ASSUME CopaInv, Overrun
    PROVE  ~NoGroups \/ Len(argv) > COPA_MAX_OPTS
<1>. SUFFICES ASSUME NoGroups, Len(argv) <= COPA_MAX_OPTS PROVE FALSE
  BY CopaAssumption DEF CopaInv
<1>1. /\ Reading /\ Len(unknown) < i
      /\ Len(argv) \in Nat /\ COPA_MAX_OPTS \in Nat /\ Len(unknown) \in Nat
      /\ i \in Nat /\ i >= 1
  BY CopaAssumption DEF Overrun, AtLetter, AtLongWord, AtOtherWord, AtWord, CopaInv, Reading
<1>2. i <= Len(argv)
  BY DEF Overrun, AtLetter, AtLongWord, AtOtherWord, AtWord, CopaInv, InGroup
<1>3. \A a \in 1..(Len(argv) + 1) : Len(Rest(a)) <= Len(argv)
  <2>1. TAKE a \in 1..(Len(argv) + 1)
  <2>2. \A j \in a..Len(argv) : argv[j] \in Word
    BY DEF CopaInv
  <2>. QED
    BY <1>1, <2>2, SubSeqProperties DEF Rest
<1>4. Len(Rest(i)) <= Len(argv) /\ Len(Rest(i + 1)) <= Len(argv)
  BY <1>1, <1>2, <1>3
<1>. QED
  BY <1>1, <1>2, <1>4 DEF Overrun

LEMMA FailingSteps ==
    ASSUME CopaInv, Chained \/ Overrun
    PROVE  CopaInv'
<1>1. UNCHANGED <<argv, i, unknown>> /\ parser' \in {"exit", "overrun"}
  BY DEF Chained, Overrun, inputVars, resultVars
<1>2. ArraysFit'
  <2>1. CASE Chained
    BY <2>1 DEF Chained, ArraysFit
  <2>2. CASE Overrun
    <3>1. ~NoGroups \/ Len(argv) > COPA_MAX_OPTS
      BY <2>2, OverrunNeeds
    <3>2. ~NoGroups => \E a \in 1..Len(argv) : argv[a].dash = 1 /\ Len(argv[a].text) > 1
      <4>1. \A a \in 1..Len(argv) : Len(argv[a].text) \in Nat
        BY DEF CopaInv, Word
      <4>. QED
        BY <4>1 DEF NoGroups
    <3>. QED
      BY <1>1, <3>1, <3>2 DEF ArraysFit
  <2>. QED
    BY <2>1, <2>2
<1>. QED
  BY <1>1, <1>2 DEF CopaInv, CommandIsWhatFollows

LEMMA CopaKeeps ==
    ASSUME CopaInv, CopaNext
    PROVE  CopaInv'
  BY WordSteps, LetterSteps, EndSteps, FailingSteps DEF CopaNext

-----------------------------------------------------------------------------
(* The option parser in distexec *)

\* A plugin's parser gets its words from the parser of the command line.
ParserInv == CopaInv /\ left \in Seq(Word)

LEMMA ParserInit == Init => ParserInv
<1>. SUFFICES ASSUME Init PROVE ParserInv
  OBVIOUS
<1>1. << >> \in Seq(Word)
  OBVIOUS
<1>2. \E w \in Seq(Word) : \E unset : MainInit(w, unset)
  <2>1. CASE Distexec
    BY <2>1, ProgramsAssumption DEF Distexec
  <2>2. CASE TestUri \/ TestPopen3
    BY <1>1, <2>2 DEF TestUri, TestPopen3, Idle
  <2>. QED
    BY <2>1, <2>2 DEF Init
<1>3. PICK w \in Seq(Word) : \E unset : MainInit(w, unset)
  BY <1>2
<1>4. PICK unset : MainInit(w, unset)
  BY <1>3
<1>5. CopaInv
  BY <1>4, ParserStarts DEF MainInit
<1>6. left \in Seq(Word)
  BY <1>1, <1>4 DEF MainInit
<1>. QED
  BY <1>5, <1>6 DEF ParserInv

\* What a step of main does with the parser.
LEMMA MainAndParser ==
    ASSUME ParserInv, MainStep
    PROVE  /\ \/ CopaNext
              \/ UNCHANGED copaVars
              \/ \E w \in Seq(Word) : \E o : CopaStart(w, o)
           /\ left' \in Seq(Word)
<1>1. << >> \in Seq(Word)
  OBVIOUS
<1>2. left \in Seq(Word) /\ unknown \in Seq(Word)
  BY DEF ParserInv, CopaInv
<1>3. CASE ParseStep
  BY <1>2, <1>3 DEF ParseStep, mainVars
<1>4. CASE ParserEnds \/ RequireFails \/ LogOptionFails \/ HelpOrVersion \/ CallbackFails
  BY <1>2, <1>4 DEF ParserEnds, RequireFails, LogOptionFails, HelpOrVersion, CallbackFails,
                    EndsWith
<1>5. CASE BeginPlugins
  BY <1>1, <1>2, <1>5 DEF BeginPlugins
<1>6. CASE ParseForKey
  BY <1>2, <1>6 DEF ParseForKey
<1>7. CASE SetKey
  BY <1>1, <1>2, <1>7 DEF SetKey
<1>8. CASE LoadPlugin \/ NextPlugin \/ BeginCollect \/ CallForeman \/ CallDummy
  BY <1>2, <1>8 DEF LoadPlugin, NextPlugin, BeginCollect, CallForeman, CallDummy
<1>9. CASE SetKeyToNull \/ ConcurrentFails \/ CollectEnds \/ NoCommand \/ JoinCommand
  BY <1>2, <1>9 DEF SetKeyToNull, ConcurrentFails, CollectEnds, NoCommand, JoinCommand,
                    EndsWith
<1>10. CASE ForemanStep
  BY <1>2, <1>10 DEF ForemanStep, mainVars
<1>. QED
  BY <1>3, <1>4, <1>5, <1>6, <1>7, <1>8, <1>9, <1>10 DEF MainStep

LEMMA ParserStep == ParserInv /\ [Next]_vars => ParserInv'
<1>. SUFFICES ASSUME ParserInv, [Next]_vars PROVE ParserInv'
  OBVIOUS
<1>1. CASE DistexecStep
  <2>1. MainStep
    BY <1>1 DEF DistexecStep
  <2>2. CopaInv'
    BY <2>1, MainAndParser, CopaKeeps, CopaStutters, CopaStarts DEF ParserInv
  <2>. QED
    BY <2>1, <2>2, MainAndParser DEF ParserInv
<1>2. CASE AnswerStep \/ UriStep \/ PopenStep \/ UNCHANGED vars
  <2>1. UNCHANGED <<copaVars, left>>
    BY <1>2 DEF AnswerStep, ServerStep, UriStep, PopenStep, vars, commandVars, mainVars
  <2>. QED
    BY <2>1, CopaStutters DEF ParserInv
<1>. QED
  BY <1>1, <1>2 DEF Next, Terminated

\* In every parse, of the command line as of a plugin's words, the command is
\* what follows the first "--", or trailing words without a dash (copa.c:206-240).
THEOREM CommandFollows == FairSpec => []CommandIsWhatFollows
<1>1. ParserInv => CommandIsWhatFollows
  BY DEF ParserInv, CopaInv
<1>. QED
  BY <1>1, ParserInit, ParserStep, PTL DEF FairSpec

\* A line of at most as many words as the arrays have places, without a group
\* of short options, is never written behind them (copa.c:160, 203, 212, 217, 238).
THEOREM WordsFit == FairSpec => []ArraysFit
<1>1. ParserInv => ArraysFit
  BY DEF ParserInv, CopaInv
<1>. QED
  BY <1>1, ParserInit, ParserStep, PTL DEF FairSpec

-----------------------------------------------------------------------------
(* The configuration: from the words of the line to the values of the keys *)

\* An option that is none of this parser's.
Foreign(word) ==
    /\ word.dash = 2
    /\ word.text # << >>
    /\ \A o \in 1..Len(opts) : opts[o].long # word.text

\* Between two words that are not known stand options and their values; the
\* word directly behind the first of them is no value of its.
Gap(w, a, b) ==
    \A c \in (a + 1)..(b - 1) : IsOption(w[c]) \/ (c > a + 1 /\ IsOption(w[c - 1]))

Undashed(w, a) == \A c \in 1..a : w[c] # DashDash

\* first and second stand in w before the first "--", with a gap in between.
InTurn(w, first, second) ==
    \E a, b \in 1..Len(w) :
        a < b /\ w[a] = first /\ w[b] = second /\ Gap(w, a, b) /\ Undashed(w, b)

\* first is directly followed by second.
Adjacent(w, first, second) ==
    \E a \in 1..(Len(w) - 1) : w[a] = first /\ w[a + 1] = second

\* What the words the parser does not know tell of the words it has read.
UnknownInv ==
    /\ \A a \in 1..Len(unknown) : unknown[a] # DashDash
    /\ \A a \in 1..(Len(unknown) - 1) :
            unknown[a].dash = 2 => InTurn(argv, unknown[a], unknown[a + 1])
    /\ parser \in {"words", "letters"} /\ unknown # << >> /\ unknown[Len(unknown)].dash = 2 =>
            \E a \in 1..(i - 1) : argv[a] = unknown[Len(unknown)] /\ Gap(argv, a, i)

\* A word that stands directly behind a foreign option.
Offered(a) ==
    /\ a \in 1..(Len(argv) - 1)
    /\ Foreign(argv[a])
    /\ ~IsOption(argv[a + 1])
    /\ Undashed(argv, a)

\* It stands there in what the parser leaves over too.
FollowInv ==
    /\ parser \in {"words", "letters"} =>
        \A a \in 1..(i - 1) : Offered(a) =>
            IF a + 1 < i THEN Adjacent(unknown, argv[a], argv[a + 1])
            ELSE unknown # << >> /\ unknown[Len(unknown)] = argv[a]
    /\ parser = "done" =>
        \A a \in 1..Len(argv) : Offered(a) => Adjacent(unknown, argv[a], argv[a + 1])

\* The parser of a key.
KeyParser ==
    /\ Len(opts) = 1
    /\ opts[1].short = NoText
    /\ opts[1].has_param
    /\ opts[1].long # << >>

IsKey(word) == word.dash = 2 /\ word.text = opts[1].long

\* The key stands at a, with a word behind it.
KeyAt(a) == IsKey(argv[a]) /\ ~IsOption(argv[a + 1])

\* What the options of a parser have been given.
ResultsInv ==
    /\ Len(opts) \in Nat
    /\ given \in [1..Len(opts) -> BOOLEAN]
    /\ values \in [1..Len(opts) -> Seq(Word)]

\* The key's values are words behind the key, and it has one if there is such
\* a word.
ValuesInv ==
    /\ \A v \in 1..Len(values[1]) :
            \E a \in 1..(Len(argv) - 1) : KeyAt(a) /\ values[1][v] = argv[a + 1]
    /\ values[1] # << >> => given[1]
    /\ parser \in {"words", "letters"} =>
            \A a \in 1..(Len(argv) - 1) : a < i /\ KeyAt(a) => values[1] # << >>
    /\ parser = "done" /\ Undashed(argv, Len(argv)) =>
            \A a \in 1..(Len(argv) - 1) : KeyAt(a) => values[1] # << >>

-----------------------------------------------------------------------------

InMain == main \in {"load", "keys", "key", "collect", "execute"}

\* The words left over stand on the line in the same order, and next to each
\* other where a value stands behind a plugin's option.
LeftInv ==
    /\ \A a \in 1..Len(left) : left[a] # DashDash
    /\ \A a \in 1..(Len(left) - 1) :
            left[a].dash = 2 => InTurn(line, left[a], left[a + 1])
    /\ \A a \in 1..(Len(line) - 1) :
            /\ line[a].dash = 2
            /\ Len(line[a].text) = 2
            /\ ~IsOption(line[a + 1])
            /\ Undashed(line, a)
            => Adjacent(left, line[a], line[a + 1])

\* The keys of the plugin that have been looked for since it was loaded last.
Looked(plugin) ==
    IF main \in {"keys", "key"} /\ names[n] = <<plugin>>
    THEN {Keys(<<plugin>>)[j] : j \in {m \in 1..Len(Keys(<<plugin>>)) : m < k}}
    ELSE IF \E j \in 1..(n - 1) : names[j] = <<plugin>> THEN ToSet(Keys(<<plugin>>)) ELSE {}

\* ConfiguredFrom for the keys that have been looked for.
SetFrom(words, looked, config, default, plugin) ==
    \A key \in DOMAIN config :
        /\ config[key] # default[key] => Behind(BeforeDashes(words), <<plugin, key>>, config[key])
        /\ <<plugin, key>> \in looked
            /\ DirectlyBehind(BeforeDashes(words), <<plugin, key>>) =>
                \E a \in DOMAIN BeforeDashes(words) : BeforeDashes(words)[a].text = config[key]

ForemanKeys == SetFrom(line, Looked("foreman"), cfg, Unconfigured, "foreman")
SshKeys == SetFrom(line, Looked("ssh"), ssh_cfg, SshUnconfigured, "ssh")

\* Before plugin_opt_cb.
ParseInv ==
    main = "parse" =>
        /\ argv = line
        /\ Len(opts) = 14 /\ \A o \in 1..14 : Len(opts[o].long) = 1
        /\ n = 1
        /\ cfg = Unconfigured /\ ssh_cfg = SshUnconfigured

\* While a key's parser runs.
KeyInv ==
    main = "key" =>
        /\ argv = left
        /\ k \in 1..Len(Keys(names[n]))
        /\ KeyParser /\ opts[1].long = Keys(names[n])[k]
        /\ ValuesInv

LoopInv ==
    /\ line \in Seq(Word) /\ names \in Seq(Seq(Symbols))
    /\ n \in Nat \ {0} /\ k \in Nat \ {0}
    /\ main \in {"keys", "key"} => n \in 1..Len(names)
    /\ main \in {"collect", "execute"} => n > Len(names)

MainInv ==
    /\ ParseInv
    /\ KeyInv
    /\ LoopInv
    /\ InMain => LeftInv /\ ForemanKeys /\ SshKeys

ConfigInv == ParserInv /\ UnknownInv /\ FollowInv /\ ResultsInv /\ MainInv
-----------------------------------------------------------------------------
(* The words that are left over, one step at a time *)

LEMMA WordFacts ==
    ASSUME CopaInv
    PROVE  /\ Len(argv) \in Nat /\ i \in Nat /\ i >= 1 /\ Len(unknown) \in Nat
           /\ \A a \in 1..Len(argv) : argv[a] \in Word /\ argv[a].dash \in Nat
           /\ \A a \in 1..Len(unknown) : unknown[a] \in Word
           /\ unknown \in Seq(Word)
           /\ unknown # << >> => Len(unknown) \in 1..Len(unknown)
<1>1. argv \in Seq(Word) /\ unknown \in Seq(Word) /\ i \in 1..(Len(argv) + 1)
  BY DEF CopaInv
<1>2. \A a \in 1..Len(argv) : argv[a] \in Word /\ argv[a].dash \in Nat
  <2>1. \A a \in 1..Len(argv) : argv[a] \in Word
    BY <1>1
  <2>. QED
    BY <2>1 DEF Word
<1>3. unknown # << >> => Len(unknown) # 0
  BY <1>1, EmptySeq
<1>. QED
  BY <1>1, <1>2, <1>3

\* A known option is read, with its value or without.
LEMMA KnownWord ==
    ASSUME CopaInv, UnknownInv, FollowInv,
           parser \in {"words", "letters"}, parser' \in {"words", "letters"},
           UNCHANGED <<argv, opts, unknown>>,
           \/ i' = i
           \/ /\ i <= Len(argv) /\ IsOption(argv[i]) /\ ~Foreign(argv[i])
              /\ i' = i + 1 \/ (i' = i + 2 /\ i < Len(argv) /\ ~IsOption(argv[i + 1]))
    PROVE  UnknownInv' /\ FollowInv'
<1>. USE WordFacts
<1>1. UnknownInv'
  <2>1. CASE unknown # << >> /\ unknown[Len(unknown)].dash = 2
    <3>1. PICK a \in 1..(i - 1) : argv[a] = unknown[Len(unknown)] /\ Gap(argv, a, i)
      BY <2>1 DEF UnknownInv
    <3>2. Gap(argv, a, i')
      <4>1. ASSUME NEW c \in (a + 1)..(i' - 1)
            PROVE  IsOption(argv[c]) \/ (c > a + 1 /\ IsOption(argv[c - 1]))
        <5>1. CASE c \in (a + 1)..(i - 1)
          BY <3>1, <5>1 DEF Gap
        <5>2. CASE c = i /\ i' # i
          BY <5>2
        <5>3. CASE c = i + 1 /\ i' # i
          <6>1. IsOption(argv[i]) /\ i > a /\ c - 1 = i
            BY <5>3
          <6>. QED
            BY <5>3, <6>1
        <5>. QED
          BY <5>1, <5>2, <5>3
      <4>. QED
        BY <4>1 DEF Gap
    <3>3. \E c \in 1..(i' - 1) : argv[c] = unknown[Len(unknown)] /\ Gap(argv, c, i')
      BY <3>1, <3>2
    <3>. QED
      BY <3>3 DEF UnknownInv
  <2>2. CASE ~(unknown # << >> /\ unknown[Len(unknown)].dash = 2)
    BY <2>2 DEF UnknownInv
  <2>. QED
    BY <2>1, <2>2
<1>2. ASSUME NEW a \in 1..(i' - 1), Offered(a), i' # i
      PROVE  a + 1 < i
  <2>1. /\ a \in 1..(Len(argv) - 1)
        /\ Foreign(argv[a]) /\ ~IsOption(argv[a + 1])
    BY <1>2 DEF Offered
  <2>2. IsOption(argv[i]) /\ ~Foreign(argv[i])
    BY <1>2
  <2>3. a # i
    BY <2>1, <2>2, Zenon
  <2>4. a + 1 # i
    BY <2>1, <2>2, Zenon
  <2>5. a # i + 1
    <3>1. IsOption(argv[a])
      BY <2>1 DEF Foreign, IsOption
    <3>2. a = i + 1 => ~IsOption(argv[i + 1])
      BY <1>2
    <3>. QED
      BY <3>1, <3>2, Zenon
  <2>. QED
    BY <1>2, <2>3, <2>4, <2>5
<1>3. ASSUME NEW a \in 1..(i' - 1), Offered(a)
      PROVE  IF a + 1 < i' THEN Adjacent(unknown, argv[a], argv[a + 1])
             ELSE unknown # << >> /\ unknown[Len(unknown)] = argv[a]
  <2>1. CASE i' = i
    BY <1>3, <2>1 DEF FollowInv
  <2>2. CASE i' # i
    <3>1. a + 1 < i /\ a + 1 < i' /\ a \in 1..(i - 1)
      BY <1>2, <1>3, <2>2
    <3>. QED
      BY <1>3, <3>1 DEF FollowInv
  <2>. QED
    BY <2>1, <2>2
<1>4. \A a : Offered(a)' <=> Offered(a)
  BY DEF Offered, Foreign
<1>5. parser' # "done"
  OBVIOUS
<1>. QED
  BY <1>1, <1>3, <1>4, <1>5 DEF FollowInv

LEMMA AppendFacts ==
    ASSUME NEW s \in Seq(Word), NEW w \in Word
    PROVE  /\ Len(Append(s, w)) = Len(s) + 1
           /\ \A a \in 1..Len(s) : Append(s, w)[a] = s[a]
           /\ Append(s, w)[Len(s) + 1] = w
           /\ Append(s, w) # << >>
<1>1. Len(Append(s, w)) = Len(s) + 1 /\ Len(s) \in Nat
  OBVIOUS
<1>2. Append(s, w) # << >>
  BY <1>1
<1>. QED
  BY <1>1, <1>2, AppendProperties

\* A word is added to the unknown ones: what it tells of the words read.
LEMMA AddedUnknown ==
    ASSUME CopaInv, UnknownInv, parser \in {"words", "letters"},
           UNCHANGED <<argv, opts>>, i <= Len(argv), argv[i] # DashDash,
           unknown' = Append(unknown, argv[i]),
           \/ parser' = "done"
           \/ i' = i /\ argv[i].dash # 2
           \/ i' = i + 1
    PROVE  UnknownInv'
<1>. USE WordFacts
<1>. DEFINE len == Len(unknown)
<1>0. i \in 1..Len(argv) /\ argv[i] \in Word
  OBVIOUS
<1>1. /\ Len(unknown') = len + 1 /\ unknown' # << >>
      /\ \A a \in 1..len : unknown'[a] = unknown[a]
      /\ unknown'[len + 1] = argv[i]
  BY <1>0, AppendFacts
<1>2. \A a \in 1..Len(unknown') : unknown'[a] # DashDash
  <2>1. TAKE a \in 1..Len(unknown')
  <2>2. a \in 1..len \/ a = len + 1
    BY <1>1
  <2>. QED
    BY <1>1, <2>2 DEF UnknownInv
<1>3. ASSUME NEW a \in 1..(Len(unknown') - 1), unknown'[a].dash = 2
      PROVE  InTurn(argv, unknown'[a], unknown'[a + 1])
  <2>1. CASE a \in 1..(len - 1)
    <3>1. unknown'[a] = unknown[a] /\ unknown'[a + 1] = unknown[a + 1]
      BY <1>1, <2>1
    <3>. QED
      BY <1>3, <2>1, <3>1 DEF UnknownInv
  <2>2. CASE a = len
    <3>1. /\ unknown'[a] = unknown[len] /\ unknown'[a + 1] = argv[i]
          /\ unknown # << >>
      <4>1. len \in 1..len
        BY <1>3, <2>2
      <4>. QED
        BY <1>1, <2>2, <4>1
    <3>2. PICK c \in 1..(i - 1) : argv[c] = unknown[len] /\ Gap(argv, c, i)
      BY <1>3, <3>1 DEF UnknownInv
    <3>3. Undashed(argv, i)
      BY DEF Undashed, CopaInv, Reading
    <3>4. c < i /\ c \in 1..Len(argv)
      BY <1>0
    <3>. QED
      BY <1>0, <3>1, <3>2, <3>3, <3>4 DEF InTurn
  <2>3. a \in 1..(len - 1) \/ a = len
    BY <1>1
  <2>. QED
    BY <2>1, <2>2, <2>3
<1>4. ASSUME parser' \in {"words", "letters"}, unknown'[Len(unknown')].dash = 2
      PROVE  \E a \in 1..(i' - 1) : argv[a] = unknown'[Len(unknown')] /\ Gap(argv, a, i')
  <2>1. unknown'[Len(unknown')] = argv[i] /\ i' = i + 1
    BY <1>1, <1>4
  <2>2. Gap(argv, i, i + 1) /\ i \in 1..(i' - 1)
    BY <2>1 DEF Gap
  <2>. QED
    BY <2>1, <2>2
<1>. QED
  BY <1>2, <1>3, <1>4 DEF UnknownInv

LEMMA AdjacentStays ==
    ASSUME NEW s \in Seq(Word), NEW w \in Word, NEW first, NEW second
    PROVE  /\ Adjacent(s, first, second) => Adjacent(Append(s, w), first, second)
           /\ s # << >> /\ s[Len(s)] = first => Adjacent(Append(s, w), first, w)
<1>1. /\ Len(Append(s, w)) = Len(s) + 1 /\ Len(s) \in Nat
      /\ \A a \in 1..Len(s) : Append(s, w)[a] = s[a]
      /\ Append(s, w)[Len(s) + 1] = w
  BY AppendFacts
<1>2. ASSUME Adjacent(s, first, second)
      PROVE  Adjacent(Append(s, w), first, second)
  <2>1. PICK a \in 1..(Len(s) - 1) : s[a] = first /\ s[a + 1] = second
    BY <1>2 DEF Adjacent
  <2>2. /\ a \in 1..(Len(Append(s, w)) - 1)
        /\ Append(s, w)[a] = first /\ Append(s, w)[a + 1] = second
    BY <1>1, <2>1
  <2>. QED
    BY <2>2 DEF Adjacent
<1>3. ASSUME s # << >>, s[Len(s)] = first
      PROVE  Adjacent(Append(s, w), first, w)
  <2>1. Len(s) # 0
    BY <1>3, EmptySeq
  <2>2. Len(s) \in 1..(Len(Append(s, w)) - 1)
    BY <1>1, <2>1
  <2>3. Append(s, w)[Len(s)] = first /\ Append(s, w)[Len(s) + 1] = w
    BY <1>1, <1>3, <2>2
  <2>. QED
    BY <2>2, <2>3 DEF Adjacent
<1>. QED
  BY <1>2, <1>3

\* It does not come between an option and the word behind it.
LEMMA AddedFollows ==
    ASSUME CopaInv, FollowInv, parser \in {"words", "letters"},
           UNCHANGED <<argv, opts>>, i <= Len(argv),
           unknown' = Append(unknown, argv[i]),
           \/ parser' = "done" /\ AllArgs
           \/ parser' \in {"words", "letters"} /\ i' = i /\ IsOption(argv[i])
           \/ parser' \in {"words", "letters"} /\ i' = i + 1
    PROVE  FollowInv'
<1>. USE WordFacts
<1>0. i \in 1..Len(argv) /\ argv[i] \in Word /\ unknown \in Seq(Word)
  OBVIOUS
<1>1. \A a : Offered(a)' <=> Offered(a)
  BY DEF Offered, Foreign
<1>2. ASSUME NEW a \in 1..(i - 1), Offered(a), a + 1 < i \/ i' # i \/ parser' = "done"
      PROVE  Adjacent(unknown', argv[a], argv[a + 1])
  <2>1. CASE a + 1 < i
    <3>1. Adjacent(unknown, argv[a], argv[a + 1])
      BY <1>2, <2>1 DEF FollowInv
    <3>. QED
      BY <1>0, <3>1, AdjacentStays
  <2>2. CASE ~(a + 1 < i)
    <3>1. a + 1 = i /\ unknown # << >> /\ unknown[Len(unknown)] = argv[a]
      BY <1>2, <2>2 DEF FollowInv
    <3>. QED
      BY <1>0, <3>1, AdjacentStays
  <2>. QED
    BY <2>1, <2>2
<1>3. CASE parser' = "done" /\ AllArgs
  <2>1. ASSUME NEW a \in 1..Len(argv), Offered(a)
        PROVE  a \in 1..(i - 1)
    <3>1. argv[a].dash = 2 /\ a \in Nat
      BY <2>1 DEF Offered, Foreign
    <3>2. ~(a \in i..Len(argv))
      BY <1>3, <3>1 DEF AllArgs, IsOption
    <3>. QED
      BY <2>1, <3>2
  <2>. QED
    BY <1>1, <1>2, <1>3, <2>1 DEF FollowInv
<1>4. CASE parser' \in {"words", "letters"} /\ i' = i /\ IsOption(argv[i])
  <2>1. ASSUME NEW a \in 1..(i - 1), Offered(a)
        PROVE  a + 1 < i
    BY <1>4, <2>1 DEF Offered
  <2>. QED
    BY <1>1, <1>2, <1>4, <2>1 DEF FollowInv
<1>5. CASE parser' \in {"words", "letters"} /\ i' = i + 1
  <2>1. ASSUME NEW a \in 1..i, Offered(a)
        PROVE  IF a + 1 < i' THEN Adjacent(unknown', argv[a], argv[a + 1])
               ELSE unknown' # << >> /\ unknown'[Len(unknown')] = argv[a]
    <3>1. CASE a = i
      BY <1>0, <1>5, <3>1, AppendFacts
    <3>2. CASE a \in 1..(i - 1)
      <4>1. Adjacent(unknown', argv[a], argv[a + 1]) /\ a + 1 < i'
        BY <1>2, <1>5, <2>1, <3>2
      <4>. QED
        BY <4>1
    <3>. QED
      BY <3>1, <3>2
  <2>2. parser' # "done" /\ 1..(i' - 1) = 1..i
    BY <1>5
  <2>. QED
    BY <1>1, <2>1, <2>2 DEF FollowInv
<1>. QED
  BY <1>3, <1>4, <1>5

\* Option o was given in the word that is looked at.
LEMMA GivenAndUnknown ==
    ASSUME CopaInv, UnknownInv, FollowInv, parser \in {"words", "letters"}, parser' = "words",
           i <= Len(argv), IsOption(argv[i]), ~Foreign(argv[i]), NEW o, opt_given(o)
    PROVE  UnknownInv' /\ FollowInv'
<1>1. UNCHANGED <<argv, opts, unknown>>
  BY DEF opt_given, inputVars
<1>2. i' = i + 1 \/ (i' = i + 2 /\ i < Len(argv) /\ ~IsOption(argv[i + 1]))
  BY DEF opt_given, ValueFollows
<1>. QED
  BY <1>1, <1>2, KnownWord

LEMMA WordsAndUnknown ==
    ASSUME CopaInv, UnknownInv, FollowInv,
           ShortWord \/ LongWord \/ UnknownLongWord \/ OtherWord
    PROVE  UnknownInv' /\ FollowInv'
<1>1. parser = "words" /\ i <= Len(argv)
  BY DEF ShortWord, LongWord, UnknownLongWord, OtherWord, AtLongWord, AtOtherWord, AtWord
<1>2. CASE ShortWord
  BY <1>1, <1>2, KnownWord DEF ShortWord, inputVars, resultVars
<1>3. CASE LongWord
  <2>1. PICK o \in Named : opt_given(o)
    BY <1>3 DEF LongWord
  <2>2. IsOption(argv[i]) /\ ~Foreign(argv[i])
    BY <1>3, <2>1 DEF LongWord, AtLongWord, IsOption, Foreign, Named
  <2>. QED
    BY <1>1, <1>3, <2>1, <2>2, GivenAndUnknown DEF LongWord
<1>4. CASE UnknownLongWord \/ OtherWord
  <2>1. /\ UNCHANGED <<argv, opts>> /\ parser' = "words" /\ i' = i + 1
        /\ unknown' = Append(unknown, argv[i])
        /\ argv[i] # DashDash
    BY <1>1, <1>4 DEF UnknownLongWord, OtherWord, AddUnknown, inputVars, AtLongWord,
                      AtOtherWord, DashDash
  <2>. QED
    BY <1>1, <2>1, AddedUnknown, AddedFollows
<1>. QED
  BY <1>2, <1>3, <1>4

LEMMA LettersAndUnknown ==
    ASSUME CopaInv, UnknownInv, FollowInv, LastLetter \/ Letter \/ UnknownLetter
    PROVE  UnknownInv' /\ FollowInv'
<1>1. /\ parser = "letters" /\ i <= Len(argv) /\ argv[i].dash = 1
      /\ IsOption(argv[i]) /\ ~Foreign(argv[i]) /\ argv[i] # DashDash
  BY DEF LastLetter, Letter, UnknownLetter, AtLetter, CopaInv, InGroup, IsOption, Foreign,
         DashDash
<1>2. CASE LastLetter
  <2>1. PICK o \in Lettered : opt_given(o)
    BY <1>2 DEF LastLetter
  <2>. QED
    BY <1>1, <1>2, <2>1, GivenAndUnknown DEF LastLetter, LeaveGroup
<1>3. CASE Letter
  BY <1>1, <1>3, KnownWord DEF Letter, StayInGroup, inputVars
<1>4. CASE UnknownLetter
  <2>1. /\ UNCHANGED <<argv, opts>> /\ parser' \in {"words", "letters"}
        /\ i' = i \/ i' = i + 1
    BY <1>4 DEF UnknownLetter, LeaveGroup, StayInGroup, inputVars
  <2>2. CASE unknown' = unknown
    BY <1>1, <2>1, <2>2, KnownWord
  <2>3. CASE unknown' = Append(unknown, argv[i])
    BY <1>1, <2>1, <2>3, AddedUnknown, AddedFollows
  <2>. QED
    BY <1>4, <2>2, <2>3 DEF UnknownLetter, AddUnknown
<1>. QED
  BY <1>2, <1>3, <1>4

LEMMA EndAndUnknown ==
    ASSUME CopaInv, UnknownInv, FollowInv, EndOfOptions \/ TrailingWords \/ EndOfWords
    PROVE  UnknownInv' /\ FollowInv'
<1>. USE WordFacts
<1>1. parser = "words" /\ parser' = "done" /\ UNCHANGED <<argv, opts>>
  BY DEF EndOfOptions, TrailingWords, EndOfWords, AtOtherWord, AtWord, inputVars
<1>2. CASE TrailingWords
  <2>1. /\ i <= Len(argv) /\ argv[i] # DashDash /\ AllArgs
        /\ unknown' = Append(unknown, argv[i])
    BY <1>2 DEF TrailingWords, AtOtherWord, AtWord, AddUnknown, DashDash
  <2>. QED
    BY <1>1, <2>1, AddedUnknown, AddedFollows
<1>3. CASE EndOfOptions \/ EndOfWords
  <2>1. unknown' = unknown
    BY <1>3 DEF EndOfOptions, EndOfWords, resultVars
  <2>2. UnknownInv'
    BY <1>1, <2>1 DEF UnknownInv
  <2>3. ASSUME NEW a \in 1..Len(argv), Offered(a)
        PROVE  a \in 1..(i - 1) /\ a + 1 < i
    <3>1. a \in 1..(Len(argv) - 1) /\ ~IsOption(argv[a + 1]) /\ Undashed(argv, a)
      BY <2>3 DEF Offered
    <3>2. CASE EndOfOptions
      <4>1. argv[i] = DashDash /\ i <= Len(argv)
        BY <3>2 DEF EndOfOptions, AtWord
      <4>2. ~(i <= a) /\ a + 1 # i
        BY <3>1, <4>1 DEF Undashed, IsOption, DashDash
      <4>. QED
        BY <3>1, <4>2
    <3>3. CASE EndOfWords
      BY <3>1, <3>3 DEF EndOfWords
    <3>. QED
      BY <1>3, <3>2, <3>3
  <2>4. \A a : Offered(a)' <=> Offered(a)
    BY <1>1 DEF Offered, Foreign
  <2>5. \A a \in 1..Len(argv) : Offered(a) => Adjacent(unknown, argv[a], argv[a + 1])
    BY <1>1, <2>3 DEF FollowInv
  <2>. QED
    BY <1>1, <2>1, <2>2, <2>4, <2>5 DEF FollowInv
<1>. QED
  BY <1>2, <1>3

LEMMA FailingAndUnknown ==
    ASSUME UnknownInv, FollowInv, Chained \/ Overrun
    PROVE  UnknownInv' /\ FollowInv'
  BY DEF Chained, Overrun, inputVars, resultVars, UnknownInv, FollowInv

LEMMA UnknownKeeps ==
    ASSUME CopaInv, UnknownInv, FollowInv, CopaNext
    PROVE  UnknownInv' /\ FollowInv'
  BY WordsAndUnknown, LettersAndUnknown, EndAndUnknown, FailingAndUnknown DEF CopaNext

-----------------------------------------------------------------------------
(* What the options are given, one step at a time *)

LEMMA GivenAndResults ==
    ASSUME CopaInv, ResultsInv, i <= Len(argv), NEW o \in 1..Len(opts), opt_given(o)
    PROVE  ResultsInv'
<1>1. /\ UNCHANGED <<argv, opts>> /\ given' = [given EXCEPT ![o] = TRUE]
      /\ \/ values' = values
         \/ i < Len(argv) /\ values' = [values EXCEPT ![o] = Append(values[o], argv[i + 1])]
  BY DEF opt_given, ValueFollows, inputVars
<1>2. given' \in [1..Len(opts) -> BOOLEAN]
  BY <1>1 DEF ResultsInv
<1>3. values' \in [1..Len(opts) -> Seq(Word)]
  <2>1. CASE values' = values
    BY <2>1 DEF ResultsInv
  <2>2. CASE i < Len(argv) /\ values' = [values EXCEPT ![o] = Append(values[o], argv[i + 1])]
    <3>1. i + 1 \in 1..Len(argv)
      BY <2>2, WordFacts
    <3>2. argv[i + 1] \in Word
      BY <3>1, WordFacts
    <3>3. values[o] \in Seq(Word) /\ values \in [1..Len(opts) -> Seq(Word)]
      BY DEF ResultsInv
    <3>4. Append(values[o], argv[i + 1]) \in Seq(Word)
      BY <3>2, <3>3, AppendProperties
    <3>. QED
      BY <2>2, <3>3, <3>4
  <2>. QED
    BY <1>1, <2>1, <2>2
<1>. QED
  BY <1>1, <1>2, <1>3 DEF ResultsInv

LEMMA ResultsKeep ==
    ASSUME CopaInv, ResultsInv, CopaNext
    PROVE  ResultsInv'
<1>1. CASE LastLetter \/ LongWord
  <2>1. PICK o \in 1..Len(opts) : opt_given(o)
    BY <1>1 DEF LastLetter, LongWord, Lettered, Named
  <2>2. i <= Len(argv)
    BY <1>1 DEF LastLetter, LongWord, AtLetter, AtLongWord, AtWord, CopaInv, InGroup
  <2>. QED
    BY <2>1, <2>2, GivenAndResults
<1>2. CASE Letter
  <2>1. PICK o \in 1..Len(opts) : given' = [given EXCEPT ![o] = TRUE]
    BY <1>2 DEF Letter, Lettered
  <2>2. UNCHANGED <<opts, values>>
    BY <1>2 DEF Letter, inputVars
  <2>. QED
    BY <2>1, <2>2 DEF ResultsInv
<1>3. CASE \/ ShortWord \/ Chained \/ UnknownLetter \/ UnknownLongWord \/ EndOfOptions
           \/ OtherWord \/ TrailingWords \/ EndOfWords \/ Overrun
  <2>1. UNCHANGED <<opts, given, values>>
    BY <1>3 DEF ShortWord, Chained, UnknownLetter, UnknownLongWord, EndOfOptions, OtherWord,
                TrailingWords, EndOfWords, Overrun, inputVars, resultVars
  <2>. QED
    BY <2>1 DEF ResultsInv
<1>. QED
  BY <1>1, <1>2, <1>3 DEF CopaNext

\* The key with a word behind it: the word becomes a value.
LEMMA KeyGiven ==
    ASSUME CopaInv, ResultsInv, KeyParser, ValuesInv, LongWord
    PROVE  ValuesInv'
<1>0. /\ Len(argv) \in Nat /\ i \in Nat /\ i >= 1
      /\ \A a \in 1..Len(argv) : argv[a] \in Word
  BY WordFacts
<1>1. /\ parser = "words" /\ parser' = "words" /\ argv' = argv /\ opts' = opts
      /\ i \in 1..Len(argv) /\ IsKey(argv[i]) /\ opt_given(1)
  <2>1. PICK o \in Named : opt_given(o)
    BY DEF LongWord
  <2>2. o = 1 /\ argv[i].dash = 2 /\ argv[i].text = opts[1].long
    <3>1. o \in 1..Len(opts) /\ opts[o].long = argv[i].text
      BY <2>1 DEF Named
    <3>2. Len(opts) = 1
      BY DEF KeyParser
    <3>3. argv[i].dash = 2
      BY DEF LongWord, AtLongWord
    <3>. QED
      BY <3>1, <3>2, <3>3
  <2>3. i <= Len(argv) /\ parser = "words" /\ parser' = parser
    BY DEF LongWord, AtLongWord, AtWord
  <2>4. argv' = argv /\ opts' = opts
    BY <2>1 DEF opt_given, inputVars
  <2>5. IsKey(argv[i])
    BY <2>2 DEF IsKey
  <2>. QED
    BY <1>0, <2>1, <2>2, <2>3, <2>4, <2>5
<1>2. \A a : KeyAt(a)' <=> KeyAt(a)
  BY <1>1 DEF KeyAt, IsKey
<1>3. values[1] \in Seq(Word) /\ DOMAIN values = {1} /\ DOMAIN given = {1}
  BY DEF ResultsInv, KeyParser
<1>4. given'[1]
  BY <1>1, <1>3 DEF opt_given
<1>5. CASE ValueFollows(1)
  <2>1. /\ i + 1 \in 1..Len(argv) /\ ~IsOption(argv[i + 1]) /\ i' = i + 2
        /\ values'[1] = Append(values[1], argv[i + 1])
    BY <1>0, <1>1, <1>3, <1>5 DEF ValueFollows, opt_given
  <2>2. KeyAt(i) /\ i \in 1..(Len(argv) - 1) /\ argv[i + 1] \in Word
    BY <1>0, <1>1, <2>1 DEF KeyAt
  <2>3. /\ Len(values'[1]) = Len(values[1]) + 1 /\ values'[1] # << >>
        /\ \A v \in 1..Len(values[1]) : values'[1][v] = values[1][v]
        /\ values'[1][Len(values[1]) + 1] = argv[i + 1]
        /\ Len(values[1]) \in Nat
    <3>. DEFINE s == values[1]
                w == argv[i + 1]
    <3>1. s \in Seq(Word) /\ w \in Word /\ values'[1] = Append(s, w)
      BY <1>3, <2>1, <2>2
    <3>2. Len(s) \in Nat
      BY <3>1
    <3>. HIDE DEF s, w
    <3>3. /\ Len(Append(s, w)) = Len(s) + 1
          /\ \A a \in 1..Len(s) : Append(s, w)[a] = s[a]
          /\ Append(s, w)[Len(s) + 1] = w
          /\ Append(s, w) # << >>
      BY <3>1, AppendFacts
    <3>4. /\ Len(values'[1]) = Len(s) + 1 /\ values'[1] # << >>
          /\ \A v \in 1..Len(s) : values'[1][v] = s[v]
          /\ values'[1][Len(s) + 1] = w
      BY <3>1, <3>3
    <3>. QED
      BY <3>2, <3>4 DEF s, w
  <2>4. ASSUME NEW v \in 1..Len(values'[1])
        PROVE  \E a \in 1..(Len(argv) - 1) : KeyAt(a) /\ values'[1][v] = argv[a + 1]
    <3>1. CASE v \in 1..Len(values[1])
      BY <2>3, <3>1 DEF ValuesInv
    <3>2. CASE v = Len(values[1]) + 1
      BY <2>2, <2>3, <3>2
    <3>. QED
      BY <2>3, <3>1, <3>2
  <2>. QED
    BY <1>1, <1>2, <1>4, <2>3, <2>4 DEF ValuesInv
<1>6. CASE ~ValueFollows(1)
  <2>1. values' = values /\ i' = i + 1
    BY <1>1, <1>6 DEF opt_given
  <2>2. ~(i < Len(argv) /\ ~IsOption(argv[i + 1]))
    BY <1>6 DEF ValueFollows, KeyParser
  <2>3. \A a \in 1..(Len(argv) - 1) : a < i' /\ KeyAt(a) => a < i
    BY <1>0, <1>1, <2>1, <2>2 DEF KeyAt
  <2>. QED
    BY <1>1, <1>2, <1>4, <2>1, <2>3 DEF ValuesInv
<1>. QED
  BY <1>5, <1>6

\* A step that gives nothing, and passes no key but when the key's parser ends.
Passing ==
    /\ UNCHANGED <<argv, opts, given, values>>
    /\ parser \in {"words", "letters"}
    /\ \/ parser' \in {"words", "letters"}
       \/ parser' = "done" /\ (Undashed(argv, Len(argv)) =>
                                    \A a \in i..Len(argv) : ~IsKey(argv[a]))
       \/ parser' \in {"exit", "overrun"}
    /\ \/ i' = i
       \/ parser' = "done"
       \/ i' = i + 1 /\ ~IsKey(argv[i])

\* Other words do not count as the key.
LEMMA KeyNotGiven ==
    ASSUME CopaInv, ValuesInv, Passing
    PROVE  ValuesInv'
<1>0. Len(argv) \in Nat /\ i \in Nat
  BY WordFacts
<1>. /\ UNCHANGED <<argv, opts, given, values>>
     /\ parser \in {"words", "letters"}
  BY DEF Passing
<1>1. \A a : KeyAt(a)' <=> KeyAt(a)
  BY DEF KeyAt, IsKey
<1>2. ASSUME parser' \in {"words", "letters"}
      PROVE  \A a \in 1..(Len(argv) - 1) : a < i' /\ KeyAt(a) => values[1] # << >>
  <2>1. i' = i \/ (i' = i + 1 /\ ~IsKey(argv[i]))
    BY <1>2 DEF Passing
  <2>2. \A a \in 1..(Len(argv) - 1) : a < i' /\ KeyAt(a) => a < i
    BY <1>0, <2>1 DEF KeyAt
  <2>. QED
    BY <2>2 DEF ValuesInv
<1>3. ASSUME parser' = "done", Undashed(argv, Len(argv))
      PROVE  \A a \in 1..(Len(argv) - 1) : KeyAt(a) => values[1] # << >>
  <2>1. \A a \in i..Len(argv) : ~IsKey(argv[a])
    BY <1>3 DEF Passing
  <2>2. \A a \in 1..(Len(argv) - 1) : KeyAt(a) => a < i
    BY <1>0, <2>1 DEF KeyAt
  <2>. QED
    BY <2>2 DEF ValuesInv
<1>4. Undashed(argv, Len(argv))' <=> Undashed(argv, Len(argv))
  BY DEF Undashed
<1>. QED
  BY <1>1, <1>2, <1>3, <1>4 DEF ValuesInv

LEMMA KeyStays ==
    ASSUME CopaNext
    PROVE  argv' = argv /\ opts' = opts
BY DEF CopaNext, ShortWord, Chained, LastLetter, Letter, UnknownLetter, LongWord,
       UnknownLongWord, EndOfOptions, OtherWord, TrailingWords, EndOfWords, Overrun,
       opt_given, inputVars

LEMMA ValuesKeep ==
    ASSUME CopaInv, ResultsInv, KeyParser, ValuesInv, CopaNext
    PROVE  ValuesInv'
<1>0. argv' = argv /\ opts' = opts
  BY KeyStays
<1>1. CASE LongWord
  BY <1>1, KeyGiven
<1>2. ~(Chained \/ LastLetter \/ Letter)
  <2>1. Lettered = {}
    BY DEF Lettered, KeyParser
  <2>. QED
    BY <2>1 DEF Chained, LastLetter, Letter
<1>3. CASE ShortWord
  <2>1. Passing
    BY <1>0, <1>3 DEF ShortWord, AtWord, resultVars, Passing
  <2>. QED
    BY <2>1, KeyNotGiven
<1>4. CASE UnknownLetter
  <2>1. argv[i].dash = 1 /\ parser = "letters"
    BY <1>4 DEF UnknownLetter, AtLetter, CopaInv, InGroup
  <2>2. parser' \in {"words", "letters"} /\ (i' = i \/ i' = i + 1)
    BY <1>4 DEF UnknownLetter, LeaveGroup, StayInGroup
  <2>3. UNCHANGED <<given, values>>
    BY <1>4 DEF UnknownLetter
  <2>4. ~IsKey(argv[i])
    BY <2>1 DEF IsKey
  <2>5. Passing
    BY <1>0, <2>1, <2>2, <2>3, <2>4 DEF Passing
  <2>. QED
    BY <2>5, KeyNotGiven
<1>5. CASE UnknownLongWord \/ OtherWord
  <2>1. ~IsKey(argv[i])
    <3>1. i <= Len(argv)
      BY <1>5 DEF UnknownLongWord, OtherWord, AtLongWord, AtOtherWord, AtWord
    <3>2. argv[i] \in Word
      BY <3>1, WordFacts
    <3>3. argv[i].text # NoText
      BY <3>2, TextsAssumption DEF Word
    <3>. QED
      BY <1>5, <3>3 DEF UnknownLongWord, OtherWord, AtLongWord, AtOtherWord, Named, IsKey,
                        KeyParser
  <2>2. parser = "words" /\ parser' = "words" /\ i' = i + 1 /\ UNCHANGED <<given, values>>
    BY <1>5 DEF UnknownLongWord, OtherWord, AtLongWord, AtOtherWord, AtWord
  <2>3. Passing
    BY <1>0, <2>1, <2>2 DEF Passing
  <2>. QED
    BY <2>3, KeyNotGiven
<1>6. CASE EndOfOptions \/ TrailingWords \/ EndOfWords
  <2>1. parser = "words" /\ parser' = "done" /\ UNCHANGED <<given, values>>
    BY <1>6 DEF EndOfOptions, TrailingWords, EndOfWords, AtOtherWord, AtWord, resultVars
  <2>2. ASSUME Undashed(argv, Len(argv)), NEW a \in i..Len(argv)
        PROVE  ~IsKey(argv[a])
    <3>0. Len(argv) \in Nat /\ i \in Nat /\ i >= 1
      BY WordFacts
    <3>1. CASE EndOfOptions
      BY <2>2, <3>0, <3>1 DEF EndOfOptions, AtWord, Undashed
    <3>2. CASE TrailingWords
      <4>1. ~IsOption(argv[a])
        BY <2>2, <3>2 DEF TrailingWords, AllArgs
      <4>. QED
        BY <4>1 DEF IsOption, IsKey
    <3>3. CASE EndOfWords
      BY <2>2, <3>0, <3>3 DEF EndOfWords
    <3>. QED
      BY <1>6, <3>1, <3>2, <3>3
  <2>3. Passing
    BY <1>0, <2>1, <2>2 DEF Passing
  <2>. QED
    BY <2>3, KeyNotGiven
<1>7. CASE Overrun
  <2>1. parser \in {"words", "letters"}
    BY <1>7 DEF Overrun, AtLetter, AtLongWord, AtOtherWord, AtWord
  <2>2. parser' = "overrun" /\ i' = i /\ UNCHANGED <<given, values>>
    BY <1>7 DEF Overrun, resultVars
  <2>3. Passing
    BY <1>0, <2>1, <2>2 DEF Passing
  <2>. QED
    BY <2>3, KeyNotGiven
<1>. QED
  BY <1>1, <1>2, <1>3, <1>4, <1>5, <1>6, <1>7 DEF CopaNext

LEMMA KeyParserKeeps == KeyParser /\ opts' = opts => KeyParser'
BY DEF KeyParser

-----------------------------------------------------------------------------
(* Where a parser starts, and where it stands still *)

LEMMA UnknownStarts ==
    ASSUME NEW w, NEW o, Len(o) \in Nat, Parser(w, o)
    PROVE  UnknownInv /\ FollowInv /\ ResultsInv
<1>1. Len(<< >>) = 0 /\ << >> \in Seq(Word)
  OBVIOUS
<1>2. unknown = << >> /\ i = 1 /\ parser = "words"
  BY DEF Parser
<1>3. UnknownInv /\ FollowInv
  BY <1>1, <1>2 DEF UnknownInv, FollowInv
<1>4. ResultsInv
  BY <1>1 DEF Parser, ResultsInv
<1>. QED
  BY <1>3, <1>4

LEMMA UnknownStartsAnew ==
    ASSUME NEW w, NEW o, Len(o) \in Nat, CopaStart(w, o)
    PROVE  UnknownInv' /\ FollowInv' /\ ResultsInv'
<1>1. Len(<< >>) = 0 /\ << >> \in Seq(Word)
  OBVIOUS
<1>2. unknown' = << >> /\ i' = 1 /\ parser' = "words"
  BY DEF CopaStart
<1>3. UnknownInv' /\ FollowInv'
  BY <1>1, <1>2 DEF UnknownInv, FollowInv
<1>4. ResultsInv'
  BY <1>1 DEF CopaStart, ResultsInv
<1>. QED
  BY <1>3, <1>4

LEMMA KeyStarts ==
    ASSUME NEW w, NEW o, Len(o) = 1, CopaStart(w, o)
    PROVE  ValuesInv'
<1>1. values'[1] = << >> /\ i' = 1 /\ parser' = "words"
  BY DEF CopaStart
<1>2. Len(<< >>) = 0
  OBVIOUS
<1>. QED
  BY <1>1, <1>2 DEF ValuesInv

LEMMA UnknownStutters ==
    ASSUME UnknownInv, FollowInv, ResultsInv, UNCHANGED copaVars
    PROVE  UnknownInv' /\ FollowInv' /\ ResultsInv'
<1>1. UNCHANGED <<argv, opts, i, given, values, unknown, parser>>
  BY DEF copaVars, inputVars, resultVars
<1>. QED
  BY <1>1 DEF UnknownInv, FollowInv, ResultsInv, Offered, Foreign

LEMMA ValuesStutter ==
    ASSUME ValuesInv, UNCHANGED copaVars
    PROVE  ValuesInv'
<1>1. UNCHANGED <<argv, opts, i, given, values, unknown, parser>>
  BY DEF copaVars, inputVars, resultVars
<1>. QED
  BY <1>1 DEF ValuesInv, KeyAt, IsKey

-----------------------------------------------------------------------------
(* The words before "--", the options and the keys *)

LEMMA WordsBefore ==
    ASSUME NEW w \in Seq(Word)
    PROVE  /\ Len(w) \in Nat /\ Len(BeforeDashes(w)) \in 0..Len(w)
           /\ DOMAIN BeforeDashes(w) = 1..Len(BeforeDashes(w))
           /\ \A a \in 1..Len(BeforeDashes(w)) : BeforeDashes(w)[a] = w[a]
           /\ \A a \in 1..Len(w) : a <= Len(BeforeDashes(w)) <=> Undashed(w, a)
<1>. DEFINE ends == {m \in DOMAIN w : w[m] = DashDash}
<1>1. Len(w) \in Nat /\ DOMAIN w = 1..Len(w)
  OBVIOUS
<1>2. CASE ends = {}
  <2>1. BeforeDashes(w) = w
    BY <1>2 DEF BeforeDashes
  <2>2. \A a \in 1..Len(w) : Undashed(w, a)
    BY <1>1, <1>2 DEF Undashed
  <2>. QED
    BY <1>1, <2>1, <2>2
<1>3. CASE ends # {}
  <2>1. PICK e \in ends : \A b \in ends : e <= b
    <3>1. ends \in SUBSET (1..Len(w))
      BY <1>1
    <3>. HIDE DEF ends
    <3>. QED
      BY <1>1, <1>3, <3>1, Smallest
  <2>2. Min(ends) \in ends /\ \A b \in ends : Min(ends) <= b
    <3>. HIDE DEF ends
    <3>. QED
      BY <2>1 DEF Min
  <2>. DEFINE last == Min(ends) - 1
  <2>3. Min(ends) \in 1..Len(w) /\ w[Min(ends)] = DashDash
    BY <1>1, <2>2
  <2>4. last \in 0..Len(w)
    BY <1>1, <2>3
  <2>a. BeforeDashes(w) = SubSeq(w, 1, last)
    BY <1>3 DEF BeforeDashes
  <2>5. ASSUME NEW a \in 1..Len(w) PROVE a <= last <=> Undashed(w, a)
    <3>1. CASE a <= last
      <4>1. ASSUME NEW c \in 1..a PROVE w[c] # DashDash
        <5>1. c \in DOMAIN w /\ ~(Min(ends) <= c)
          BY <1>1, <2>3, <3>1
        <5>. QED
          BY <2>2, <5>1
      <4>. QED
        BY <3>1, <4>1 DEF Undashed
    <3>2. CASE ~(a <= last)
      <4>1. Min(ends) \in 1..a
        BY <1>1, <2>3, <3>2
      <4>. QED
        BY <2>3, <3>2, <4>1 DEF Undashed
    <3>. QED
      BY <3>1, <3>2
  <2>. HIDE DEF last
  <2>6. /\ Len(SubSeq(w, 1, last)) = last
        /\ DOMAIN SubSeq(w, 1, last) = 1..last
        /\ \A a \in 1..last : SubSeq(w, 1, last)[a] = w[a]
    BY <1>1, <2>4
  <2>. QED
    BY <1>1, <2>4, <2>a, <2>5, <2>6
<1>. QED
  BY <1>2, <1>3

LEMMA OptionFacts ==
    ASSUME NEW unset
    PROVE  Len(Options(unset)) = 14 /\ \A o \in 1..14 : Len(Options(unset)[o].long) = 1
<1>1. Len(Options(unset)) = 14
  BY DEF Options
<1>2. ASSUME NEW o \in 1..14 PROVE Len(Options(unset)[o].long) = 1
  <2>1. CASE o \in 1..5
    BY <2>1 DEF Options, Opt
  <2>2. CASE o \in 6..10
    BY <2>2 DEF Options, Opt
  <2>3. CASE o \in 11..14
    BY <2>3 DEF Options, Opt
  <2>. QED
    BY <2>1, <2>2, <2>3
<1>. QED
  BY <1>1, <1>2

LEMMA PluginOption == OptionNumber("plugin") \in 1..14
<1>1. Options({})[7].long = <<"plugin">>
  BY DEF Options, Opt
<1>2. \E o \in 1..14 : Options({})[o].long = <<"plugin">>
  BY <1>1
<1>. QED
  BY <1>2 DEF OptionNumber

\* A plugin's keys, whichever the plugin is.
LEMMA KeyNames ==
    ASSUME NEW name
    PROVE  /\ Len(Keys(name)) \in Nat
           /\ ToSet(Keys(name)) = {Keys(name)[j] : j \in 1..Len(Keys(name))}
           /\ \A j \in 1..Len(Keys(name)) :
                \E plugin, key : name = <<plugin>> /\ Keys(name)[j] = <<plugin, key>>
<1>1. CASE name = <<"foreman">>
  BY <1>1 DEF Keys, ToSet
<1>2. CASE name = <<"ssh">>
  BY <1>2 DEF Keys, ToSet
<1>3. CASE name = <<"dummy">>
  BY <1>3 DEF Keys, ToSet
<1>4. CASE name \notin {<<"foreman">>, <<"ssh">>, <<"dummy">>}
  BY <1>4 DEF Keys, ToSet
<1>. QED
  BY <1>1, <1>2, <1>3, <1>4

-----------------------------------------------------------------------------
(* The keys one by one *)

\* One more key was looked for: it has its last value, or there is none.
LEMMA OneMoreKey ==
    ASSUME NEW words, NEW looked, NEW found, NEW config, NEW set, NEW default, NEW plugin,
           NEW option, NEW text,
           SetFrom(words, looked, config, default, plugin),
           found \subseteq looked \union {<<plugin, option>>},
           \/ /\ set = [config EXCEPT ![option] = text]
              /\ Behind(BeforeDashes(words), <<plugin, option>>, text)
           \/ set = config /\ ~DirectlyBehind(BeforeDashes(words), <<plugin, option>>)
    PROVE  SetFrom(words, found, set, default, plugin)
<1>. DEFINE front == BeforeDashes(words)
<1>1. CASE /\ set = [config EXCEPT ![option] = text]
           /\ Behind(front, <<plugin, option>>, text)
  <2>1. \E a \in DOMAIN front : front[a].text = text
    BY <1>1 DEF Behind
  <2>2. ASSUME NEW key \in DOMAIN set
        PROVE  /\ set[key] # default[key] => Behind(front, <<plugin, key>>, set[key])
               /\ <<plugin, key>> \in found /\ DirectlyBehind(front, <<plugin, key>>) =>
                    \E a \in DOMAIN front : front[a].text = set[key]
    <3>1. key \in DOMAIN config
      BY <1>1, <2>2
    <3>2. CASE key = option
      <4>1. set[key] = text
        BY <1>1, <3>1, <3>2
      <4>. QED
        BY <1>1, <2>1, <3>2, <4>1
    <3>3. CASE key # option
      <4>1. set[key] = config[key]
        BY <1>1, <3>1, <3>3
      <4>2. <<plugin, key>> \in found => <<plugin, key>> \in looked
        BY <3>3
      <4>. QED
        BY <3>1, <4>1, <4>2 DEF SetFrom
    <3>. QED
      BY <3>2, <3>3
  <2>. QED
    BY <2>2 DEF SetFrom
<1>2. CASE set = config /\ ~DirectlyBehind(front, <<plugin, option>>)
  <2>1. ASSUME NEW key \in DOMAIN set
        PROVE  /\ set[key] # default[key] => Behind(front, <<plugin, key>>, set[key])
               /\ <<plugin, key>> \in found /\ DirectlyBehind(front, <<plugin, key>>) =>
                    \E a \in DOMAIN front : front[a].text = set[key]
    <3>1. CASE key = option
      BY <1>2, <3>1 DEF SetFrom
    <3>2. CASE key # option
      <4>1. <<plugin, key>> \in found => <<plugin, key>> \in looked
        BY <3>2
      <4>. QED
        BY <1>2, <4>1 DEF SetFrom
    <3>. QED
      BY <3>1, <3>2
  <2>. QED
    BY <2>1 DEF SetFrom
<1>. QED
  BY <1>1, <1>2

LEMMA WordIs ==
    ASSUME NEW word \in Word
    PROVE  word = [dash |-> word.dash, text |-> word.text] /\ word.dash \in Nat
BY DEF Word

\* A value stands behind its key on the line.
LEMMA ValueIsBehind ==
    ASSUME line \in Seq(Word), argv = left, CopaInv, LeftInv, ValuesInv, ResultsInv, Len(opts) = 1,
           values[1] # << >>
    PROVE  Behind(BeforeDashes(line), opts[1].long, Last(values[1]).text)
<1>. DEFINE w == BeforeDashes(line)
            v == Len(values[1])
<1>1. v \in 1..v /\ Last(values[1]) = values[1][v]
  <2>1. values[1] \in Seq(Word)
    BY DEF ResultsInv
  <2>2. v \in Nat /\ v # 0
    BY <2>1, EmptySeq
  <2>. QED
    BY <2>2 DEF Last
<1>2. PICK a \in 1..(Len(argv) - 1) : KeyAt(a) /\ values[1][v] = argv[a + 1]
  BY <1>1 DEF ValuesInv
<1>3. /\ argv[a] \in Word /\ argv[a + 1] \in Word
      /\ argv[a].dash = 2 /\ argv[a].text = opts[1].long /\ ~IsOption(argv[a + 1])
  <2>1. a \in 1..Len(argv) /\ a + 1 \in 1..Len(argv)
    BY WordFacts
  <2>. QED
    BY <1>2, <2>1, WordFacts DEF KeyAt, IsKey
<1>4. InTurn(line, argv[a], argv[a + 1])
  BY <1>2, <1>3 DEF LeftInv
<1>5. PICK b, c \in 1..Len(line) :
          /\ b < c /\ line[b] = argv[a] /\ line[c] = argv[a + 1]
          /\ Gap(line, b, c) /\ Undashed(line, c)
  BY <1>4 DEF InTurn
<1>6. /\ c \in DOMAIN w /\ b \in DOMAIN w /\ DOMAIN w = 1..Len(w) /\ Len(w) \in Nat
      /\ \A m \in 1..c : w[m] = line[m]
  BY <1>5, WordsBefore
<1>7. w[b] = [dash |-> 2, text |-> opts[1].long]
  <2>1. argv[a] = [dash |-> 2, text |-> opts[1].long]
    BY <1>3, WordIs
  <2>2. w[b] = line[b]
    BY <1>5, <1>6
  <2>. QED
    BY <1>5, <2>1, <2>2
<1>8. w[c] = [dash |-> 0, text |-> Last(values[1]).text]
  <2>1. argv[a + 1].dash = 0
    BY <1>3, WordIs DEF IsOption
  <2>2. argv[a + 1] = [dash |-> 0, text |-> argv[a + 1].text]
    BY <1>3, <2>1, WordIs
  <2>3. w[c] = line[c]
    BY <1>5, <1>6
  <2>4. Last(values[1]).text = argv[a + 1].text
    BY <1>1, <1>2
  <2>. QED
    BY <1>5, <2>2, <2>3, <2>4
<1>9. ASSUME NEW m \in (b + 1)..(c - 1)
      PROVE  IsOption(w[m]) \/ (m > b + 1 /\ IsOption(w[m - 1]))
  <2>1. m \in 1..c /\ m - 1 \in 1..c
    BY <1>5
  <2>. QED
    BY <1>5, <1>6, <2>1 DEF Gap
<1>. HIDE DEF w
<1>10. Behind(w, opts[1].long, Last(values[1]).text)
  BY <1>5, <1>6, <1>7, <1>8, <1>9 DEF Behind
<1>. QED
  BY <1>10 DEF w

\* A key without a value has no word directly behind it on the line.
LEMMA NoValueNoWord ==
    ASSUME line \in Seq(Word), argv = left, CopaInv, LeftInv, ValuesInv, parser = "done",
           Len(opts[1].long) = 2, values[1] = << >>
    PROVE  ~DirectlyBehind(BeforeDashes(line), opts[1].long)
<1>. SUFFICES ASSUME DirectlyBehind(BeforeDashes(line), opts[1].long) PROVE FALSE
  OBVIOUS
<1>. DEFINE w == BeforeDashes(line)
<1>1. PICK b \in DOMAIN w :
        w[b] = [dash |-> 2, text |-> opts[1].long] /\ b < Len(w) /\ ~IsOption(w[b + 1])
  BY DEF DirectlyBehind
<1>2. /\ b \in 1..(Len(line) - 1) /\ w[b] = line[b] /\ w[b + 1] = line[b + 1]
      /\ Undashed(line, b)
  <2>1. /\ Len(line) \in Nat /\ Len(w) \in 0..Len(line) /\ DOMAIN w = 1..Len(w)
        /\ \A a \in 1..Len(w) : w[a] = line[a]
        /\ \A a \in 1..Len(line) : a <= Len(w) <=> Undashed(line, a)
    BY WordsBefore
  <2>. HIDE DEF w
  <2>. QED
    BY <1>1, <2>1
<1>3. Adjacent(left, line[b], line[b + 1])
  <2>1. line[b].dash = 2 /\ line[b].text = opts[1].long
    BY <1>1, <1>2
  <2>2. Len(line[b].text) = 2 /\ ~IsOption(line[b + 1])
    BY <1>1, <1>2, <2>1
  <2>. QED
    BY <1>2, <2>1, <2>2 DEF LeftInv
<1>4. PICK a \in 1..(Len(left) - 1) : left[a] = line[b] /\ left[a + 1] = line[b + 1]
  BY <1>3 DEF Adjacent
<1>5. KeyAt(a)
  BY <1>1, <1>2, <1>4 DEF KeyAt, IsKey
<1>6. Undashed(argv, Len(argv))
  BY DEF LeftInv, Undashed
<1>. QED
  BY <1>4, <1>5, <1>6 DEF ValuesInv

-----------------------------------------------------------------------------
(* The configuration, one step of main at a time *)

AtKeys == main \in {"keys", "key"}

LEMMA KeysStay ==
    ASSUME ForemanKeys, SshKeys, UNCHANGED <<line, cfg, ssh_cfg, names, n, k>>,
           AtKeys' <=> AtKeys
    PROVE  ForemanKeys' /\ SshKeys'
<1>1. Looked("foreman")' = Looked("foreman") /\ Looked("ssh")' = Looked("ssh")
  BY DEF Looked, AtKeys
<1>. QED
  BY <1>1 DEF ForemanKeys, SshKeys

LEMMA LeftStays == LeftInv /\ UNCHANGED <<line, left>> => LeftInv'
BY DEF LeftInv

\* Steps that are not main's.
LEMMA MainStays ==
    ASSUME MainInv, main \notin {"parse", "key"},
           UNCHANGED <<line, left, names, n, k, cfg, ssh_cfg, main>>
    PROVE  MainInv'
<1>1. ParseInv' /\ KeyInv' /\ LoopInv'
  BY DEF MainInv, LoopInv, ParseInv, KeyInv
<1>2. InMain' => LeftInv' /\ ForemanKeys' /\ SshKeys'
  <2>1. SUFFICES ASSUME InMain' PROVE LeftInv' /\ ForemanKeys' /\ SshKeys'
    OBVIOUS
  <2>2. LeftInv /\ ForemanKeys /\ SshKeys
    BY <2>1 DEF MainInv, InMain
  <2>. QED
    BY <2>2, LeftStays, KeysStay DEF AtKeys
<1>. QED
  BY <1>1, <1>2 DEF MainInv

LEMMA MainStutters ==
    ASSUME MainInv, UNCHANGED <<line, left, names, n, k, cfg, ssh_cfg, main>>, UNCHANGED copaVars
    PROVE  MainInv'
<1>1. ParseInv' /\ LoopInv'
  BY DEF MainInv, LoopInv, ParseInv, copaVars, inputVars
<1>2. KeyInv'
  BY ValuesStutter, KeyParserKeeps DEF MainInv, KeyInv, copaVars, inputVars
<1>3. InMain' => LeftInv' /\ ForemanKeys' /\ SshKeys'
  <2>1. SUFFICES ASSUME InMain' PROVE LeftInv' /\ ForemanKeys' /\ SshKeys'
    OBVIOUS
  <2>2. LeftInv /\ ForemanKeys /\ SshKeys
    BY <2>1 DEF MainInv, InMain
  <2>. QED
    BY <2>2, LeftStays, KeysStay DEF AtKeys
<1>. QED
  BY <1>1, <1>2, <1>3 DEF MainInv

LEMMA ConfigParses ==
    ASSUME ConfigInv, ParseStep
    PROVE  MainInv'
<1>0. CopaInv /\ UnknownInv /\ FollowInv /\ ResultsInv /\ MainInv /\ CopaNext
  BY DEF ConfigInv, ParserInv, ParseStep
<1>1. argv' = argv /\ opts' = opts
  BY <1>0, KeyStays
<1>2. UNCHANGED <<line, left, names, n, k, cfg, ssh_cfg, main>>
  BY DEF ParseStep, mainVars, foremanVars, pluginVars
<1>3. ParseInv' /\ LoopInv'
  BY <1>0, <1>1, <1>2 DEF MainInv, LoopInv, ParseInv
<1>4. KeyInv'
  <2>1. SUFFICES ASSUME main = "key" PROVE KeyInv'
    BY <1>2 DEF KeyInv
  <2>2. /\ argv = left /\ k \in 1..Len(Keys(names[n]))
        /\ KeyParser /\ opts[1].long = Keys(names[n])[k]
        /\ ValuesInv
    BY <1>0, <2>1 DEF MainInv, KeyInv
  <2>3. ValuesInv' /\ KeyParser'
    BY <1>0, <1>1, <2>2, ValuesKeep, KeyParserKeeps
  <2>. QED
    BY <1>1, <1>2, <2>2, <2>3 DEF KeyInv
<1>5. InMain' => LeftInv' /\ ForemanKeys' /\ SshKeys'
  <2>1. SUFFICES ASSUME InMain' PROVE LeftInv' /\ ForemanKeys' /\ SshKeys'
    OBVIOUS
  <2>2. LeftInv /\ ForemanKeys /\ SshKeys
    BY <1>0, <1>2, <2>1 DEF MainInv, InMain
  <2>. QED
    BY <1>2, <2>2, LeftStays, KeysStay DEF AtKeys
<1>. QED
  BY <1>3, <1>4, <1>5 DEF MainInv

LEMMA ConfigEnds ==
    ASSUME MainInv, NEW how \in Ends \ {"execute"}, EndsWith(how)
    PROVE  MainInv'
<1>1. main' = how /\ UNCHANGED <<line, left, names, n, k>>
  BY DEF EndsWith
<1>2. ParseInv' /\ KeyInv' /\ ~InMain'
  BY <1>1 DEF ParseInv, KeyInv, InMain, Ends
<1>3. LoopInv'
  BY <1>1 DEF MainInv, LoopInv, Ends
<1>. QED
  BY <1>2, <1>3 DEF MainInv

LEMMA ConfigExecutes ==
    ASSUME MainInv, main = "collect", EndsWith("execute")
    PROVE  MainInv'
<1>1. main' = "execute" /\ UNCHANGED <<line, left, names, n, k, cfg, ssh_cfg>>
  BY DEF EndsWith, foremanVars, pluginVars
<1>2. ParseInv' /\ KeyInv' /\ LoopInv'
  BY <1>1 DEF ParseInv, KeyInv, MainInv, LoopInv
<1>3. LeftInv /\ ForemanKeys /\ SshKeys
  BY DEF MainInv, InMain
<1>4. LeftInv' /\ ForemanKeys' /\ SshKeys'
  BY <1>1, <1>3, LeftStays, KeysStay DEF AtKeys
<1>. QED
  BY <1>2, <1>4 DEF MainInv

LEMMA ConfigFails ==
    ASSUME MainInv,
           \/ ParserEnds \/ RequireFails \/ LogOptionFails \/ HelpOrVersion \/ CallbackFails
           \/ SetKeyToNull \/ ConcurrentFails \/ CollectEnds \/ NoCommand \/ JoinCommand
    PROVE  MainInv'
<1>1. CASE ParserEnds \/ RequireFails \/ LogOptionFails \/ HelpOrVersion \/ CallbackFails
  <2>1. \E how \in {"failed", "overrun", "aborted", "crashed", "exited"} : EndsWith(how)
    BY <1>1 DEF ParserEnds, RequireFails, LogOptionFails, HelpOrVersion, CallbackFails
  <2>. QED
    BY <2>1, ConfigEnds DEF Ends
<1>2. CASE SetKeyToNull \/ ConcurrentFails \/ CollectEnds \/ NoCommand
  <2>1. \E how \in {"failed", "aborted", "crashed"} : EndsWith(how)
    BY <1>2 DEF SetKeyToNull, ConcurrentFails, CollectEnds, NoCommand
  <2>. QED
    BY <2>1, ConfigEnds DEF Ends
<1>3. CASE JoinCommand
  <2>1. main = "collect" /\ (EndsWith("overrun") \/ EndsWith("execute"))
    BY <1>3 DEF JoinCommand, AtCommand
  <2>. QED
    BY <2>1, ConfigEnds, ConfigExecutes DEF Ends
<1>. QED
  BY <1>1, <1>2, <1>3

LEMMA ForemanKeepsConfig ==
    ASSUME collect \/ ForemanNext \/ ServerNext
    PROVE  cfg' = cfg
<1>1. CASE collect
  BY <1>1 DEF collect, pluginVars
<1>2. CASE NotConfigured \/ HeadersReused \/ BadUrl \/ UrlOverread \/ IncompleteUrl
           \/ PerformFails \/ Unparsable \/ MissingResults
  BY <1>2 DEF NotConfigured, HeadersReused, BadUrl, UrlOverread, IncompleteUrl, PerformFails,
              Unparsable, MissingResults, Stops, pluginVars
<1>3. CASE init_curl \/ FirstRequest \/ Receive \/ NoResults \/ FirstPage \/ AddHosts
           \/ AddOnlyPage \/ NextPage
  BY <1>3 DEF init_curl, FirstRequest, Receive, NoResults, FirstPage, AddHosts, AddOnlyPage,
              NextPage, pluginVars
<1>4. CASE ServerNext
  BY <1>4 DEF ServerNext, Serve, ServeBad, HostVanishes, Answers, pluginVars
<1>. QED
  BY <1>1, <1>2, <1>3, <1>4 DEF ForemanNext

LEMMA ConfigCollects ==
    ASSUME MainInv, CallForeman \/ CallDummy \/ ForemanStep \/ ServerStep
    PROVE  MainInv'
<1>1. main = "collect" /\ UNCHANGED <<line, left, names, n, k, ssh_cfg, main>>
  BY DEF CallForeman, CallDummy, ForemanStep, ServerStep, mainVars
<1>2. cfg' = cfg
  BY ForemanKeepsConfig DEF CallForeman, CallDummy, ForemanStep, ServerStep, pluginVars
<1>. QED
  BY <1>1, <1>2, MainStays

\* What the parser of the command line leaves over.
LEMMA LeftAtStart ==
    ASSUME CopaInv, UnknownInv, FollowInv, parser = "done", argv = line, left' = unknown,
           line' = line,
           Len(opts) = 14, \A o \in 1..14 : Len(opts[o].long) = 1
    PROVE  LeftInv'
<1>1. ASSUME NEW a \in 1..(Len(line) - 1),
             line[a].dash = 2, Len(line[a].text) = 2, ~IsOption(line[a + 1]), Undashed(line, a)
      PROVE  Adjacent(unknown, line[a], line[a + 1])
  <2>1. ASSUME NEW o \in 1..Len(opts) PROVE opts[o].long # line[a].text
    <3>1. Len(opts[o].long) = 1
      OBVIOUS
    <3>2. Len(line[a].text) = 2
      BY <1>1
    <3>3. 1 # 2 /\ 0 # 2
      OBVIOUS
    <3>. QED
      BY <3>1, <3>2, <3>3, Zenon
  <2>2. line[a].text # << >>
    <3>1. Len(<< >>) = 0
      OBVIOUS
    <3>2. Len(line[a].text) = 2
      BY <1>1
    <3>3. 1 # 2 /\ 0 # 2
      OBVIOUS
    <3>. QED
      BY <3>1, <3>2, <3>3, Zenon
  <2>3. Offered(a)
    BY <1>1, <2>1, <2>2 DEF Offered, Foreign
  <2>4. a \in 1..Len(argv)
    BY WordFacts
  <2>. QED
    BY <2>3, <2>4 DEF FollowInv
<1>2. /\ \A a \in 1..Len(unknown) : unknown[a] # DashDash
      /\ \A a \in 1..(Len(unknown) - 1) :
            unknown[a].dash = 2 => InTurn(line, unknown[a], unknown[a + 1])
  BY DEF UnknownInv
<1>. QED
  BY <1>1, <1>2 DEF LeftInv

LEMMA ConfigBegins ==
    ASSUME ConfigInv, BeginPlugins
    PROVE  MainInv'
<1>0. /\ CopaInv /\ UnknownInv /\ FollowInv /\ ResultsInv /\ MainInv
      /\ main = "parse" /\ parser = "done"
  BY DEF ConfigInv, ParserInv, BeginPlugins, AtCallbacks, AtParsed
<1>1. /\ argv = line /\ Len(opts) = 14 /\ \A o \in 1..14 : Len(opts[o].long) = 1
      /\ n = 1 /\ cfg = Unconfigured /\ ssh_cfg = SshUnconfigured
  BY <1>0 DEF MainInv, ParseInv
<1>2. /\ main' = "load" /\ left' = unknown /\ UNCHANGED <<line, n, k, ssh_cfg, cfg>>
      /\ names' = [m \in DOMAIN Values("plugin") |-> Values("plugin")[m].text]
  BY DEF BeginPlugins, foremanVars, pluginVars
<1>3. ParseInv' /\ KeyInv'
  BY <1>2 DEF ParseInv, KeyInv
<1>4. names' \in Seq(Seq(Symbols))
  <2>1. Values("plugin") \in Seq(Word)
    BY <1>0, <1>1, PluginOption DEF Values, ResultsInv
  <2>2. DOMAIN Values("plugin") = 1..Len(Values("plugin")) /\ Len(Values("plugin")) \in Nat
    BY <2>1
  <2>3. \A m \in DOMAIN Values("plugin") : Values("plugin")[m].text \in Seq(Symbols)
    <3>1. \A m \in DOMAIN Values("plugin") : Values("plugin")[m] \in Word
      BY <2>1
    <3>. QED
      BY <3>1 DEF Word
  <2>4. names' \in [1..Len(Values("plugin")) -> Seq(Symbols)]
    BY <1>2, <2>2, <2>3
  <2>. QED
    BY <2>2, <2>4
<1>5. LoopInv'
  BY <1>0, <1>2, <1>4 DEF MainInv, LoopInv
<1>6. LeftInv'
  BY <1>0, <1>1, <1>2, LeftAtStart
<1>7. Looked("foreman")' = {} /\ Looked("ssh")' = {}
  BY <1>1, <1>2 DEF Looked
<1>8. ForemanKeys' /\ SshKeys'
  BY <1>1, <1>2, <1>7 DEF ForemanKeys, SshKeys, SetFrom
<1>. QED
  BY <1>3, <1>5, <1>6, <1>8 DEF MainInv

LEMMA ConfigLoads ==
    ASSUME MainInv, LoadPlugin
    PROVE  MainInv'
<1>1. /\ main = "load" /\ main' = "keys" /\ n <= Len(names) /\ k' = 1
      /\ UNCHANGED <<line, left, names, n>>
      /\ cfg' = IF names[n] = <<"foreman">> THEN Unconfigured ELSE cfg
      /\ ssh_cfg' = IF names[n] = <<"ssh">> THEN SshUnconfigured ELSE ssh_cfg
  BY DEF LoadPlugin
<1>2. LeftInv /\ ForemanKeys /\ SshKeys /\ LoopInv
  BY <1>1 DEF MainInv, InMain
<1>3. ParseInv' /\ KeyInv'
  BY <1>1 DEF ParseInv, KeyInv
<1>4. LoopInv'
  BY <1>1, <1>2 DEF LoopInv
<1>5. ASSUME NEW plugin
      PROVE  Looked(plugin)' = IF names[n] = <<plugin>> THEN {} ELSE Looked(plugin)
  <2>1. CASE names[n] = <<plugin>>
    <3>1. \A m \in 1..Len(Keys(<<plugin>>)) : ~(m < 1)
      BY KeyNames
    <3>. QED
      BY <1>1, <2>1, <3>1 DEF Looked
  <2>2. CASE names[n] # <<plugin>>
    BY <1>1, <2>2 DEF Looked
  <2>. QED
    BY <2>1, <2>2
<1>6. ForemanKeys'
  <2>1. CASE names[n] = <<"foreman">>
    <3>1. Looked("foreman")' = {} /\ cfg' = Unconfigured
      BY <1>1, <1>5, <2>1
    <3>. QED
      BY <3>1 DEF ForemanKeys, SetFrom
  <2>2. CASE names[n] # <<"foreman">>
    <3>1. Looked("foreman")' = Looked("foreman") /\ cfg' = cfg /\ line' = line
      BY <1>1, <1>5, <2>2
    <3>. QED
      BY <1>2, <3>1 DEF ForemanKeys
  <2>. QED
    BY <2>1, <2>2
<1>7. SshKeys'
  <2>1. CASE names[n] = <<"ssh">>
    <3>1. Looked("ssh")' = {} /\ ssh_cfg' = SshUnconfigured
      BY <1>1, <1>5, <2>1
    <3>. QED
      BY <3>1 DEF SshKeys, SetFrom
  <2>2. CASE names[n] # <<"ssh">>
    <3>1. Looked("ssh")' = Looked("ssh") /\ ssh_cfg' = ssh_cfg /\ line' = line
      BY <1>1, <1>5, <2>2
    <3>. QED
      BY <1>2, <3>1 DEF SshKeys
  <2>. QED
    BY <2>1, <2>2
<1>. QED
  BY <1>1, <1>2, <1>3, <1>4, <1>6, <1>7, LeftStays DEF MainInv

LEMMA ConfigSeeks ==
    ASSUME MainInv, ParseForKey
    PROVE  MainInv'
<1>. DEFINE option == [short |-> NoText, long |-> Keys(names[n])[k], has_param |-> TRUE]
<1>1. /\ main = "keys" /\ main' = "key" /\ k <= Len(Keys(names[n]))
      /\ UNCHANGED <<line, left, names, n, k, cfg, ssh_cfg>>
      /\ CopaStart(left, <<option>>)
  BY DEF ParseForKey, foremanVars, pluginVars
<1>2. LeftInv /\ ForemanKeys /\ SshKeys /\ LoopInv
  BY <1>1 DEF MainInv, InMain
<1>3. ParseInv' /\ LoopInv'
  BY <1>1, <1>2 DEF ParseInv, LoopInv
<1>4. k \in 1..Len(Keys(names[n]))
  BY <1>1, <1>2, KeyNames DEF LoopInv
<1>5. Keys(names[n])[k] # << >>
  <2>1. PICK plugin, key : Keys(names[n])[k] = <<plugin, key>>
    BY <1>4, KeyNames
  <2>. QED
    BY <2>1
<1>6. argv' = left /\ Len(opts') = 1 /\ opts'[1] = option
  BY <1>1 DEF CopaStart
<1>7. KeyParser' /\ opts'[1].long = Keys(names[n])[k]
  BY <1>5, <1>6 DEF KeyParser
<1>8. ValuesInv'
  <2>. HIDE DEF option
  <2>1. Len(<<option>>) = 1
    OBVIOUS
  <2>. QED
    BY <1>1, <2>1, KeyStarts
<1>9. KeyInv'
  BY <1>1, <1>4, <1>6, <1>7, <1>8 DEF KeyInv
<1>. QED
  BY <1>1, <1>2, <1>3, <1>9, LeftStays, KeysStay DEF MainInv, AtKeys

LEMMA ConfigGoesOn ==
    ASSUME MainInv, NextPlugin \/ BeginCollect
    PROVE  MainInv'
<1>1. LeftInv /\ ForemanKeys /\ SshKeys /\ LoopInv
  BY DEF NextPlugin, BeginCollect, MainInv, InMain
<1>2. UNCHANGED <<line, left, names, k, cfg, ssh_cfg>>
  BY DEF NextPlugin, BeginCollect, foremanVars, pluginVars
<1>3. CASE BeginCollect
  <2>1. main = "load" /\ main' = "collect" /\ n' = n /\ n > Len(names)
    BY <1>3 DEF BeginCollect
  <2>2. ParseInv' /\ KeyInv' /\ LoopInv'
    BY <1>1, <1>2, <2>1 DEF ParseInv, KeyInv, LoopInv
  <2>. QED
    BY <1>1, <1>2, <2>1, <2>2, LeftStays, KeysStay DEF MainInv, AtKeys
<1>4. CASE NextPlugin
  <2>1. main = "keys" /\ main' = "load" /\ n' = n + 1 /\ k > Len(Keys(names[n]))
    BY <1>4 DEF NextPlugin
  <2>2. ParseInv' /\ KeyInv' /\ LoopInv'
    BY <1>1, <1>2, <2>1 DEF ParseInv, KeyInv, LoopInv
  <2>3. ASSUME NEW plugin PROVE Looked(plugin)' = Looked(plugin)
    <3>1. Looked(plugin)' = IF \E j \in 1..n : names[j] = <<plugin>>
                            THEN ToSet(Keys(<<plugin>>)) ELSE {}
      <4>1. n' - 1 = n
        BY <1>1, <2>1 DEF LoopInv
      <4>2. Looked(plugin)' = IF \E j \in 1..(n' - 1) : names'[j] = <<plugin>>
                              THEN ToSet(Keys(<<plugin>>)) ELSE {}
        BY <2>1 DEF Looked
      <4>. QED
        BY <1>2, <4>1, <4>2
    <3>2. CASE names[n] = <<plugin>>
      <4>1. n \in 1..n
        BY <1>1 DEF LoopInv
      <4>2. {m \in 1..Len(Keys(<<plugin>>)) : m < k} = 1..Len(Keys(<<plugin>>))
        <5>1. Len(Keys(<<plugin>>)) \in Nat
          BY KeyNames
        <5>2. k \in Nat /\ Len(Keys(<<plugin>>)) < k
          BY <1>1, <2>1, <3>2, <5>1 DEF LoopInv
        <5>3. \A m \in 1..Len(Keys(<<plugin>>)) : m < k
          BY <5>1, <5>2
        <5>. QED
          BY <5>3
      <4>3. Looked(plugin) = ToSet(Keys(<<plugin>>))
        BY <2>1, <3>2, <4>2, KeyNames DEF Looked
      <4>. QED
        BY <3>1, <3>2, <4>1, <4>3
    <3>3. CASE names[n] # <<plugin>>
      <4>1. (\E j \in 1..n : names[j] = <<plugin>>)
                <=> (\E j \in 1..(n - 1) : names[j] = <<plugin>>)
        <5>1. \A j \in 1..n : j = n \/ j \in 1..(n - 1)
          BY <1>1 DEF LoopInv
        <5>2. 1..(n - 1) \subseteq 1..n
          BY <1>1 DEF LoopInv
        <5>. QED
          BY <3>3, <5>1, <5>2
      <4>2. Looked(plugin) = IF \E j \in 1..(n - 1) : names[j] = <<plugin>>
                             THEN ToSet(Keys(<<plugin>>)) ELSE {}
        BY <3>3 DEF Looked
      <4>. QED
        BY <3>1, <4>1, <4>2
    <3>. QED
      BY <3>2, <3>3
  <2>4. ForemanKeys' /\ SshKeys'
    <3>1. Looked("foreman")' = Looked("foreman") /\ Looked("ssh")' = Looked("ssh")
      BY <2>3
    <3>. QED
      BY <1>1, <1>2, <3>1 DEF ForemanKeys, SshKeys
  <2>. QED
    BY <1>1, <1>2, <2>2, <2>4, LeftStays DEF MainInv
<1>. QED
  BY <1>3, <1>4

\* What SetKey does with the key that was looked for.
LEMMA KeyIsSet ==
    ASSUME ConfigInv, SetKey
    PROVE  \E plugin, option, text :
              /\ names[n] = <<plugin>>
              /\ Keys(names[n])[k] = <<plugin, option>>
              /\ \/ /\ Behind(BeforeDashes(line), <<plugin, option>>, text)
                    /\ Sets(<<plugin, option>>, text)
                 \/ /\ ~DirectlyBehind(BeforeDashes(line), <<plugin, option>>)
                    /\ UNCHANGED <<cfg, ssh_cfg>>
<1>1. main = "key" /\ parser = "done" /\ CopaInv /\ ResultsInv /\ LeftInv /\ line \in Seq(Word)
  BY DEF ConfigInv, ParserInv, MainInv, InMain, LoopInv, SetKey, AtKey
<1>2. /\ argv = left /\ k \in 1..Len(Keys(names[n]))
      /\ KeyParser /\ opts[1].long = Keys(names[n])[k]
      /\ ValuesInv
  BY <1>1 DEF ConfigInv, MainInv, KeyInv
<1>3. PICK plugin, option :
        names[n] = <<plugin>> /\ Keys(names[n])[k] = <<plugin, option>>
  BY <1>2, KeyNames
<1>4. opts[1].long = <<plugin, option>> /\ Len(opts) = 1
  BY <1>2, <1>3 DEF KeyParser
<1>5. CASE values[1] # << >>
  <2>1. Behind(BeforeDashes(line), opts[1].long, Last(values[1]).text)
    BY <1>1, <1>2, <1>4, <1>5, ValueIsBehind
  <2>2. given[1]
    BY <1>2, <1>5 DEF ValuesInv
  <2>3. Sets(Keys(names[n])[k], Last(values[1]).text)
    BY <1>5, <2>2 DEF SetKey
  <2>4. /\ Behind(BeforeDashes(line), <<plugin, option>>, Last(values[1]).text)
        /\ Sets(<<plugin, option>>, Last(values[1]).text)
    BY <1>3, <1>4, <2>1, <2>3
  <2>. QED
    BY <1>3, <2>4
<1>6. CASE values[1] = << >>
  <2>1. Len(opts[1].long) = 2
    BY <1>4
  <2>2. ~DirectlyBehind(BeforeDashes(line), opts[1].long)
    BY <1>1, <1>2, <1>6, <2>1, NoValueNoWord
  <2>3. UNCHANGED <<cfg, ssh_cfg>>
    BY <1>6 DEF SetKey
  <2>4. ~DirectlyBehind(BeforeDashes(line), <<plugin, option>>)
    BY <1>4, <2>2
  <2>. QED
    BY <1>3, <2>3, <2>4
<1>. QED
  BY <1>5, <1>6

\* The key has been looked for, and no other one.
LEMMA LookedAt ==
    ASSUME LoopInv, main = "key", main' = "keys", k' = k + 1, UNCHANGED <<names, n>>,
           NEW name, NEW plugin, NEW option,
           names[n] = <<plugin>>, Keys(names[n])[k] = <<plugin, option>>
    PROVE  /\ Looked(name)' \subseteq Looked(name) \union {<<plugin, option>>}
           /\ name # plugin => Looked(name)' = Looked(name)
<1>1. CASE name = plugin
  <2>1. /\ Looked(name) = {Keys(<<name>>)[j] : j \in {m \in 1..Len(Keys(<<name>>)) : m < k}}
        /\ Looked(name)' = {Keys(<<name>>)[j] : j \in {m \in 1..Len(Keys(<<name>>)) : m < k + 1}}
    BY <1>1 DEF Looked
  <2>2. \A m \in 1..Len(Keys(<<name>>)) : m < k + 1 => m < k \/ m = k
    <3>1. k \in Nat
      BY DEF LoopInv
    <3>. QED
      BY <3>1
  <2>3. Keys(<<name>>)[k] = <<plugin, option>>
    BY <1>1
  <2>. QED
    BY <1>1, <2>1, <2>2, <2>3
<1>2. CASE name # plugin
  <2>1. names[n] # <<name>>
    BY <1>2
  <2>2. Looked(name)' = Looked(name)
    BY <2>1 DEF Looked
  <2>. QED
    BY <1>2, <2>2
<1>. QED
  BY <1>1, <1>2

LEMMA ConfigSets ==
    ASSUME ConfigInv, SetKey
    PROVE  MainInv'
<1>1. /\ main = "key" /\ main' = "keys" /\ k' = k + 1 /\ UNCHANGED <<line, left, names, n>>
      /\ LeftInv /\ ForemanKeys /\ SshKeys /\ LoopInv
  BY DEF ConfigInv, MainInv, InMain, SetKey, AtKey
<1>2. ParseInv' /\ KeyInv' /\ LoopInv'
  BY <1>1 DEF ParseInv, KeyInv, LoopInv
<1>3. PICK plugin, option, text :
              /\ names[n] = <<plugin>>
              /\ Keys(names[n])[k] = <<plugin, option>>
              /\ \/ /\ Behind(BeforeDashes(line), <<plugin, option>>, text)
                    /\ Sets(<<plugin, option>>, text)
                 \/ /\ ~DirectlyBehind(BeforeDashes(line), <<plugin, option>>)
                    /\ UNCHANGED <<cfg, ssh_cfg>>
  BY KeyIsSet
<1>4. \A name : /\ Looked(name)' \subseteq Looked(name) \union {<<plugin, option>>}
                /\ name # plugin => Looked(name)' = Looked(name)
  BY <1>1, <1>3, LookedAt
<1>5. ForemanKeys'
  <2>1. CASE plugin = "foreman"
    <3>1. \/ /\ cfg' = [cfg EXCEPT ![option] = text]
             /\ Behind(BeforeDashes(line), <<"foreman", option>>, text)
          \/ cfg' = cfg /\ ~DirectlyBehind(BeforeDashes(line), <<"foreman", option>>)
      BY <1>3, <2>1 DEF Sets
    <3>2. SetFrom(line, Looked("foreman"), cfg, Unconfigured, "foreman")
      BY <1>1 DEF ForemanKeys
    <3>3. Looked("foreman")' \subseteq Looked("foreman") \union {<<"foreman", option>>}
      BY <1>4, <2>1
    <3>4. SetFrom(line, Looked("foreman")', cfg', Unconfigured, "foreman")
      BY <3>1, <3>2, <3>3, OneMoreKey
    <3>. QED
      BY <1>1, <3>4 DEF ForemanKeys
  <2>2. CASE plugin # "foreman"
    <3>1. cfg' = cfg
      BY <1>3, <2>2 DEF Sets
    <3>2. Looked("foreman")' = Looked("foreman")
      BY <1>4, <2>2
    <3>. QED
      BY <1>1, <3>1, <3>2 DEF ForemanKeys
  <2>. QED
    BY <2>1, <2>2
<1>6. SshKeys'
  <2>1. CASE plugin = "ssh"
    <3>1. \/ /\ ssh_cfg' = [ssh_cfg EXCEPT ![option] = text]
             /\ Behind(BeforeDashes(line), <<"ssh", option>>, text)
          \/ ssh_cfg' = ssh_cfg /\ ~DirectlyBehind(BeforeDashes(line), <<"ssh", option>>)
      BY <1>3, <2>1 DEF Sets
    <3>2. SetFrom(line, Looked("ssh"), ssh_cfg, SshUnconfigured, "ssh")
      BY <1>1 DEF SshKeys
    <3>3. Looked("ssh")' \subseteq Looked("ssh") \union {<<"ssh", option>>}
      BY <1>4, <2>1
    <3>4. SetFrom(line, Looked("ssh")', ssh_cfg', SshUnconfigured, "ssh")
      BY <3>1, <3>2, <3>3, OneMoreKey
    <3>. QED
      BY <1>1, <3>4 DEF SshKeys
  <2>2. CASE plugin # "ssh"
    <3>1. ssh_cfg' = ssh_cfg
      BY <1>3, <2>2 DEF Sets
    <3>2. Looked("ssh")' = Looked("ssh")
      BY <1>4, <2>2
    <3>. QED
      BY <1>1, <3>1, <3>2 DEF SshKeys
  <2>. QED
    BY <2>1, <2>2
<1>. QED
  BY <1>1, <1>2, <1>5, <1>6, LeftStays DEF MainInv

-----------------------------------------------------------------------------
(* The configuration in distexec *)

LEMMA ConfigSteps ==
    ASSUME ConfigInv, MainStep
    PROVE  MainInv'
<1>1. MainInv
  BY DEF ConfigInv
<1>2. CASE \/ ParserEnds \/ RequireFails \/ LogOptionFails \/ HelpOrVersion \/ CallbackFails
           \/ SetKeyToNull \/ ConcurrentFails \/ CollectEnds \/ NoCommand \/ JoinCommand
  BY <1>1, <1>2, ConfigFails
<1>3. CASE CallForeman \/ CallDummy \/ ForemanStep
  BY <1>1, <1>3, ConfigCollects
<1>4. CASE NextPlugin \/ BeginCollect
  BY <1>1, <1>4, ConfigGoesOn
<1>5. CASE ParseStep
  BY <1>5, ConfigParses
<1>6. CASE BeginPlugins
  BY <1>6, ConfigBegins
<1>7. CASE LoadPlugin \/ ParseForKey
  BY <1>1, <1>7, ConfigLoads, ConfigSeeks
<1>8. CASE SetKey
  BY <1>8, ConfigSets
<1>. QED
  BY <1>2, <1>3, <1>4, <1>5, <1>6, <1>7, <1>8 DEF MainStep

\* What a step of main does with the parser's results.
LEMMA ResultSteps ==
    ASSUME ConfigInv, MainStep
    PROVE  UnknownInv' /\ FollowInv' /\ ResultsInv'
<1>1. CopaInv /\ UnknownInv /\ FollowInv /\ ResultsInv
  BY DEF ConfigInv, ParserInv
<1>2. CASE ParseStep
  BY <1>1, <1>2, UnknownKeeps, ResultsKeep DEF ParseStep
<1>3. CASE \/ ParserEnds \/ RequireFails \/ LogOptionFails \/ HelpOrVersion \/ CallbackFails
           \/ SetKeyToNull \/ ConcurrentFails \/ CollectEnds \/ NoCommand \/ JoinCommand
  <2>1. UNCHANGED copaVars
    BY <1>3 DEF ParserEnds, RequireFails, LogOptionFails, HelpOrVersion, CallbackFails,
                SetKeyToNull, ConcurrentFails, CollectEnds, NoCommand, JoinCommand, EndsWith
  <2>. QED
    BY <1>1, <2>1, UnknownStutters
<1>4. CASE LoadPlugin \/ NextPlugin \/ BeginCollect \/ CallForeman \/ CallDummy \/ ForemanStep
  <2>1. UNCHANGED copaVars
    BY <1>4 DEF LoadPlugin, NextPlugin, BeginCollect, CallForeman, CallDummy, ForemanStep
  <2>. QED
    BY <1>1, <2>1, UnknownStutters
<1>5. CASE BeginPlugins \/ SetKey
  <2>1. CopaStart(<< >>, << >>) /\ Len(<< >>) \in Nat
    BY <1>5 DEF BeginPlugins, SetKey
  <2>. QED
    BY <2>1, UnknownStartsAnew
<1>6. CASE ParseForKey
  <2>. DEFINE o == <<[short |-> NoText, long |-> Keys(names[n])[k], has_param |-> TRUE]>>
  <2>1. CopaStart(left, o) /\ Len(o) \in Nat
    BY <1>6 DEF ParseForKey
  <2>. HIDE DEF o
  <2>. QED
    BY <2>1, UnknownStartsAnew
<1>. QED
  BY <1>2, <1>3, <1>4, <1>5, <1>6 DEF MainStep

LEMMA ConfigInit == Init => ConfigInv
<1>. SUFFICES ASSUME Init PROVE ConfigInv
  OBVIOUS
<1>1. \E w \in Seq(Word) : \E unset : MainInit(w, unset)
  <2>1. CASE Distexec
    BY <2>1, ProgramsAssumption DEF Distexec
  <2>2. CASE TestUri \/ TestPopen3
    <3>1. << >> \in Seq(Word)
      OBVIOUS
    <3>. QED
      BY <2>2, <3>1 DEF TestUri, TestPopen3, Idle
  <2>. QED
    BY <2>1, <2>2 DEF Init
<1>2. PICK w \in Seq(Word) : \E unset : MainInit(w, unset)
  BY <1>1
<1>3. PICK unset : MainInit(w, unset)
  BY <1>2
<1>4. Parser(w, Options(unset)) /\ line = w /\ main = "parse" /\ names = << >> /\ n = 1 /\ k = 1
      /\ ssh_cfg = SshUnconfigured
  BY <1>3 DEF MainInit
<1>5. Len(Options(unset)) = 14 /\ \A o \in 1..14 : Len(Options(unset)[o].long) = 1
  BY OptionFacts
<1>6. UnknownInv /\ FollowInv /\ ResultsInv
  BY <1>4, <1>5, UnknownStarts
<1>7. cfg = Unconfigured
  BY DEF Init, Distexec, TestUri, TestPopen3, Idle, ForemanInit
<1>8. argv = line /\ opts = Options(unset)
  BY <1>4 DEF Parser
<1>9. ParseInv /\ KeyInv
  BY <1>4, <1>5, <1>7, <1>8 DEF ParseInv, KeyInv
<1>10. LoopInv
  <2>1. << >> \in Seq(Seq(Symbols))
    OBVIOUS
  <2>. QED
    BY <1>4, <2>1 DEF LoopInv
<1>11. ~InMain
  BY <1>4 DEF InMain
<1>. QED
  BY <1>6, <1>9, <1>10, <1>11, ParserInit DEF ConfigInv, MainInv

LEMMA ConfigStep == ConfigInv /\ [Next]_vars => ConfigInv'
<1>. SUFFICES ASSUME ConfigInv, [Next]_vars PROVE ConfigInv'
  OBVIOUS
<1>1. ParserInv'
  BY ParserStep DEF ConfigInv
<1>2. CASE DistexecStep
  <2>1. MainStep
    BY <1>2 DEF DistexecStep
  <2>. QED
    BY <1>1, <2>1, ConfigSteps, ResultSteps DEF ConfigInv
<1>3. CASE AnswerStep
  <2>1. ServerStep /\ UNCHANGED copaVars
    BY <1>3 DEF AnswerStep, ServerStep
  <2>2. MainInv'
    BY <2>1, ConfigCollects DEF ConfigInv
  <2>. QED
    BY <1>1, <2>1, <2>2, UnknownStutters DEF ConfigInv
<1>4. CASE UriStep \/ PopenStep \/ UNCHANGED vars
  <2>1. UNCHANGED <<line, left, names, n, k, cfg, ssh_cfg, main>> /\ UNCHANGED copaVars
    BY <1>4 DEF UriStep, PopenStep, vars, commandVars, mainVars, foremanVars, pluginVars
  <2>2. MainInv'
    BY <2>1, MainStutters DEF ConfigInv
  <2>. QED
    BY <1>1, <2>1, <2>2, UnknownStutters DEF ConfigInv
<1>. QED
  BY <1>2, <1>3, <1>4 DEF Next, Terminated

\* The keys of each plugin on the line have been looked for when nodes are collected.
LEMMA AllLookedFor ==
    ASSUME LoopInv, main \in {"collect", "execute"},
           NEW config, NEW default, NEW plugin,
           SetFrom(line, Looked(plugin), config, default, plugin)
    PROVE  ConfiguredFrom(config, default, plugin)
<1>1. <<plugin>> \in ToSet(names) => Looked(plugin) = ToSet(Keys(<<plugin>>))
  <2>1. SUFFICES ASSUME <<plugin>> \in ToSet(names)
                 PROVE  Looked(plugin) = ToSet(Keys(<<plugin>>))
    OBVIOUS
  <2>2. PICK j \in 1..Len(names) : names[j] = <<plugin>>
    <3>1. names \in Seq(Seq(Symbols))
      BY DEF LoopInv
    <3>2. DOMAIN names = 1..Len(names)
      BY <3>1
    <3>. QED
      BY <2>1, <3>2 DEF ToSet
  <2>3. j \in 1..(n - 1)
    BY DEF LoopInv
  <2>. QED
    BY <2>2, <2>3 DEF Looked
<1>2. ASSUME NEW key \in DOMAIN config
      PROVE  /\ config[key] # default[key] =>
                    Behind(BeforeDashes(line), <<plugin, key>>, config[key])
             /\ (<<plugin, key>> \in ToSet(Keys(<<plugin>>)) /\ <<plugin>> \in ToSet(names)
                 /\ DirectlyBehind(BeforeDashes(line), <<plugin, key>>)) =>
                    \E a \in DOMAIN BeforeDashes(line) : BeforeDashes(line)[a].text = config[key]
  BY <1>1, <1>2 DEF SetFrom
<1>. QED
  BY <1>2 DEF ConfiguredFrom

\* "supply config parameters" (main.c:111-112): when the nodes are collected, a
\* plugin's configuration is its defaults and words that stand behind its options
\* on the line, and no option with a word directly behind it was passed over,
\* whatever else is on the line and however often the plugin is loaded.
THEOREM ConfigFollowsLine == FairSpec => []ConfigFromLine
<1>1. ConfigInv => ConfigFromLine
  <2>1. SUFFICES ASSUME ConfigInv, main \in {"collect", "execute"}
                 PROVE  /\ ConfiguredFrom(cfg, Unconfigured, "foreman")
                        /\ ConfiguredFrom(ssh_cfg, SshUnconfigured, "ssh")
    BY DEF ConfigFromLine
  <2>2. LoopInv /\ ForemanKeys /\ SshKeys
    BY <2>1 DEF ConfigInv, MainInv, InMain
  <2>. QED
    BY <2>1, <2>2, AllLookedFor DEF ForemanKeys, SshKeys
<1>. QED
  BY <1>1, ConfigInit, ConfigStep, PTL DEF FairSpec

-----------------------------------------------------------------------------
(* test-popen3: why it cannot end well with the script it runs *)

(***************************************************************************)
(* With the script's one answer: until the second line the test waits for  *)
(* comes, the script has either not answered yet or has given its only     *)
(* answer; that line then never comes, unless the script has ended.        *)
(***************************************************************************)
Stuck ==
    /\ test \in {"popen", "write 1", "r1", "r2", "write 2", "aborted", "killed"}
    /\ child \in {"none", "exec", "read 1", "echo 1", "echo err", "read 2", "ended"}
    /\ test = "popen" => child = "none" /\ in = << >>
    /\ test = "write 1" => child \in {"exec", "read 1", "ended"} /\ in = << >>
    /\ child \in {"none", "exec", "read 1"} => in \in {<< >>, <<"this is a test", "nul">>}
    /\ child \in {"echo 1", "echo err", "read 2"} => in = <<"nul">>
    /\ out \in {<< >>, <<"r1">>}
    /\ child \in {"none", "exec", "read 1", "echo 1"} => out = << >>
    /\ test = "r2" => child = "ended" \/ (child \in {"echo err", "read 2"} /\ out = << >>)
    /\ test = "write 2" => ChildEnded

PopenInv == answers = InScript => Stuck

Line1 == <<"this is a test", "nul">>

\* The 0 is left when the line before it was read.
LEMMA FirstLine == SubSeq(Line1, 2, Len(Line1)) = <<"nul">>
<1>1. Line1 \in Seq({"this is a test", "nul"}) /\ Len(Line1) = 2 /\ Line1[2] = "nul"
  BY DEF Line1
<1>2. \A a \in 2..2 : Line1[a] \in {"nul"}
  <2>1. 2..2 = {2}
    OBVIOUS
  <2>. QED
    BY <1>1, <2>1
<1>3. /\ SubSeq(Line1, 2, 2) \in Seq({"nul"})
      /\ Len(SubSeq(Line1, 2, 2)) = 1
  BY <1>2, SubSeqProperties
<1>4. SubSeq(Line1, 2, 2)[1] = "nul"
  BY <1>3
<1>5. <<"nul">> \in Seq({"nul"}) /\ Len(<<"nul">>) = 1 /\ <<"nul">>[1] = "nul"
  OBVIOUS
<1>6. \A a \in 1..Len(SubSeq(Line1, 2, 2)) : SubSeq(Line1, 2, 2)[a] = <<"nul">>[a]
  BY <1>3, <1>4, <1>5
<1>7. SubSeq(Line1, 2, 2) = <<"nul">>
  BY <1>3, <1>5, <1>6, SeqEqual
<1>. QED
  BY <1>1, <1>7

\* A line can be read only before the script has read the first one.
LEMMA Readable ==
    ASSUME Stuck, NEW from, NEW to, ScriptReads(from, to), from # "ended"
    PROVE  in = Line1 /\ in' = <<"nul">>
<1>1. PICK a \in DOMAIN in :
        /\ in[a] # "nul"
        /\ in' = SubSeq(in, a + 1, Len(in))
  BY DEF ScriptReads
<1>2. in # << >> /\ in # <<"nul">>
  <2>1. DOMAIN << >> = {} /\ DOMAIN <<"nul">> = {1} /\ <<"nul">>[1] = "nul"
    OBVIOUS
  <2>. QED
    BY <1>1, <2>1
<1>3. in = Line1
  BY <1>2 DEF ScriptReads, Stuck, Line1
<1>4. a = 1
  <2>1. DOMAIN Line1 = {1, 2} /\ Line1[2] = "nul"
    BY DEF Line1
  <2>. QED
    BY <1>1, <1>3, <2>1
<1>. QED
  BY <1>1, <1>3, <1>4, FirstLine

LEMMA PopenStart == PopenInit => PopenInv
  BY DEF PopenInit, PopenInv, Stuck, ChildEnded

LEMMA TestKeeps ==
    ASSUME Stuck, answers = InScript, TestNext
    PROVE  Stuck'
<1>1. CASE PopenFails \/ Fork \/ FdopenFails
  BY <1>1 DEF PopenFails, Fork, FdopenFails, Stuck, ChildEnded, pipeVars
<1>2. CASE Write1
  <2>1. << >> \o <<"this is a test", "nul">> = <<"this is a test", "nul">>
    OBVIOUS
  <2>. QED
    BY <1>2, <2>1 DEF Write1, Writes, Stuck, ChildEnded
<1>3. CASE ReadR1 \/ ReadR2
  <2>1. AfterLine(<< >>) = << >> /\ AfterLine(<<"r1">>) = << >>
    BY DEF AfterLine
  <2>2. out' = << >> /\ UNCHANGED <<answers, child, in, err>> /\ HasLine(out)
    BY <1>3, <2>1 DEF ReadR1, ReadR2, ReadsOut, Stuck
  <2>. QED
    BY <1>3, <2>2 DEF ReadR1, ReadR2, ReadsOut, HasLine, Stuck, ChildEnded
<1>4. CASE Write2
  BY <1>4 DEF Write2, Writes, Stuck, ChildEnded
<1>5. ~(ReadR3 \/ ReadErr \/ Wait)
  BY DEF ReadR3, ReadsOut, ReadErr, Wait, Stuck
<1>. QED
  BY <1>1, <1>2, <1>3, <1>4, <1>5 DEF TestNext

LEMMA ChildKeeps ==
    ASSUME Stuck, answers = InScript, ChildNext
    PROVE  Stuck'
<1>1. CASE Exec \/ ExecFails
  BY <1>1 DEF Exec, ExecFails, Stuck, ChildEnded, pipeVars, TestEnded
<1>2. CASE OrphanEnds
  BY <1>2 DEF OrphanEnds, Stuck, ChildEnded, pipeVars, TestEnded
<1>3. CASE ReadLine
  <2>1. in = Line1 /\ in' = <<"nul">>
    BY <1>3, Readable DEF ReadLine
  <2>2. in # << >>
    BY <2>1 DEF Line1
  <2>. QED
    BY <1>3, <2>1, <2>2 DEF ReadLine, ScriptReads, Stuck, ChildEnded
<1>4. CASE Echo1
  <2>1. [a \in 1..1 |-> "r1"] = <<"r1">>
    OBVIOUS
  <2>2. << >> \o <<"r1">> = <<"r1">>
    OBVIOUS
  <2>3. out = << >> /\ answers = 1
    BY <1>4 DEF Echo1, Stuck, InScript
  <2>4. out' = <<"r1">>
    BY <1>4, <2>1, <2>2, <2>3 DEF Echo1
  <2>. QED
    BY <1>4, <2>4 DEF Echo1, Stuck, ChildEnded
<1>5. CASE EchoErr
  BY <1>5 DEF EchoErr, Stuck, ChildEnded
<1>6. ~ReadSecond
  <2>1. SUFFICES ASSUME ReadSecond PROVE FALSE
    OBVIOUS
  <2>2. in = Line1 /\ in = <<"nul">>
    BY <2>1, Readable DEF ReadSecond, ScriptReads, Stuck
  <2>3. Len(Line1) = 2 /\ Len(<<"nul">>) = 1
    BY DEF Line1
  <2>. QED
    BY <2>2, <2>3
<1>7. ~Echo2
  BY DEF Echo2, Stuck
<1>. QED
  BY <1>1, <1>2, <1>3, <1>4, <1>5, <1>6, <1>7 DEF ChildNext

LEMMA PopenKeeps == PopenInv /\ PopenNext => PopenInv'
<1>1. PopenNext => answers' = answers
  BY DEF PopenNext, TestNext, ChildNext, PopenFails, Fork, FdopenFails, Write1, ReadR1,
         ReadR2, Write2, ReadR3, Writes, ReadsOut, ReadErr, Wait, Exec, ExecFails,
         OrphanEnds, ReadLine, Echo1, EchoErr, ReadSecond, Echo2, ScriptReads
<1>. QED
  BY <1>1, TestKeeps, ChildKeeps DEF PopenInv, PopenNext, InScript

LEMMA PopenStutters == PopenInv /\ UNCHANGED popenVars => PopenInv'
  BY DEF PopenInv, Stuck, ChildEnded, InScript, popenVars, pipeVars

LEMMA StuckNeverPasses == PopenInv => NeverPasses
  BY DEF PopenInv, Stuck, NeverPasses

LEMMA PopenInitially == Init => PopenInv
  BY PopenStart DEF Init, Distexec, TestUri, TestPopen3

LEMMA PopenStepKeeps == PopenInv /\ [Next]_vars => PopenInv'
<1>1. [Next]_vars => PopenNext \/ UNCHANGED popenVars
  BY DEF Next, DistexecStep, AnswerStep, UriStep, PopenStep, Terminated, vars
<1>. QED
  BY <1>1, PopenKeeps, PopenStutters

\* The test never returns 0 with the script of one answer (test-popen3.c:56-71).
THEOREM TestNeverPasses == FairSpec => []NeverPasses
  BY PopenInitially, PopenStepKeeps, StuckNeverPasses, PTL DEF FairSpec

-----------------------------------------------------------------------------
(* The number of a page, as it is written and read *)

\* The signs a number is written with.
Numerals == ToSet(Digits)

DigitOf(c) == CHOOSE d \in 0..9 : Digits[d + 1] = c

\* The function by which a number is read.
Counts(f, v) == f = [j \in 0..Len(v) |-> IF j = 0 THEN 0 ELSE 10 * f[j - 1] + DigitOf(v[j])]

LEMMA NumberOfEqn ==
    ASSUME NEW v
    PROVE  NumberOf(v) = (CHOOSE f : Counts(f, v))[Len(v)]
  BY Zenon DEF NumberOf, Counts, DigitOf

\* No two digits are written alike.
LEMMA DigitFacts ==
    /\ \A d \in 0..9 : Digits[d + 1] \in Numerals /\ DigitOf(Digits[d + 1]) = d
    /\ \A c \in Numerals : DigitOf(c) \in 0..9
    /\ Numerals \subseteq Symbols
<1>1. DOMAIN Digits = 1..10
  BY DEF Digits
<1>2. \A d, e \in 0..9 : Digits[d + 1] = Digits[e + 1] => d = e
  BY DEF Digits
<1>3. \A d \in 0..9 : d + 1 \in 1..10
  OBVIOUS
<1>4. Numerals = {Digits[j] : j \in 1..10}
  BY <1>1 DEF Numerals, ToSet
<1>5. \A c \in Numerals : \E d \in 0..9 : Digits[d + 1] = c
  <2>1. \A j \in 1..10 : j - 1 \in 0..9 /\ (j - 1) + 1 = j
    OBVIOUS
  <2>. QED
    BY <1>4, <2>1
<1>6. \A d \in 0..9 : DigitOf(Digits[d + 1]) = d
  BY <1>2 DEF DigitOf
<1>7. \A c \in Numerals : DigitOf(c) \in 0..9
  BY <1>5, <1>6
<1>8. Numerals \subseteq Symbols
  BY ForemanAssumption DEF Numerals
<1>. QED
  BY <1>3, <1>4, <1>6, <1>7, <1>8

LEMMA CountsExists ==
    ASSUME NEW v \in Seq(Numerals)
    PROVE  \E f : Counts(f, v) /\ f \in [0..Len(v) -> Nat]
<1>. DEFINE last == Len(v)
            step == [j \in 1..last |-> [b \in Nat |-> 10 * b + DigitOf(v[j])]]
<1>1. last \in Nat /\ \A j \in 1..last : DigitOf(v[j]) \in Nat
  <2>1. PICK N : N = Numerals
    OBVIOUS
  <2>2. v \in Seq(N)
    BY <2>1
  <2>3. last \in Nat /\ \A j \in 1..last : v[j] \in N
    BY <2>2
  <2>. QED
    BY <2>1, <2>3, DigitFacts
<1>2. step \in [1..last -> [Nat -> Nat]]
  BY <1>1
<1>3. PICK f : Recurses(f, Nat, 0, last, step)
  <2>. HIDE DEF last, step
  <2>. QED
    BY <1>1, <1>2, RecursiveFunction
<1>4. /\ f \in [0..last -> Nat] /\ f[0] = 0
      /\ \A j \in 1..last : f[j] = step[j][f[j - 1]]
  BY <1>3 DEF Recurses
<1>5. ASSUME NEW j \in 0..last
      PROVE  f[j] = IF j = 0 THEN 0 ELSE 10 * f[j - 1] + DigitOf(v[j])
  <2>1. CASE j = 0
    BY <1>4, <2>1
  <2>2. CASE j # 0
    <3>1. j \in 1..last /\ j - 1 \in 0..last
      BY <1>1, <2>2
    <3>. QED
      BY <1>4, <2>2, <3>1
  <2>. QED
    BY <2>1, <2>2
<1>6. f = [j \in 0..last |-> IF j = 0 THEN 0 ELSE 10 * f[j - 1] + DigitOf(v[j])]
  BY <1>4, <1>5
<1>. QED
  BY <1>4, <1>6 DEF Counts

\* The function that is chosen.
CountsOf(v) == CHOOSE f : Counts(f, v)

LEMMA CountsAre ==
    ASSUME NEW v \in Seq(Numerals)
    PROVE  /\ CountsOf(v)[0] = 0
           /\ \A j \in 1..Len(v) : CountsOf(v)[j] = 10 * CountsOf(v)[j - 1] + DigitOf(v[j])
           /\ NumberOf(v) = CountsOf(v)[Len(v)]
<1>. DEFINE f == CountsOf(v)
<1>1. Counts(f, v)
  BY CountsExists DEF CountsOf
<1>. HIDE DEF f
<1>2. \A j \in 0..Len(v) : f[j] = IF j = 0 THEN 0 ELSE 10 * f[j - 1] + DigitOf(v[j])
  BY <1>1, Zenon DEF Counts
<1>3. Len(v) \in Nat
  OBVIOUS
<1>4. 0 \in 0..Len(v) /\ \A j \in 1..Len(v) : j \in 0..Len(v) /\ j # 0
  BY <1>3
<1>5. f[0] = 0 /\ \A j \in 1..Len(v) : f[j] = 10 * f[j - 1] + DigitOf(v[j])
  BY <1>2, <1>4
<1>. QED
  BY <1>5, NumberOfEqn DEF f, CountsOf

\* One more digit.
LEMMA NumberAppended ==
    ASSUME NEW s \in Seq(Numerals), NEW c \in Numerals
    PROVE  /\ Append(s, c) \in Seq(Numerals)
           /\ NumberOf(Append(s, c)) = 10 * NumberOf(s) + DigitOf(c)
<1>. DEFINE v == Append(s, c)
            g == CountsOf(s)
            h == CountsOf(v)
            m == Len(s)
            S == {j \in Nat : j <= m => h[j] = g[j]}
<1>1. /\ v \in Seq(Numerals) /\ m \in Nat /\ Len(v) = m + 1 /\ v[m + 1] = c
      /\ \A j \in 1..m : v[j] = s[j]
  <2>1. PICK N : N = Numerals
    OBVIOUS
  <2>2. s \in Seq(N) /\ c \in N
    BY <2>1
  <2>3. v \in Seq(N) /\ Len(v) = m + 1 /\ v[m + 1] = c /\ \A j \in 1..m : v[j] = s[j]
    BY <2>2, AppendProperties
  <2>. QED
    BY <2>1, <2>2, <2>3
<1>. HIDE DEF v, m
<1>2. /\ g[0] = 0 /\ \A j \in 1..m : g[j] = 10 * g[j - 1] + DigitOf(s[j])
      /\ NumberOf(s) = g[m]
  BY CountsAre DEF m
<1>3. /\ h[0] = 0 /\ \A j \in 1..(m + 1) : h[j] = 10 * h[j - 1] + DigitOf(v[j])
      /\ NumberOf(v) = h[m + 1]
  BY <1>1, CountsAre
<1>. HIDE DEF g, h
<1>4. 0 \in S
  BY <1>2, <1>3
<1>5. ASSUME NEW j \in Nat, j \in S
      PROVE  j + 1 \in S
  <2>. SUFFICES ASSUME j + 1 <= m
                PROVE  h[j + 1] = g[j + 1]
    OBVIOUS
  <2>1. j + 1 \in 1..m /\ j + 1 \in 1..(m + 1) /\ (j + 1) - 1 = j /\ j <= m
    BY <1>1
  <2>2. h[j] = g[j]
    BY <1>5, <2>1
  <2>3. g[j + 1] = 10 * g[j] + DigitOf(s[j + 1])
    BY <1>2, <2>1
  <2>4. h[j + 1] = 10 * h[j] + DigitOf(v[j + 1])
    BY <1>3, <2>1
  <2>. QED
    BY <1>1, <2>1, <2>2, <2>3, <2>4
<1>6. \A j \in Nat : j \in S
  <2>. HIDE DEF S
  <2>. QED
    BY <1>4, <1>5, InductiveSet
<1>7. h[m] = g[m]
  BY <1>1, <1>6
<1>8. h[m + 1] = 10 * h[m] + DigitOf(c)
  <2>1. m + 1 \in 1..(m + 1) /\ (m + 1) - 1 = m
    BY <1>1
  <2>. QED
    BY <1>1, <1>3, <2>1
<1>9. NumberOf(v) = 10 * NumberOf(s) + DigitOf(c)
  BY <1>2, <1>3, <1>7, <1>8
<1>. QED
  BY <1>1, <1>9 DEF v

\* The function by which a number is written.
DigitsAt(f, q) ==
    IF q < 10 THEN <<Digits[q + 1]>> ELSE Append(f[q \div 10], Digits[(q % 10) + 1])

Spells(f, p) == f = [q \in 0..p |-> DigitsAt(f, q)]

LEMMA NumberEqn ==
    ASSUME NEW p
    PROVE  Number(p) = (CHOOSE f : Spells(f, p))[p]
  BY Zenon DEF Number, Spells, DigitsAt

LEMMA SpellsExists ==
    ASSUME NEW p \in Nat
    PROVE  \E f : Spells(f, p)
<1>. DEFINE S == {m \in Nat : \E f : Spells(f, m)}
<1>1. 0 \in S
  <2>. DEFINE f == [q \in 0..0 |-> <<Digits[1]>>]
  <2>1. \A q \in 0..0 : q = 0 /\ q < 10 /\ q + 1 = 1
    OBVIOUS
  <2>2. \A q \in 0..0 : DigitsAt(f, q) = <<Digits[1]>>
    BY <2>1 DEF DigitsAt
  <2>3. f = [q \in 0..0 |-> DigitsAt(f, q)]
    BY <2>2
  <2>. HIDE DEF f
  <2>4. Spells(f, 0)
    BY <2>3 DEF Spells
  <2>. QED
    BY <2>4
<1>2. ASSUME NEW m \in Nat, m \in S
      PROVE  m + 1 \in S
  <2>1. PICK f : Spells(f, m)
    BY <1>2
  <2>2. \A q \in 0..m : f[q] = DigitsAt(f, q)
    BY <2>1, Zenon DEF Spells
  <2>. DEFINE g == [q \in 0..(m + 1) |-> IF q <= m THEN f[q] ELSE DigitsAt(f, m + 1)]
  <2>3. \A q \in 0..(m + 1) : (q <= m => q \in 0..m) /\ (~(q <= m) => q = m + 1)
    OBVIOUS
  <2>4. \A q \in 0..(m + 1) : ~(q < 10) => q \div 10 \in 0..m /\ q \div 10 \in 0..(m + 1)
    OBVIOUS
  <2>5. \A q \in 0..m : g[q] = f[q]
    OBVIOUS
  <2>6. \A q \in 0..(m + 1) : DigitsAt(g, q) = DigitsAt(f, q)
    <3>. HIDE DEF g
    <3>. QED
      BY <2>4, <2>5 DEF DigitsAt
  <2>7. \A q \in 0..(m + 1) : g[q] = DigitsAt(f, q)
    BY <2>2, <2>3
  <2>8. g = [q \in 0..(m + 1) |-> DigitsAt(g, q)]
    <3>1. DOMAIN g = 0..(m + 1) /\ g = [q \in 0..(m + 1) |-> g[q]]
      OBVIOUS
    <3>. HIDE DEF g
    <3>. QED
      BY <2>6, <2>7, <3>1
  <2>. HIDE DEF g
  <2>9. Spells(g, m + 1)
    BY <2>8 DEF Spells
  <2>. QED
    BY <2>9
<1>3. \A m \in Nat : m \in S
  <2>. HIDE DEF S
  <2>. QED
    BY <1>1, <1>2, InductiveSet
<1>. QED
  BY <1>3

\* What is written is a text of digits, and means the number.
NumberRead(v, p) ==
    v \in Seq(Numerals) /\ v # << >> /\ NumberOf(v) = p

LEMMA NumberReads ==
    ASSUME NEW p \in Nat
    PROVE  NumberRead(Number(p), p)
<1>. DEFINE f == CHOOSE f : Spells(f, p)
            S == {m \in Nat : \A q \in 0..p : q <= m => NumberRead(f[q], q)}
<1>1. Spells(f, p)
  BY SpellsExists
<1>. HIDE DEF f
<1>2. \A q \in 0..p : f[q] = DigitsAt(f, q)
  BY <1>1, Zenon DEF Spells
<1>3. ASSUME NEW s \in Seq(Numerals), NEW d \in 0..9
      PROVE  NumberRead(Append(s, Digits[d + 1]), 10 * NumberOf(s) + d)
  <2>1. Digits[d + 1] \in Numerals /\ DigitOf(Digits[d + 1]) = d
    BY DigitFacts
  <2>2. PICK c : c = Digits[d + 1]
    OBVIOUS
  <2>3. Append(s, c) # << >>
    BY <2>1, <2>2, AppendProperties
  <2>4. NumberOf(Append(s, c)) = 10 * NumberOf(s) + d /\ Append(s, c) \in Seq(Numerals)
    BY <2>1, <2>2, NumberAppended
  <2>. QED
    BY <2>2, <2>3, <2>4, Zenon DEF NumberRead
<1>4. ASSUME NEW d \in 0..9
      PROVE  NumberRead(<<Digits[d + 1]>>, d)
  <2>1. << >> \in Seq(Numerals)
    OBVIOUS
  <2>2. NumberOf(<< >>) = 0
    <3>1. Len(<< >>) = 0
      OBVIOUS
    <3>. QED
      BY <2>1, <3>1, CountsAre
  <2>3. PICK c : c = Digits[d + 1]
    OBVIOUS
  <2>4. Append(<< >>, c) = <<c>>
    OBVIOUS
  <2>5. NumberRead(Append(<< >>, c), 10 * 0 + d)
    BY <1>3, <2>1, <2>2, <2>3
  <2>6. 10 * 0 + d = d
    OBVIOUS
  <2>. QED
    BY <2>3, <2>4, <2>5, <2>6, Zenon
<1>5. 0 \in S
  <2>1. 0 \in 0..p /\ 0 < 10 /\ 0 \in 0..9 /\ \A q \in 0..p : q <= 0 => q = 0
    OBVIOUS
  <2>2. f[0] = <<Digits[0 + 1]>>
    BY <1>2, <2>1 DEF DigitsAt
  <2>3. NumberRead(f[0], 0)
    BY <1>4, <2>1, <2>2
  <2>. QED
    BY <2>1, <2>3
<1>6. ASSUME NEW m \in Nat, m \in S
      PROVE  m + 1 \in S
  <2>. SUFFICES ASSUME NEW q \in 0..p, q <= m + 1
                PROVE  NumberRead(f[q], q)
    OBVIOUS
  <2>1. CASE q < 10
    <3>1. q \in 0..9
      BY <2>1
    <3>2. f[q] = <<Digits[q + 1]>>
      BY <1>2, <2>1, Zenon DEF DigitsAt
    <3>. QED
      BY <1>4, <3>1, <3>2
  <2>2. CASE ~(q < 10)
    <3>. DEFINE a == q \div 10
                d == q % 10
    <3>1. a \in 0..p /\ a <= m /\ d \in 0..9 /\ 10 * a + d = q
      BY <2>2
    <3>2. f[q] = Append(f[a], Digits[d + 1])
      BY <1>2, <2>2 DEF DigitsAt
    <3>. HIDE DEF a, d
    <3>3. NumberRead(f[a], a)
      BY <1>6, <3>1
    <3>4. NumberRead(Append(f[a], Digits[d + 1]), 10 * NumberOf(f[a]) + d)
      BY <1>3, <3>1, <3>3 DEF NumberRead
    <3>5. NumberOf(f[a]) = a
      BY <3>3 DEF NumberRead
    <3>. QED
      BY <3>1, <3>2, <3>4, <3>5
  <2>. QED
    BY <2>1, <2>2
<1>7. \A m \in Nat : m \in S
  <2>. HIDE DEF S
  <2>. QED
    BY <1>5, <1>6, InductiveSet
<1>8. NumberRead(f[p], p)
  BY <1>7
<1>. QED
  BY <1>8, NumberEqn DEF f

\* The number of a page is read as that number by the server.
LEMMA PageNumber ==
    ASSUME NEW p \in Nat
    PROVE  /\ Number(p) \in Text \ {<< >>} /\ Number(p) # NoText
           /\ IsNumber(Number(p)) /\ NumberOf(Number(p)) = p
<1>1. PICK v : v = Number(p)
  OBVIOUS
<1>2. v \in Seq(Numerals) /\ v # << >> /\ NumberOf(v) = p
  BY <1>1, NumberReads DEF NumberRead
<1>3. Seq(Numerals) \subseteq Seq(Symbols)
  BY DigitFacts, SeqMonotonic
<1>4. v \in Text /\ v # NoText
  BY <1>2, <1>3, TextsAre
<1>5. ToSet(v) \subseteq Numerals
  <2>1. PICK N : N = Numerals
    OBVIOUS
  <2>2. v \in Seq(N)
    BY <1>2, <2>1
  <2>3. \A j \in DOMAIN v : v[j] \in N
    BY <2>2
  <2>. QED
    BY <2>1, <2>3 DEF ToSet
<1>. QED
  BY <1>1, <1>2, <1>4, <1>5 DEF IsNumber, Numerals

-----------------------------------------------------------------------------
(* The uris of foreman and of test-uri *)

CfgKeys == {"url", "username", "password", "ssl-verify", "per-page"}

\* The plugins have been configured.
Collecting == main \in {"collect"} \union Ends

\* foreman's uri is one that comes from texts, and when it is to be parsed there is a
\* text to parse.
RequestInv ==
    /\ cfg \in [CfgKeys -> MaybeText]
    /\ baseuri \in StoredUris /\ Len(baseuri.get_params) <= URI_MAX_PARAMS
    /\ foreman = "uri" => Configured /\ Collecting

\* Uris that can be read back as they are: no value is empty.
UserUris ==
    UriSet(Without({":"}), Without({":", "/"}), Without({"/"}) \union {NoText},
           Without({"?"}), PlainKeys, (Text \ {<< >>}) \union {NoText})

\* test-uri's uri is one.
UriUserInv ==
    program = "test-uri" => uri \in UserUris /\ Len(uri.get_params) <= URI_MAX_PARAMS

BufferInv == RequestInv /\ UriUserInv

-----------------------------------------------------------------------------

LEMMA DefaultsType == Unconfigured \in [CfgKeys -> MaybeText]
<1>1. NoText \in MaybeText
  BY DEF MaybeText
<1>2. <<"false">> \in MaybeText /\ <<"5", "0">> \in MaybeText
  <2>1. Digits[6] = "5" /\ Digits[1] = "0" /\ 6 \in DOMAIN Digits /\ 1 \in DOMAIN Digits
    BY DEF Digits
  <2>2. "false" \in Symbols /\ "5" \in Symbols /\ "0" \in Symbols
    BY <2>1, ForemanAssumption DEF ToSet
  <2>3. <<"false">> \in Seq(Symbols) /\ <<"5", "0">> \in Seq(Symbols)
    BY <2>2
  <2>. QED
    BY <2>3 DEF MaybeText, Text
<1>. DEFINE default(key) == CASE key = "ssl-verify" -> <<"false">>
                              [] key = "per-page" -> <<"5", "0">>
                              [] OTHER -> NoText
<1>3. \A key \in CfgKeys : default(key) \in MaybeText
  BY <1>1, <1>2
<1>4. Unconfigured = [key \in CfgKeys |-> default(key)]
  BY Zenon DEF Unconfigured, CfgKeys
<1>. HIDE DEF default
<1>. QED
  BY <1>3, <1>4

\* The names of the parameters are ones a request may have.
LEMMA KeysArePlain == Page \in PlainKeys /\ PerPage \in PlainKeys /\ Page # PerPage
<1>1. "page" \in Symbols \ {"=", "&"} /\ "per_page" \in Symbols \ {"=", "&"}
  BY ForemanAssumption
<1>2. PICK A : A = Symbols \ {"=", "&"}
  OBVIOUS
<1>3. <<"page">> \in Seq(A) /\ <<"per_page">> \in Seq(A)
  BY <1>1, <1>2
<1>4. <<"page">> # << >> /\ <<"per_page">> # << >> /\ <<"page">> # <<"per_page">>
  OBVIOUS
<1>. QED
  BY <1>2, <1>3, <1>4, Zenon DEF Page, PerPage, PlainKeys, Without

\* Whatever page is asked for, the uri is one that comes from texts.
LEMMA AddsPage ==
    ASSUME NEW u \in StoredUris, Len(u.get_params) <= URI_MAX_PARAMS, NEW p \in Nat
    PROVE  /\ add_get_param(u, Page, Number(p)) \in StoredUris
           /\ Len(add_get_param(u, Page, Number(p)).get_params) <= URI_MAX_PARAMS
           /\ set_get_param(u, Page, Number(p)) \in StoredUris
           /\ Len(set_get_param(u, Page, Number(p)).get_params) <= URI_MAX_PARAMS
<1>1. Page \in PlainKeys /\ Number(p) \in MaybeText
  BY KeysArePlain, PageNumber DEF MaybeText
<1>. QED
  BY <1>1, AddsFitting, SetsFitting DEF StoredUris

\* What foreman makes its first request from.
LEMMA PreparedType ==
    ASSUME RequestInv, foreman = "uri"
    PROVE  Prepared \in StoredUris /\ Len(Prepared.get_params) <= URI_MAX_PARAMS
<1>1. cfg["url"] \in Text /\ cfg["per-page"] \in MaybeText
  BY DEF RequestInv, CfgKeys, Configured, MaybeText
<1>2. Parsed.uri \in StoredUris /\ Len(Parsed.uri.get_params) <= URI_MAX_PARAMS
  BY <1>1, ParseStores DEF Parsed, RequestInv
<1>3. PerPage \in PlainKeys
  BY KeysArePlain
<1>. QED
  BY <1>1, <1>2, <1>3, AddsFitting DEF StoredUris, Prepared

LEMMA ForemanAndUri ==
    ASSUME collect \/ ForemanNext \/ ServerNext
    PROVE  /\ FirstRequest \/ AddHosts \/ baseuri' = baseuri
           /\ foreman' = "uri" => foreman = "uri" \/ Configured
<1>1. CASE collect
  BY <1>1 DEF collect, pluginVars
<1>2. CASE NotConfigured \/ HeadersReused \/ BadUrl \/ UrlOverread \/ IncompleteUrl
           \/ PerformFails \/ Unparsable \/ MissingResults
  BY <1>2 DEF NotConfigured, HeadersReused, BadUrl, UrlOverread, IncompleteUrl, PerformFails,
              Unparsable, MissingResults, Stops, pluginVars
<1>3. CASE init_curl
  BY <1>3 DEF init_curl
<1>4. CASE FirstRequest \/ AddHosts
  BY <1>4 DEF FirstRequest, AddHosts
<1>5. CASE Receive \/ NoResults \/ FirstPage \/ AddOnlyPage \/ NextPage
  BY <1>5 DEF Receive, NoResults, FirstPage, AddOnlyPage, NextPage, Returns, pluginVars
<1>6. CASE ServerNext
  BY <1>6 DEF ServerNext, Serve, ServeBad, HostVanishes, Answers, pluginVars
<1>. QED
  BY <1>1, <1>2, <1>3, <1>4, <1>5, <1>6 DEF ForemanNext

LEMMA RequestCollects ==
    ASSUME RequestInv, current_page \in Nat,
           CallForeman \/ CallDummy \/ ForemanStep \/ ServerStep
    PROVE  RequestInv'
<1>1. main = "collect" /\ main' = main
  BY DEF CallForeman, CallDummy, ForemanStep, ServerStep, mainVars
<1>2. cfg' = cfg
  BY ForemanKeepsConfig DEF CallForeman, CallDummy, ForemanStep, ServerStep, pluginVars
<1>3. /\ FirstRequest \/ AddHosts \/ baseuri' = baseuri
      /\ foreman' = "uri" => foreman = "uri" \/ Configured
  <2>1. CASE CallDummy
    BY <2>1 DEF CallDummy, pluginVars
  <2>2. CASE CallForeman \/ ForemanStep \/ ServerStep
    BY <2>2, ForemanAndUri DEF CallForeman, ForemanStep, ServerStep
  <2>. QED
    BY <2>1, <2>2
<1>4. baseuri' \in StoredUris /\ Len(baseuri'.get_params) <= URI_MAX_PARAMS
  <2>1. CASE FirstRequest
    BY <2>1, PreparedType DEF FirstRequest
  <2>2. CASE AddHosts
    <3>1. baseuri' = set_get_param(baseuri, Page, Number(current_page + 1))
      BY <2>2 DEF AddHosts
    <3>2. current_page + 1 \in Nat
      OBVIOUS
    <3>. QED
      BY <3>1, <3>2, AddsPage DEF RequestInv
  <2>3. CASE baseuri' = baseuri
    BY <2>3 DEF RequestInv
  <2>. QED
    BY <1>3, <2>1, <2>2, <2>3
<1>5. Configured' <=> Configured
  BY <1>2 DEF Configured
<1>. QED
  BY <1>1, <1>2, <1>3, <1>4, <1>5 DEF RequestInv, Collecting

\* A key's value is the text of a word.
LEMMA RequestSets ==
    ASSUME ConfigInv, RequestInv, SetKey
    PROVE  RequestInv'
<1>1. /\ main = "key" /\ main' = "keys" /\ foreman' = foreman /\ baseuri' = baseuri
      /\ foreman # "uri"
  BY DEF SetKey, AtKey, RequestInv, Collecting, Ends
<1>2. cfg' \in [CfgKeys -> MaybeText]
  <2>1. CASE given[1] /\ values[1] # << >>
    <3>. DEFINE text == Last(values[1]).text
                option == Keys(names[n])[k]
    <3>1. values[1] \in Seq(Word)
      <4>1. Len(opts) = 1
        BY <1>1 DEF ConfigInv, MainInv, KeyInv, KeyParser
      <4>2. values \in [1..Len(opts) -> Seq(Word)]
        BY DEF ConfigInv, ResultsInv
      <4>. QED
        BY <4>1, <4>2
    <3>2. Last(values[1]) \in Word
      BY <2>1, <3>1 DEF Last
    <3>3. text \in MaybeText
      BY <3>2 DEF Word, MaybeText, Text
    <3>4. cfg' = IF option[1] = "foreman" THEN [cfg EXCEPT ![option[2]] = text] ELSE cfg
      BY <2>1 DEF SetKey, Sets
    <3>. HIDE DEF text, option
    <3>. QED
      BY <3>3, <3>4 DEF RequestInv
  <2>2. CASE ~(given[1] /\ values[1] # << >>)
    BY <2>2 DEF SetKey, RequestInv
  <2>. QED
    BY <2>1, <2>2
<1>. QED
  BY <1>1, <1>2 DEF RequestInv, Collecting

LEMMA RequestLoads ==
    ASSUME RequestInv, LoadPlugin
    PROVE  RequestInv'
<1>1. /\ main = "load" /\ foreman' = foreman /\ baseuri' = baseuri
      /\ foreman # "uri" /\ cfg' \in {cfg, Unconfigured}
  BY DEF LoadPlugin, RequestInv, Collecting, Ends
<1>. QED
  BY <1>1, DefaultsType DEF RequestInv, Collecting

LEMMA RequestStays ==
    ASSUME RequestInv, UNCHANGED foremanVars, Collecting => Collecting'
    PROVE  RequestInv'
<1>1. cfg' = cfg /\ baseuri' = baseuri /\ foreman' = foreman
  BY DEF foremanVars, pluginVars
<1>2. Configured' <=> Configured
  BY <1>1 DEF Configured
<1>. QED
  BY <1>1, <1>2 DEF RequestInv

LEMMA RequestSteps ==
    ASSUME ConfigInv, RequestInv, current_page \in Nat, MainStep
    PROVE  RequestInv'
<1>1. CASE \/ ParserEnds \/ RequireFails \/ LogOptionFails \/ HelpOrVersion \/ CallbackFails
           \/ SetKeyToNull \/ ConcurrentFails \/ CollectEnds \/ NoCommand \/ JoinCommand
  <2>1. \E how \in Ends : EndsWith(how)
    BY <1>1 DEF ParserEnds, RequireFails, LogOptionFails, HelpOrVersion, CallbackFails,
                SetKeyToNull, ConcurrentFails, CollectEnds, NoCommand, JoinCommand, Ends
  <2>. QED
    BY <2>1, RequestStays DEF EndsWith, Collecting
<1>2. CASE CallForeman \/ CallDummy \/ ForemanStep
  BY <1>2, RequestCollects
<1>3. CASE ParseStep
  BY <1>3, RequestStays DEF ParseStep, mainVars, Collecting
<1>4. CASE BeginPlugins \/ ParseForKey \/ NextPlugin \/ BeginCollect
  <2>1. UNCHANGED foremanVars /\ main \in {"parse", "keys", "load"}
    BY <1>4 DEF BeginPlugins, AtCallbacks, AtParsed, ParseForKey, NextPlugin, BeginCollect
  <2>. QED
    BY <2>1, RequestStays DEF Ends, Collecting
<1>5. CASE LoadPlugin
  BY <1>5, RequestLoads
<1>6. CASE SetKey
  BY <1>6, RequestSets
<1>. QED
  BY <1>1, <1>2, <1>3, <1>4, <1>5, <1>6 DEF MainStep

\* What test-uri adds or sets leaves its uri one that can be read back.
LEMMA UriUserSteps ==
    ASSUME UriUserInv, program = "test-uri", UriNext
    PROVE  uri' \in UserUris /\ Len(uri'.get_params) <= URI_MAX_PARAMS
<1>. DEFINE V == (Text \ {<< >>}) \union {NoText}
<1>1. \A key \in ParamKeys : key \in PlainKeys
  BY UriUserAssumption DEF PlainKeys
<1>2. \A val \in ParamValues \union {NoText} : val \in V
  BY UriUserAssumption
<1>. HIDE DEF V
<1>3. \A key \in PlainKeys, val \in V :
        /\ add_get_param(uri, key, val) \in UserUris
        /\ Len(add_get_param(uri, key, val).get_params) <= URI_MAX_PARAMS
        /\ set_get_param(uri, key, val) \in UserUris
        /\ Len(set_get_param(uri, key, val).get_params) <= URI_MAX_PARAMS
  BY AddsFitting, SetsFitting DEF UriUserInv, UserUris, V
<1>4. CASE AddParam
  <2>1. PICK key \in ParamKeys, val \in ParamValues \union {NoText} :
            uri' = add_get_param(uri, key, val)
    BY <1>4 DEF AddParam
  <2>. QED
    BY <1>1, <1>2, <1>3, <2>1
<1>5. CASE SetParam
  <2>1. PICK key \in ParamKeys, val \in ParamValues : uri' = set_get_param(uri, key, val)
    BY <1>5 DEF SetParam
  <2>. QED
    BY <1>1, <1>2, <1>3, <2>1
<1>6. CASE ParseBack
  BY <1>6 DEF ParseBack, UriUserInv
<1>. QED
  BY <1>4, <1>5, <1>6 DEF UriNext

\* The parts test-uri starts with.
LEMMA UserUrisAre ==
    /\ \A parts \in TestUris : parts \in UserUris /\ parts.get_params = << >>
    /\ UserUris \subseteq PlainUris
<1>1. PICK P, Q : /\ P = Seq([key : PlainKeys, value : (Text \ {<< >>}) \union {NoText}])
                  /\ Q = Seq(PlainParams)
  OBVIOUS
<1>2. << >> \in P
  BY <1>1
<1>3. P \subseteq Q
  <2>1. PICK A, B : /\ A = [key : PlainKeys, value : (Text \ {<< >>}) \union {NoText}]
                    /\ B = PlainParams
    OBVIOUS
  <2>2. A \subseteq B
    BY <2>1 DEF PlainParams, PlainKeys, MaybeText
  <2>. QED
    BY <1>1, <2>1, <2>2, SeqMonotonic
<1>4. UserUris = [scheme : Without({":"}), hostname : Without({":", "/"}),
                  port : Without({"/"}) \union {NoText}, path : Without({"?"}),
                  get_params : P]
  BY <1>1 DEF UserUris, UriSet
<1>5. PlainUris = [scheme : Without({":"}), hostname : Without({":", "/"}),
                   port : Without({"/"}) \union {NoText}, path : Without({"?"}),
                   get_params : Q]
  BY <1>1 DEF PlainUris
<1>6. ASSUME NEW parts \in TestUris
      PROVE  parts \in UserUris /\ parts.get_params = << >>
  <2>1. parts \in [scheme : Without({":"}), hostname : Without({":", "/"}),
                   port : Without({"/"}) \union {NoText}, path : Without({"?"}),
                   get_params : {<< >>}]
    BY ProgramsAssumption
  <2>. QED
    BY <1>2, <1>4, <2>1
<1>7. UserUris \subseteq PlainUris
  BY <1>3, <1>4, <1>5
<1>. QED
  BY <1>6, <1>7

LEMMA BufferInit == Init => BufferInv
<1>. SUFFICES ASSUME Init PROVE BufferInv
  OBVIOUS
<1>1. \E served : ForemanInit(served)
  BY DEF Init, Distexec, TestUri, TestPopen3, Idle
<1>2. cfg = Unconfigured /\ baseuri = uri_new /\ foreman = "idle"
  BY <1>1 DEF ForemanInit
<1>3. RequestInv
  BY <1>2, DefaultsType, StoredAndPlain DEF RequestInv
<1>4. ASSUME program = "test-uri"
      PROVE  uri \in UserUris /\ Len(uri.get_params) <= URI_MAX_PARAMS
  <2>1. PICK parts \in TestUris : uri = parts
    BY <1>4 DEF Init, Distexec, TestUri, TestPopen3, UriInit
  <2>2. Len(<< >>) = 0 /\ 0 <= URI_MAX_PARAMS
    BY UriAssumption
  <2>. QED
    BY <2>1, <2>2, UserUrisAre
<1>. QED
  BY <1>3, <1>4 DEF BufferInv, UriUserInv

LEMMA BufferStep ==
    ASSUME ConfigInv, BufferInv, current_page \in Nat, [Next]_vars
    PROVE  BufferInv'
<1>1. RequestInv /\ UriUserInv
  BY DEF BufferInv
<1>2. CASE DistexecStep
  <2>1. program' = program /\ uri' = uri /\ MainStep
    BY <1>2 DEF DistexecStep, uriVars
  <2>. QED
    BY <1>1, <2>1, RequestSteps DEF BufferInv, UriUserInv
<1>3. CASE AnswerStep
  <2>1. program' = program /\ uri' = uri /\ ServerStep
    BY <1>3 DEF AnswerStep, uriVars
  <2>. QED
    BY <1>1, <2>1, RequestCollects DEF BufferInv, UriUserInv
<1>4. CASE UriStep
  <2>1. program = "test-uri" /\ UriNext /\ UNCHANGED foremanVars /\ main' = main
    BY <1>4 DEF UriStep, commandVars, mainVars
  <2>. QED
    BY <1>1, <2>1, UriUserSteps, RequestStays DEF BufferInv, UriUserInv, Collecting
<1>5. CASE PopenStep \/ UNCHANGED vars
  <2>1. program' = program /\ uri' = uri /\ UNCHANGED foremanVars /\ main' = main
    BY <1>5 DEF PopenStep, vars, commandVars, mainVars, uriVars
  <2>. QED
    BY <1>1, <2>1, RequestStays DEF BufferInv, UriUserInv, Collecting
<1>. QED
  BY <1>2, <1>3, <1>4, <1>5 DEF Next, Terminated

-----------------------------------------------------------------------------
(* A call of foreman's collect: what it promises while it runs *)

\* The last page among the parameters is p.
Shows(params, p) ==
    \E at \in DOMAIN params :
        /\ params[at] = [key |-> Page, value |-> Number(p)]
        /\ \A j \in DOMAIN params : j > at => params[j].key # Page

\* How many hosts the server puts on a page when it reads these parameters.
SizeOf(params) == Asked([get_params |-> KeptParams(params)], PerPage, DefaultPerPage)
Size == SizeOf(baseuri.get_params)

\* What the server says of a page.
PageAnswers ==
    [kind : {"page"}, subtotal : Nat, page : Nat \ {0}, per_page : Nat \ {0},
     results : Seq(Text)]

BodyParts == [part : {1, 2}, of : {Garbage, NoFields} \union PageAnswers]

\* The answer that is coming in, or has come in.
Coming ==
    {chunk[c].of : c \in DOMAIN chunk} \union {incoming[c].of : c \in DOMAIN incoming}

AtRequest == foreman \in {"first", "next"}
AtCall == foreman \in {"first", "hosts", "next"}

\* Nothing comes in before the server has answered, and only what it sends.
TransferInv ==
    /\ foreman \in {"idle", "collect", "uri", "returned", "aborted", "crashed"} \/ AtCall
    /\ headers \in {"null", "live", "freed"}
    /\ fits \in BOOLEAN /\ sound \in BOOLEAN
    /\ current_page \in Nat /\ pages \in Nat
    /\ nodes \in Seq(Text) /\ before \in 0..Len(nodes)
    /\ hosts \in Seq(Text) /\ IsInjective(hosts)
    /\ request \in MaybeText
    /\ chunk \in Seq(BodyParts) /\ incoming \in Seq(BodyParts) /\ Len(chunk) + Len(incoming) <= 2
    /\ Waiting => AtRequest /\ chunk = << >> /\ incoming = << >>
    /\ foreman = "hosts" => results \in Seq(Text) \union {NoText}

\* Whether a page is among the parameters.
Paged(params) == \E j \in DOMAIN params : params[j].key = Page

\* How many pages were added.
Done == IF foreman = "first" THEN 0 ELSE current_page - 1

\* The table has a place for a page, or a page in place.
RoomInv ==
    AtCall =>
        /\ CanCopy(baseuri)
        /\ foreman = "first" /\ fits => HasRoom(baseuri)
        /\ fits => HasRoom(baseuri) \/ Paged(baseuri.get_params)

\* The pages are asked for in order, and the request is for the one after those.
PageInv ==
    /\ asked \in Seq(Nat)
    /\ foreman \in {"collect", "uri"} => asked = << >>
    /\ PageFits =>
        /\ PagesInOrder
        /\ AtCall => Len(asked) = IF Waiting THEN Done ELSE Done + 1
        /\ foreman = "first" /\ Waiting =>
            request = build(add_get_param(baseuri, Page, Number(1)))
        /\ foreman = "next" =>
            /\ Shows(baseuri.get_params, current_page)
            /\ Waiting => request = build(baseuri)
            /\ 2 <= current_page /\ current_page <= pages + 1
        /\ foreman = "hosts" => 1 <= current_page /\ current_page <= pages

\* Neither on the pages added nor behind them is a host twice.
Apart(found, next, p) ==
    /\ IsInjective(next)
    /\ ToSet(next) \intersect ToSet(found) = {}
    /\ \A j \in DOMAIN hosts : j > p * Size => hosts[j] \notin ToSet(next)

\* The hosts on the pages up to p.
UpTo(p) == SubSeq(hosts, 1, IF p * Size < Len(hosts) THEN p * Size ELSE Len(hosts))

\* What was added is a part of the hosts, and if nothing went wrong those on the pages
\* up to p.
FoundUpTo(p) ==
    /\ IsInjective(Found)
    /\ \A j \in DOMAIN hosts : j > p * Size => hosts[j] \notin ToSet(Found)
    /\ sound => Found = UpTo(p)

\* The answer to the request for page p.
AnswerFits(a, p) ==
    /\ a \in PageAnswers =>
        /\ a.page = p
        /\ a.per_page = Size
        /\ Apart(Found, a.results, p)
    /\ sound => a \in PageAnswers /\ a.subtotal = Len(hosts) /\ a.results = OnPage(p, Size)

\* What was added, what is to be added and what the server still has are apart; if
\* nothing went wrong they are, in order, the hosts.
HostsInv ==
    /\ foreman \in {"collect", "uri", "first"} => before = Len(nodes)
    /\ PageFits =>
        /\ EveryHostOnce
        /\ AtCall => FoundUpTo(Done)
        /\ AtRequest =>
            /\ \A a \in Coming : AnswerFits(a, Done + 1)
            /\ sound /\ ~Waiting => Coming # {}
        /\ foreman \in {"hosts", "next"} =>
            /\ Size > 0
            /\ sound => pages * Size >= Len(hosts)
        /\ foreman = "hosts" =>
            /\ results # NoText => Apart(Found, results, current_page)
            /\ sound => results = OnPage(current_page, Size)

-----------------------------------------------------------------------------
(* What the server reads in a request *)

\* The number that a value means.
Meaning(v) == IF IsNumber(v) THEN NumberOf(v) ELSE 0

LEMMA MeaningType ==
    ASSUME NEW v \in MaybeText
    PROVE  Meaning(v) \in Nat
<1>. SUFFICES ASSUME IsNumber(v) PROVE NumberOf(v) \in Nat
  BY DEF Meaning
<1>. DEFINE f == CountsOf(v)
            S == {j \in Nat : j <= Len(v) => f[j] \in Nat}
<1>1. v \in Seq(Numerals)
  <2>1. PICK N : N = Numerals
    OBVIOUS
  <2>2. v \in Seq(Symbols) /\ ToSet(v) \subseteq N
    BY <2>1 DEF IsNumber, MaybeText, Text, Numerals
  <2>3. Len(v) \in Nat /\ v \in [1..Len(v) -> Symbols] /\ \A j \in 1..Len(v) : v[j] \in N
    BY <2>2 DEF ToSet
  <2>4. v \in [1..Len(v) -> N]
    BY <2>3
  <2>. QED
    BY <2>1, <2>3, <2>4
<1>2. Len(v) \in Nat /\ \A j \in 1..Len(v) : DigitOf(v[j]) \in 0..9
  <2>1. PICK N : N = Numerals
    OBVIOUS
  <2>2. v \in Seq(N)
    BY <1>1, <2>1
  <2>3. Len(v) \in Nat /\ \A j \in 1..Len(v) : v[j] \in N
    BY <2>2
  <2>. QED
    BY <2>1, <2>3, DigitFacts
<1>3. /\ f[0] = 0 /\ \A j \in 1..Len(v) : f[j] = 10 * f[j - 1] + DigitOf(v[j])
      /\ NumberOf(v) = f[Len(v)]
  BY <1>1, CountsAre
<1>. HIDE DEF f
<1>4. 0 \in S
  BY <1>3
<1>5. ASSUME NEW m \in Nat, m \in S
      PROVE  m + 1 \in S
  <2>. SUFFICES ASSUME m + 1 <= Len(v)
                PROVE  f[m + 1] \in Nat
    OBVIOUS
  <2>1. m + 1 \in 1..Len(v) /\ (m + 1) - 1 = m /\ m <= Len(v)
    BY <1>2
  <2>2. f[m + 1] = 10 * f[m] + DigitOf(v[m + 1]) /\ f[m] \in Nat
    BY <1>3, <1>5, <2>1
  <2>3. PICK d : d = DigitOf(v[m + 1])
    OBVIOUS
  <2>4. d \in 0..9
    BY <1>2, <2>1, <2>3
  <2>5. f[m + 1] = 10 * f[m] + d
    BY <2>2, <2>3
  <2>. QED
    BY <2>2, <2>4, <2>5
<1>6. \A m \in Nat : m \in S
  <2>. HIDE DEF S
  <2>. QED
    BY <1>4, <1>5, InductiveSet
<1>. QED
  BY <1>2, <1>3, <1>6

\* The last parameter with that key.
LastOf(params, at, key) ==
    /\ at \in DOMAIN params
    /\ params[at].key = key
    /\ \A j \in DOMAIN params : j > at => params[j].key # key

\* What is asked for depends on the parameters.
AskedOf(params, key, default) ==
    LET given1 == {c \in DOMAIN params : params[c].key = key}
        value == params[Max(given1)].value
    IN  IF given1 = {} THEN default ELSE IF IsNumber(value) THEN NumberOf(value) ELSE 0

LEMMA AskedOfParams ==
    ASSUME NEW u, NEW key, NEW default
    PROVE  Asked(u, key, default) = AskedOf(u.get_params, key, default)
  BY Zenon DEF Asked, AskedOf

\* The last parameter with the key counts.
LEMMA AskedOfIs ==
    ASSUME NEW params, NEW m \in Nat, DOMAIN params = 1..m, NEW key, NEW default
    PROVE  \/ /\ \A j \in 1..m : params[j].key # key
              /\ AskedOf(params, key, default) = default
           \/ \E at \in 1..m :
                /\ LastOf(params, at, key)
                /\ AskedOf(params, key, default) = Meaning(params[at].value)
<1>. DEFINE I == {j \in DOMAIN params : params[j].key = key}
            most == CHOOSE a \in I : \A b \in I : a >= b
<1>1. AskedOf(params, key, default) = IF I = {} THEN default ELSE Meaning(params[most].value)
  BY Zenon DEF AskedOf, Meaning, Max
<1>2. CASE I = {}
  BY <1>1, <1>2
<1>3. CASE I # {}
  <2>1. I \in SUBSET (0..m)
    OBVIOUS
  <2>2. \E a \in I : \A b \in I : a >= b
    <3>. HIDE DEF I
    <3>1. PICK a \in I : \A b \in I : b <= a
      BY <1>3, <2>1, Largest
    <3>2. \A b \in I : b \in Nat
      BY <2>1
    <3>. QED
      BY <3>1, <3>2
  <2>3. most \in I /\ \A b \in I : most >= b
    <3>. HIDE DEF I
    <3>. QED
      BY <2>2, Zenon
  <2>. HIDE DEF most
  <2>4. \A j \in DOMAIN params : j > most => params[j].key # key
    BY <2>3
  <2>5. LastOf(params, most, key) /\ most \in 1..m
    BY <2>3, <2>4 DEF LastOf
  <2>. QED
    BY <1>1, <1>3, <2>5
<1>. QED
  BY <1>2, <1>3

LEMMA AskedType ==
    ASSUME NEW u \in StoredUris, NEW key, NEW default \in Nat
    PROVE  Asked(u, key, default) \in Nat
<1>1. PICK P : P = [key : PlainKeys, value : MaybeText]
  OBVIOUS
<1>2. u.get_params \in Seq(P)
  BY <1>1 DEF StoredUris, UriSet
<1>3. PICK m \in Nat : DOMAIN u.get_params = 1..m /\ \A j \in 1..m : u.get_params[j] \in P
  <2>1. Len(u.get_params) \in Nat /\ DOMAIN u.get_params = 1..Len(u.get_params)
        /\ \A j \in 1..Len(u.get_params) : u.get_params[j] \in P
    BY <1>2
  <2>. QED
    BY <2>1
<1>4. \A j \in 1..m : Meaning(u.get_params[j].value) \in Nat
  BY <1>1, <1>3, MeaningType
<1>5. \/ /\ \A j \in 1..m : u.get_params[j].key # key
         /\ AskedOf(u.get_params, key, default) = default
      \/ \E at \in 1..m :
           /\ LastOf(u.get_params, at, key)
           /\ AskedOf(u.get_params, key, default) = Meaning(u.get_params[at].value)
  BY <1>3, AskedOfIs
<1>6. AskedOf(u.get_params, key, default) \in Nat
  BY <1>4, <1>5
<1>. QED
  BY <1>6, AskedOfParams

\* Whatever a request says, the server reads numbers.
LEMMA ServerReadsNumbers ==
    ASSUME request \in Text
    PROVE  PageAsked \in Nat /\ PerPageAsked \in Nat
<1>1. parse(request, uri_new).uri \in StoredUris
  BY StoredAndPlain, ParseStores
<1>2. 1 \in Nat /\ DefaultPerPage \in Nat
  BY ForemanAssumption
<1>. QED
  BY <1>1, <1>2, AskedType DEF PageAsked, PerPageAsked

-----------------------------------------------------------------------------
(* What comes in *)

LEMMA Quotient ==
    ASSUME NEW a \in Nat, NEW b \in Nat \ {0}
    PROVE  /\ a \div b \in Nat
           /\ b * (a \div b) <= a
           /\ a < b * (a \div b) + b
  OBVIOUS

\* As many pages as hold the hosts.
LEMMA PagesHold ==
    ASSUME NEW subtotal \in Nat, NEW size \in Nat \ {0}
    PROVE  /\ PageCount(subtotal, size) \in Nat
           /\ PageCount(subtotal, size) * size >= subtotal
           /\ PageCount(subtotal, size) >= 1
<1>1. CASE subtotal >= size
  <2>1. PICK sum : sum = subtotal + size - 1
    OBVIOUS
  <2>2. sum \in Nat
    BY <2>1
  <2>3. PICK count : count = sum \div size
    OBVIOUS
  <2>4. count \in Nat /\ size * count <= sum /\ sum < size * count + size
    BY <2>2, <2>3, Quotient
  <2>5. PICK held : held = size * count
    OBVIOUS
  <2>6. held \in Nat /\ held >= subtotal
    BY <2>1, <2>4, <2>5
  <2>7. PageCount(subtotal, size) = count
    BY <1>1, <2>1, <2>3 DEF PageCount
  <2>8. count * size = held
    BY <2>4, <2>5
  <2>9. count # 0
    <3>. SUFFICES ASSUME count = 0 PROVE FALSE
      OBVIOUS
    <3>1. held = 0
      BY <2>5
    <3>. QED
      BY <1>1, <2>6, <3>1
  <2>. QED
    BY <2>4, <2>6, <2>7, <2>8, <2>9
<1>2. CASE ~(subtotal >= size)
  <2>1. PageCount(subtotal, size) = 1
    BY <1>2 DEF PageCount
  <2>. QED
    BY <1>2, <2>1
<1>. QED
  BY <1>1, <1>2

\* A list without one of its elements.
LEMMA WithoutOne ==
    ASSUME NEW S, NEW s \in Seq(S), NEW c \in DOMAIN s
    PROVE  /\ RemoveAt(s, c) \in Seq(S)
           /\ Len(RemoveAt(s, c)) = Len(s) - 1
           /\ \A j \in 1..(Len(s) - 1) : RemoveAt(s, c)[j] = IF j < c THEN s[j] ELSE s[j + 1]
<1>1. Len(s) \in Nat /\ c \in 1..Len(s)
  OBVIOUS
<1>2. PICK a, b : a = SubSeq(s, 1, c - 1) /\ b = SubSeq(s, c + 1, Len(s))
  OBVIOUS
<1>3. /\ a \in Seq(S) /\ Len(a) = c - 1
      /\ \A j \in 1..(c - 1) : a[j] = s[j]
  BY <1>1, <1>2
<1>4. /\ b \in Seq(S) /\ Len(b) = Len(s) - c
      /\ \A j \in 1..(Len(s) - c) : b[j] = s[c + j]
  BY <1>1, <1>2
<1>5. RemoveAt(s, c) = a \o b
  BY <1>2 DEF RemoveAt
<1>p. PICK la, lb : la = Len(a) /\ lb = Len(b)
  OBVIOUS
<1>a. la \in Nat /\ lb \in Nat /\ la = c - 1 /\ la + lb = Len(s) - 1
  BY <1>1, <1>3, <1>4, <1>p
<1>b. a \in Seq(S) /\ b \in Seq(S)
  BY <1>3, <1>4
<1>c. a \o b \in Seq(S) /\ Len(a \o b) = Len(a) + Len(b)
  BY <1>b
<1>d. \A j \in 1..(Len(a) + Len(b)) :
         (a \o b)[j] = IF j <= Len(a) THEN a[j] ELSE b[j - Len(a)]
  BY <1>b
<1>e. \A j \in 1..(la + lb) : (a \o b)[j] = IF j <= la THEN a[j] ELSE b[j - la]
  BY <1>d, <1>p
<1>6. /\ a \o b \in Seq(S)
      /\ Len(a \o b) = Len(s) - 1
      /\ \A j \in 1..(Len(s) - 1) : (a \o b)[j] = IF j <= c - 1 THEN a[j] ELSE b[j - (c - 1)]
  BY <1>a, <1>c, <1>e, <1>p
<1>7. ASSUME NEW j \in 1..(Len(s) - 1)
      PROVE  (a \o b)[j] = IF j < c THEN s[j] ELSE s[j + 1]
  <2>1. CASE j < c
    BY <1>1, <1>3, <1>6, <2>1
  <2>2. CASE ~(j < c)
    <3>1. PICK m : m = j - (c - 1)
      OBVIOUS
    <3>2. m \in 1..(Len(s) - c) /\ c + m = j + 1
      BY <1>1, <2>2, <3>1
    <3>3. (a \o b)[j] = b[m]
      BY <1>1, <1>6, <2>2, <3>1
    <3>. QED
      BY <1>4, <2>2, <3>2, <3>3
  <2>. QED
    BY <2>1, <2>2
<1>. QED
  BY <1>5, <1>6, <1>7

-----------------------------------------------------------------------------
(* The transfers *)

\* What json-c reads is one of the answers.
AllAnswers == {Garbage, NoFields} \union PageAnswers

LEMMA AnswersRead ==
    ASSUME TransferInv, NEW json \in json_tokener_parse(chunk)
    PROVE  /\ json \in AllAnswers
           /\ chunk # << >> => json \in Coming
<1>1. chunk \in Seq([part : {1, 2}, of : AllAnswers])
  BY DEF TransferInv, BodyParts, AllAnswers
<1>2. CASE chunk = << >>
  BY <1>2 DEF json_tokener_parse, AllAnswers
<1>3. CASE chunk # << >>
  <2>. HIDE DEF AllAnswers
  <2>1. PICK B : B = [part : {1, 2}, of : AllAnswers]
    OBVIOUS
  <2>2. chunk \in Seq(B)
    BY <1>1, <2>1
  <2>3. 1 \in DOMAIN chunk /\ chunk[1] \in B /\ Head(chunk) = chunk[1]
    BY <1>3, <2>2
  <2>4. json = chunk[1].of
    BY <1>3, <2>3 DEF json_tokener_parse
  <2>5. chunk[1].of \in AllAnswers
    BY <2>1, <2>3
  <2>. QED
    BY <2>3, <2>4, <2>5 DEF Coming
<1>. QED
  BY <1>2, <1>3

LEMMA PageRead ==
    ASSUME NEW json \in AllAnswers, json.kind = "page"
    PROVE  json \in PageAnswers
  BY DEF AllAnswers, Garbage, NoFields

LEMMA PageFields ==
    ASSUME NEW a \in PageAnswers
    PROVE  /\ a.kind = "page" /\ a.subtotal \in Nat
           /\ a.page \in Nat \ {0} /\ a.per_page \in Nat \ {0}
           /\ a.results \in Seq(Text)
           /\ a # NoFields /\ a # Garbage
<1>1. PICK T : T = Seq(Text)
  OBVIOUS
<1>2. a \in [kind : {"page"}, subtotal : Nat, page : Nat \ {0}, per_page : Nat \ {0},
             results : T]
  BY <1>1 DEF PageAnswers
<1>3. /\ a.kind = "page" /\ a.subtotal \in Nat
      /\ a.page \in Nat \ {0} /\ a.per_page \in Nat \ {0}
      /\ a.results \in T
  BY <1>2
<1>. QED
  BY <1>1, <1>3 DEF NoFields, Garbage

LEMMA PartsAre ==
    ASSUME NEW a \in AllAnswers
    PROVE  /\ Parts(a) \in Seq(BodyParts) /\ Len(Parts(a)) = 2
           /\ Parts(a) # << >>
           /\ {Parts(a)[c].of : c \in DOMAIN Parts(a)} = {a}
<1>1. PICK B : B = BodyParts
  OBVIOUS
<1>2. PICK first, second : /\ first = [part |-> 1, of |-> a]
                           /\ second = [part |-> 2, of |-> a]
  OBVIOUS
<1>3. first \in B /\ second \in B /\ first.of = a /\ second.of = a
  <2>1. B = [part : {1, 2}, of : AllAnswers]
    BY <1>1 DEF BodyParts, AllAnswers
  <2>. QED
    BY <1>2, <2>1
<1>4. Parts(a) = <<first, second>>
  BY <1>2 DEF Parts
<1>5. <<first, second>> \in Seq(B) /\ Len(<<first, second>>) = 2
  BY <1>3
<1>6. \A c \in DOMAIN Parts(a) : Parts(a)[c].of = a
  BY <1>3, <1>4
<1>7. 1 \in DOMAIN Parts(a)
  BY <1>4
<1>. QED
  BY <1>1, <1>4, <1>5, <1>6, <1>7

\* Those of a page are hosts.
LEMMA OnPageType ==
    ASSUME hosts \in Seq(Text), NEW p \in Nat \ {0}, NEW size \in Nat \ {0}
    PROVE  OnPage(p, size) \in Seq(Text)
<1>1. PICK H : H = Text
  OBVIOUS
<1>2. PICK first, end : /\ first = (p - 1) * size + 1
                        /\ end = IF p * size < Len(hosts) THEN p * size ELSE Len(hosts)
  OBVIOUS
<1>3. hosts \in Seq(H) /\ Len(hosts) \in Nat
  BY <1>1
<1>4. first \in Nat \ {0} /\ end \in Nat /\ end <= Len(hosts)
  <2>1. PICK a, b : a = (p - 1) * size /\ b = p * size
    OBVIOUS
  <2>2. a \in Nat /\ b \in Nat
    <3>1. p - 1 \in Nat
      OBVIOUS
    <3>. QED
      BY <2>1, <3>1
  <2>. QED
    BY <1>2, <1>3, <2>1, <2>2
<1>5. SubSeq(hosts, first, end) \in Seq(H)
  BY <1>3, <1>4
<1>. QED
  BY <1>1, <1>2, <1>5 DEF OnPage

TransferVars == <<foreman, headers, fits, sound, current_page, pages, results, nodes, before,
                  hosts, request, chunk, incoming>>

LEMMA TransferStays ==
    ASSUME TransferInv, UNCHANGED TransferVars
    PROVE  TransferInv'
  BY DEF TransferInv, TransferVars, AtCall, AtRequest, Waiting, BodyParts, PageAnswers

\* What is left when a transfer is over or given up.
LEMMA TransferStops ==
    ASSUME TransferInv, foreman' \in {"aborted", "crashed", "returned"},
           request' = NoText, incoming' \in {incoming, << >>},
           UNCHANGED <<chunk, fits, sound, current_page, pages, hosts, before>>,
           headers' \in {headers, "freed"}, nodes' \in Seq(Text), Len(nodes') >= Len(nodes)
    PROVE  TransferInv'
<1>1. chunk' \in Seq(BodyParts) /\ incoming' \in Seq(BodyParts)
      /\ Len(chunk') + Len(incoming') <= 2
  <2>1. PICK B : B = BodyParts
    OBVIOUS
  <2>2. chunk \in Seq(B) /\ incoming \in Seq(B) /\ Len(chunk) + Len(incoming) <= 2
    BY <2>1 DEF TransferInv
  <2>3. Len(chunk) \in Nat /\ Len(incoming) \in Nat /\ << >> \in Seq(B) /\ Len(<< >>) = 0
    BY <2>2
  <2>4. Len(chunk) + 0 <= 2
    BY <2>2, <2>3
  <2>5. incoming' \in Seq(B) /\ Len(chunk) + Len(incoming') <= 2
    <3>1. CASE incoming' = incoming
      BY <2>2, <3>1
    <3>2. CASE incoming' = << >>
      BY <2>3, <2>4, <3>2
    <3>. QED
      BY <3>1, <3>2
  <2>. QED
    BY <2>1, <2>2, <2>5
<1>2. BodyParts' = BodyParts
  BY DEF BodyParts, PageAnswers
<1>3. before \in 0..Len(nodes')
  <2>1. before \in 0..Len(nodes) /\ nodes \in Seq(Text)
    BY DEF TransferInv
  <2>2. Len(nodes) \in Nat /\ Len(nodes') \in Nat
    BY <2>1
  <2>. QED
    BY <2>1, <2>2
<1>4. request' \in MaybeText /\ ~Waiting'
  BY DEF MaybeText, Waiting
<1>. QED
  BY <1>1, <1>2, <1>3, <1>4 DEF TransferInv, AtCall

LEMMA NoneIsSeq == << >> \in Seq(BodyParts) /\ Len(<< >>) = 0
<1>1. PICK B : B = BodyParts
  OBVIOUS
<1>2. << >> \in Seq(B) /\ Len(<< >>) = 0
  OBVIOUS
<1>. QED
  BY <1>1, <1>2

LEMMA TransferCalls ==
    ASSUME TransferInv, foreman \in {"idle", "returned"}, collect
    PROVE  TransferInv'
<1>1. /\ foreman' = "collect" /\ before' = Len(nodes)
      /\ UNCHANGED <<headers, fits, sound, current_page, pages, nodes, hosts, request, chunk,
                     incoming>>
  BY DEF collect, pluginVars, transferVars, worldVars
<1>2. ~Waiting /\ Len(nodes) \in Nat
  BY DEF TransferInv, AtRequest
<1>. QED
  BY <1>1, <1>2 DEF TransferInv, AtCall, AtRequest, Waiting, BodyParts, PageAnswers

LEMMA TransferConfigured ==
    ASSUME TransferInv, init_curl
    PROVE  TransferInv'
<1>1. /\ foreman = "collect" /\ foreman' = "uri" /\ headers' = "live" /\ chunk' = << >>
      /\ UNCHANGED <<fits, sound, current_page, pages, nodes, before, hosts, request, incoming>>
  BY DEF init_curl, worldVars, observedVars
<1>2. ~Waiting
  BY <1>1 DEF TransferInv, AtRequest
<1>3. Len(chunk') + Len(incoming') <= 2 /\ chunk' \in Seq(BodyParts)
  <2>1. PICK B : B = BodyParts
    OBVIOUS
  <2>2. chunk \in Seq(B) /\ incoming \in Seq(B) /\ Len(chunk) + Len(incoming) <= 2
    BY <2>1 DEF TransferInv
  <2>3. Len(chunk) \in Nat /\ Len(incoming) \in Nat
    BY <2>2
  <2>4. 0 + Len(incoming) <= 2
    BY <2>2, <2>3
  <2>. QED
    BY <1>1, <2>1, <2>4, NoneIsSeq
<1>. QED
  BY <1>1, <1>2, <1>3 DEF TransferInv, AtCall, AtRequest, Waiting, BodyParts, PageAnswers

\* A request for the uri.
LEMMA TransferAsks ==
    ASSUME TransferInv, NEW u \in StoredUris, get_json(build(u)),
           foreman' \in {"first", "next"}, headers' = headers, fits' \in BOOLEAN,
           current_page' \in Nat, UNCHANGED <<sound, pages, hosts, before>>,
           nodes' \in Seq(Text), Len(nodes') >= Len(nodes)
    PROVE  TransferInv'
<1>1. request' \in MaybeText /\ chunk' = << >> /\ incoming' = << >>
  BY BuildType DEF get_json, MaybeText
<1>2. chunk' \in Seq(BodyParts) /\ incoming' \in Seq(BodyParts)
      /\ Len(chunk') + Len(incoming') <= 2
  BY <1>1, NoneIsSeq
<1>3. before \in 0..Len(nodes')
  <2>1. before \in 0..Len(nodes) /\ nodes \in Seq(Text)
    BY DEF TransferInv
  <2>2. Len(nodes) \in Nat /\ Len(nodes') \in Nat
    BY <2>1
  <2>. QED
    BY <2>1, <2>2
<1>4. AtRequest' /\ AtCall'
  BY DEF AtRequest, AtCall
<1>. QED
  BY <1>1, <1>2, <1>3, <1>4 DEF TransferInv, BodyParts, PageAnswers

\* The hosts of a page become nodes.
LEMMA NodesGrow ==
    ASSUME TransferInv, NEW more \in Seq(Text)
    PROVE  nodes \o more \in Seq(Text) /\ Len(nodes \o more) = Len(nodes) + Len(more)
           /\ Len(nodes \o more) >= Len(nodes)
<1>1. PICK T : T = Text
  OBVIOUS
<1>2. nodes \in Seq(T) /\ more \in Seq(T)
  BY <1>1 DEF TransferInv
<1>. QED
  BY <1>1, <1>2

LEMMA ServersType == [m \in 1..10 |-> <<"server-", Digits[m]>>] \in Seq(Text)
<1>1. ASSUME NEW m \in 1..10
      PROVE  <<"server-", Digits[m]>> \in Text
  <2>1. Digits[m] \in Symbols /\ "server-" \in Symbols
    <3>1. m \in DOMAIN Digits
      BY DEF Digits
    <3>2. Digits[m] \in ToSet(Digits)
      BY <3>1 DEF ToSet
    <3>. QED
      BY <3>2, ForemanAssumption, CommandLineAssumption
  <2>2. PICK d : d = Digits[m]
    OBVIOUS
  <2>. QED
    BY <2>1, <2>2 DEF Text
<1>2. PICK T : T = Text
  OBVIOUS
<1>3. [m \in 1..10 |-> <<"server-", Digits[m]>>] \in [1..10 -> T]
  BY <1>1, <1>2
<1>4. \A len \in Nat : \A f \in [1..len -> T] : f \in Seq(T)
  OBVIOUS
<1>5. \A f \in [1..10 -> T] : f \in Seq(T)
  BY <1>4
<1>. QED
  BY <1>2, <1>3, <1>5

\* Each step of foreman and of the server.
LEMMA TransferEnds ==
    ASSUME TransferInv,
           \/ NotConfigured \/ HeadersReused \/ BadUrl \/ UrlOverread \/ IncompleteUrl
           \/ PerformFails \/ Unparsable \/ MissingResults
    PROVE  TransferInv'
<1>1. /\ foreman' \in {"aborted", "crashed"} /\ request' = NoText /\ incoming' = << >>
      /\ UNCHANGED <<chunk, fits, sound, current_page, pages, hosts, before, headers, nodes>>
  BY DEF NotConfigured, HeadersReused, BadUrl, UrlOverread, IncompleteUrl,
         PerformFails, Unparsable, MissingResults, Stops, pluginVars, worldVars, observedVars
<1>2. nodes' \in Seq(Text) /\ Len(nodes') >= Len(nodes)
  <2>1. nodes \in Seq(Text)
    BY DEF TransferInv
  <2>2. Len(nodes) \in Nat
    BY <2>1
  <2>. QED
    BY <1>1, <2>1, <2>2
<1>. QED
  BY <1>1, <1>2, TransferStops

LEMMA TransferRequests ==
    ASSUME RequestInv, TransferInv, FirstRequest
    PROVE  TransferInv'
<1>. DEFINE u == add_get_param(Prepared, Page, Number(1))
<1>1. /\ get_json(build(u)) /\ fits' = HasRoom(Prepared) /\ foreman' = "first"
      /\ foreman = "uri"
      /\ UNCHANGED <<headers, current_page, sound, pages, hosts, before, nodes>>
  BY DEF FirstRequest, worldVars
<1>2. u \in StoredUris
  BY <1>1, PreparedType, AddsPage
<1>3. HasRoom(Prepared) \in BOOLEAN
  BY DEF HasRoom
<1>4. nodes' \in Seq(Text) /\ Len(nodes') >= Len(nodes) /\ current_page' \in Nat
  <2>1. nodes \in Seq(Text) /\ current_page \in Nat
    BY DEF TransferInv
  <2>2. Len(nodes) \in Nat
    BY <2>1
  <2>. QED
    BY <1>1, <2>1, <2>2
<1>. HIDE DEF u
<1>5. headers' = headers /\ fits' \in BOOLEAN /\ foreman' \in {"first", "next"}
  BY <1>1, <1>3
<1>6. UNCHANGED <<sound, pages, hosts, before>>
  BY <1>1
<1>. QED
  BY <1>1, <1>2, <1>4, <1>5, <1>6, TransferAsks

LEMMA TransferAdds ==
    ASSUME RequestInv, TransferInv, AddHosts
    PROVE  TransferInv'
<1>. DEFINE u == set_get_param(baseuri, Page, Number(current_page + 1))
<1>1. /\ get_json(build(u)) /\ foreman' = "next" /\ foreman = "hosts" /\ results # NoText
      /\ current_page' = current_page + 1 /\ nodes' = nodes \o results
      /\ UNCHANGED <<headers, fits, sound, pages, hosts, before>>
  BY DEF AddHosts, worldVars, observedVars
<1>2. current_page + 1 \in Nat
  BY DEF TransferInv
<1>3. u \in StoredUris
  BY <1>2, AddsPage DEF RequestInv
<1>4. nodes' \in Seq(Text) /\ Len(nodes') >= Len(nodes)
  BY <1>1, NodesGrow DEF TransferInv
<1>. HIDE DEF u
<1>5. headers' = headers /\ fits' \in BOOLEAN /\ foreman' \in {"first", "next"}
  BY <1>1 DEF TransferInv
<1>6. UNCHANGED <<sound, pages, hosts, before>> /\ current_page' \in Nat
  BY <1>1, <1>2
<1>. QED
  BY <1>1, <1>3, <1>4, <1>5, <1>6, TransferAsks

LEMMA TransferReturns ==
    ASSUME TransferInv, NoResults \/ AddOnlyPage \/ (NextPage /\ foreman' = "returned")
    PROVE  TransferInv'
<1>1. /\ foreman' = "returned" /\ headers' \in {headers, "freed"}
      /\ UNCHANGED <<request, incoming, chunk, fits, sound, current_page, pages, hosts, before>>
  BY DEF NoResults, AddOnlyPage, NextPage, Returns, transferVars, worldVars, observedVars
<1>2. request = NoText
  <2>1. CASE NoResults \/ NextPage
    BY <2>1 DEF NoResults, NextPage, Received, Waiting
  <2>2. CASE AddOnlyPage
    BY <2>2 DEF AddOnlyPage, TransferInv, AtRequest, Waiting
  <2>. QED
    BY <2>1, <2>2
<1>3. nodes' \in Seq(Text) /\ Len(nodes') >= Len(nodes)
  <2>1. CASE NoResults \/ NextPage
    <3>1. nodes' = nodes /\ nodes \in Seq(Text)
      BY <2>1 DEF NoResults, NextPage, TransferInv
    <3>2. Len(nodes) \in Nat
      BY <3>1
    <3>. QED
      BY <3>1, <3>2
  <2>2. CASE AddOnlyPage
    BY <2>2, NodesGrow DEF AddOnlyPage, TransferInv
  <2>. QED
    BY <2>1, <2>2
<1>. QED
  BY <1>1, <1>2, <1>3, TransferStops

LEMMA TransferReads ==
    ASSUME TransferInv, FirstPage \/ (NextPage /\ foreman' = "hosts")
    PROVE  TransferInv'
<1>1. PICK json \in json_tokener_parse(chunk) :
            \/ /\ FirstPage /\ json.kind = "page"
               /\ current_page' = json.page
               /\ pages' = PageCount(json.subtotal, json.per_page)
               /\ results' = json.results
            \/ /\ NextPage /\ json # Garbage /\ foreman' = "hosts"
               /\ results' = IF json = NoFields THEN NoText ELSE json.results
               /\ current_page' = current_page /\ pages' = pages
  BY DEF FirstPage, NextPage
<1>2. json \in AllAnswers
  BY AnswersRead
<1>3. /\ current_page' \in Nat /\ pages' \in Nat
      /\ results' \in Seq(Text) \union {NoText}
  <2>1. CASE /\ FirstPage /\ json.kind = "page"
             /\ current_page' = json.page
             /\ pages' = PageCount(json.subtotal, json.per_page)
             /\ results' = json.results
    <3>1. json \in PageAnswers
      BY <1>2, <2>1, PageRead
    <3>2. /\ json.page \in Nat /\ json.results \in Seq(Text)
          /\ PageCount(json.subtotal, json.per_page) \in Nat
      BY <3>1, PageFields, PagesHold
    <3>. QED
      BY <2>1, <3>2
  <2>2. CASE /\ NextPage /\ json # Garbage
             /\ results' = IF json = NoFields THEN NoText ELSE json.results
             /\ current_page' = current_page /\ pages' = pages
    <3>1. json = NoFields \/ json \in PageAnswers
      BY <1>2, <2>2 DEF AllAnswers
    <3>2. json \in PageAnswers => json.results \in Seq(Text)
      BY PageFields
    <3>. QED
      BY <2>2, <3>1, <3>2 DEF TransferInv
  <2>. QED
    BY <1>1, <2>1, <2>2
<1>4. /\ foreman' = "hosts"
      /\ UNCHANGED <<headers, fits, sound, nodes, before, hosts, request, chunk, incoming>>
  BY DEF FirstPage, NextPage, Returns, transferVars, worldVars, observedVars
<1>5. ~Waiting
  BY DEF FirstPage, NextPage, Received
<1>. QED
  BY <1>3, <1>4, <1>5 DEF TransferInv, AtCall, AtRequest, Waiting, BodyParts, PageAnswers

LEMMA TransferReceives ==
    ASSUME TransferInv, Receive
    PROVE  TransferInv' /\ Coming' = Coming
<1>1. /\ ~Waiting /\ incoming # << >>
      /\ chunk' = Append(chunk, Head(incoming)) /\ incoming' = Tail(incoming)
      /\ UNCHANGED <<foreman, headers, fits, sound, current_page, pages, results, nodes, before,
                     hosts, request>>
  BY DEF Receive, pluginVars, worldVars, observedVars
<1>2. PICK B : B = BodyParts
  OBVIOUS
<1>3. chunk \in Seq(B) /\ incoming \in Seq(B) /\ Len(chunk) + Len(incoming) <= 2
  BY <1>2 DEF TransferInv
<1>4. PICK c, p \in Nat : c = Len(chunk) /\ p = Len(incoming)
  BY <1>3
<1>5. p > 0 /\ Head(incoming) = incoming[1] /\ incoming[1] \in B
  BY <1>1, <1>3, <1>4
<1>6. /\ chunk' \in Seq(B) /\ Len(chunk') = c + 1
      /\ chunk'[c + 1] = incoming[1] /\ \A j \in 1..c : chunk'[j] = chunk[j]
  BY <1>1, <1>3, <1>4, <1>5
<1>7. /\ incoming' \in Seq(B) /\ Len(incoming') = p - 1
      /\ \A j \in 1..(p - 1) : incoming'[j] = incoming[j + 1]
  BY <1>1, <1>3, <1>4
<1>8. Coming' = Coming
  <2>1. /\ DOMAIN chunk = 1..c /\ DOMAIN incoming = 1..p
        /\ DOMAIN chunk' = 1..(c + 1) /\ DOMAIN incoming' = 1..(p - 1)
    BY <1>3, <1>4, <1>6, <1>7
  <2>2. ASSUME NEW a \in Coming
        PROVE  a \in Coming'
    <3>1. CASE \E j \in 1..c : a = chunk[j].of
      <4>1. PICK j \in 1..c : a = chunk[j].of
        BY <3>1
      <4>2. j \in 1..(c + 1) /\ a = chunk'[j].of
        BY <1>6, <4>1
      <4>. QED
        BY <2>1, <4>2 DEF Coming
    <3>2. CASE \E j \in 1..p : a = incoming[j].of
      <4>1. PICK j \in 1..p : a = incoming[j].of
        BY <3>2
      <4>2. CASE j = 1
        <5>1. c + 1 \in 1..(c + 1) /\ a = chunk'[c + 1].of
          BY <1>6, <4>1, <4>2
        <5>. QED
          BY <2>1, <5>1 DEF Coming
      <4>3. CASE j # 1
        <5>1. PICK m : m = j - 1
          OBVIOUS
        <5>2. m \in 1..(p - 1) /\ j = m + 1
          BY <4>3, <5>1
        <5>3. a = incoming'[m].of
          BY <1>7, <4>1, <5>2
        <5>. QED
          BY <2>1, <5>2, <5>3 DEF Coming
      <4>. QED
        BY <4>2, <4>3
    <3>. QED
      BY <2>1, <3>1, <3>2 DEF Coming
  <2>3. ASSUME NEW a \in Coming'
        PROVE  a \in Coming
    <3>1. CASE \E j \in 1..(c + 1) : a = chunk'[j].of
      <4>1. PICK j \in 1..(c + 1) : a = chunk'[j].of
        BY <3>1
      <4>2. CASE j = c + 1
        <5>1. 1 \in 1..p /\ a = incoming[1].of
          BY <1>5, <1>6, <4>1, <4>2
        <5>. QED
          BY <2>1, <5>1 DEF Coming
      <4>3. CASE j # c + 1
        <5>1. j \in 1..c /\ a = chunk[j].of
          BY <1>6, <4>1, <4>3
        <5>. QED
          BY <2>1, <5>1 DEF Coming
      <4>. QED
        BY <4>2, <4>3
    <3>2. CASE \E j \in 1..(p - 1) : a = incoming'[j].of
      <4>1. PICK j \in 1..(p - 1) : a = incoming'[j].of
        BY <3>2
      <4>2. j + 1 \in 1..p /\ a = incoming[j + 1].of
        BY <1>7, <4>1
      <4>. QED
        BY <2>1, <4>2 DEF Coming
    <3>. QED
      BY <2>1, <3>1, <3>2 DEF Coming
  <2>. QED
    BY <2>2, <2>3
<1>9. /\ chunk' \in Seq(BodyParts) /\ incoming' \in Seq(BodyParts)
      /\ Len(chunk') + Len(incoming') <= 2
  <2>1. c + 1 + (p - 1) <= 2
    BY <1>3, <1>4
  <2>. QED
    BY <1>2, <1>6, <1>7, <2>1
<1>. QED
  BY <1>1, <1>8, <1>9 DEF TransferInv, AtCall, AtRequest, Waiting, BodyParts, PageAnswers

LEMMA TransferAnswered ==
    ASSUME TransferInv, Serve \/ ServeBad
    PROVE  /\ TransferInv'
           /\ Serve => Coming' = {[kind |-> "page", subtotal |-> Len(hosts),
                                   page |-> PageAsked, per_page |-> PerPageAsked,
                                   results |-> OnPage(PageAsked, PerPageAsked)]}
           /\ ServeBad => Coming' \subseteq {Garbage, NoFields}
           /\ Coming' \subseteq AllAnswers
<1>. DEFINE page == [kind |-> "page", subtotal |-> Len(hosts),
                     page |-> PageAsked, per_page |-> PerPageAsked,
                     results |-> OnPage(PageAsked, PerPageAsked)]
<1>1. /\ Waiting /\ request' = NoText
      /\ UNCHANGED <<foreman, headers, fits, current_page, pages, results, nodes, before,
                     hosts, chunk>>
      /\ sound' \in BOOLEAN
  BY DEF Serve, ServeBad, Answers, pluginVars, TransferInv
<1>2. chunk = << >> /\ incoming = << >> /\ hosts \in Seq(Text)
  BY <1>1 DEF TransferInv
<1>3. ASSUME Serve
      PROVE  page \in AllAnswers /\ incoming' = Parts(page)
  <2>1. request \in Text
    BY <1>1 DEF TransferInv, Waiting, MaybeText
  <2>2. PageAsked \in Nat \ {0} /\ PerPageAsked \in Nat \ {0}
    BY <1>3, <2>1, ServerReadsNumbers DEF Serve
  <2>3. PICK p, size : p = PageAsked /\ size = PerPageAsked
    OBVIOUS
  <2>4. PICK T : T = Seq(Text)
    OBVIOUS
  <2>5. OnPage(p, size) \in T /\ Len(hosts) \in Nat
    BY <1>2, <2>2, <2>3, <2>4, OnPageType
  <2>6. page = [kind |-> "page", subtotal |-> Len(hosts), page |-> p, per_page |-> size,
                results |-> OnPage(p, size)]
    BY <2>3
  <2>7. [kind |-> "page", subtotal |-> Len(hosts), page |-> p, per_page |-> size,
         results |-> OnPage(p, size)]
          \in [kind : {"page"}, subtotal : Nat, page : Nat \ {0}, per_page : Nat \ {0},
              results : T]
    BY <2>2, <2>3, <2>5
  <2>8. page \in PageAnswers
    BY <2>4, <2>6, <2>7 DEF PageAnswers
  <2>9. incoming' = Parts(page)
    BY <1>3 DEF Serve
  <2>. QED
    BY <2>8, <2>9 DEF AllAnswers
<1>. HIDE DEF page
<1>4. \/ \E a \in AllAnswers : incoming' = Parts(a)
      \/ incoming' = << >>
  <2>1. CASE Serve
    BY <1>3, <2>1
  <2>2. CASE ServeBad
    <3>1. incoming' \in {Parts(Garbage), Parts(NoFields), << >>}
      BY <2>2 DEF ServeBad
    <3>. QED
      BY <3>1 DEF AllAnswers
  <2>. QED
    BY <2>1, <2>2
<1>5. incoming' \in Seq(BodyParts) /\ Len(chunk') + Len(incoming') <= 2
  <2>1. incoming' \in Seq(BodyParts) /\ Len(incoming') \in {0, 2}
    BY <1>4, PartsAre, NoneIsSeq
  <2>2. Len(chunk') = 0
    BY <1>1, <1>2, NoneIsSeq
  <2>3. PICK c, p : c = Len(chunk') /\ p = Len(incoming')
    OBVIOUS
  <2>4. c + p <= 2
    BY <2>1, <2>2, <2>3
  <2>. QED
    BY <2>1, <2>3, <2>4, Zenon
<1>6. TransferInv'
  <2>1. chunk' \in Seq(BodyParts) /\ BodyParts' = BodyParts
    BY <1>1 DEF TransferInv, BodyParts, PageAnswers
  <2>2. ~Waiting' /\ request' \in MaybeText
    BY <1>1 DEF Waiting, MaybeText
  <2>. QED
    BY <1>1, <1>5, <2>1, <2>2 DEF TransferInv, AtCall
<1>7. ASSUME NEW a \in AllAnswers, incoming' = Parts(a)
      PROVE  Coming' = {a}
  <2>1. {Parts(a)[c].of : c \in DOMAIN Parts(a)} = {a}
    BY PartsAre
  <2>2. {chunk'[c].of : c \in DOMAIN chunk'} = {}
    BY <1>1, <1>2
  <2>. QED
    BY <1>7, <2>1, <2>2 DEF Coming
<1>8. Serve => Coming' = {page}
  BY <1>3, <1>7
<1>9. ASSUME ServeBad
      PROVE  Coming' \subseteq {Garbage, NoFields}
  <2>1. incoming' \in {Parts(Garbage), Parts(NoFields), << >>}
    BY <1>9 DEF ServeBad
  <2>2. CASE incoming' = << >>
    BY <1>1, <1>2, <2>2 DEF Coming
  <2>3. CASE incoming' # << >>
    <3>1. Garbage \in AllAnswers /\ NoFields \in AllAnswers
      BY DEF AllAnswers
    <3>. QED
      BY <1>7, <2>1, <2>3, <3>1
  <2>. QED
    BY <2>2, <2>3
<1>10. Coming' \subseteq AllAnswers
  BY <1>3, <1>8, <1>9 DEF AllAnswers
<1>. QED
  BY <1>6, <1>8, <1>9, <1>10 DEF page

\* The hosts that stay when one is deleted: those in front of it, and those behind it
\* one place further in front.
LEMMA HostsMove ==
    ASSUME TransferInv, HostVanishes
    PROVE  /\ hosts' \in Seq(Text) /\ IsInjective(hosts')
           /\ \A j \in DOMAIN hosts' : \E m \in DOMAIN hosts : m >= j /\ hosts'[j] = hosts[m]
<1>1. PICK c \in DOMAIN hosts : hosts' = RemoveAt(hosts, c)
  BY DEF HostVanishes
<1>2. hosts \in Seq(Text) /\ IsInjective(hosts)
  BY DEF TransferInv
<1>3. Len(hosts) \in Nat /\ c \in 1..Len(hosts) /\ DOMAIN hosts = 1..Len(hosts)
  BY <1>2
<1>4. /\ hosts' \in Seq(Text) /\ Len(hosts') = Len(hosts) - 1
      /\ \A j \in 1..(Len(hosts) - 1) :
            hosts'[j] = IF j < c THEN hosts[j] ELSE hosts[j + 1]
  BY <1>1, <1>2, WithoutOne
<1>5. DOMAIN hosts' = 1..(Len(hosts) - 1)
  BY <1>4
<1>6. ASSUME NEW a \in DOMAIN hosts', NEW b \in DOMAIN hosts', hosts'[a] = hosts'[b]
      PROVE  a = b
  <2>1. PICK p, q : /\ p = (IF a < c THEN a ELSE a + 1)
                    /\ q = (IF b < c THEN b ELSE b + 1)
    OBVIOUS
  <2>2. /\ p \in DOMAIN hosts /\ q \in DOMAIN hosts
        /\ hosts'[a] = hosts[p] /\ hosts'[b] = hosts[q]
    BY <1>3, <1>4, <1>5, <2>1
  <2>3. p = q
    BY <1>2, <1>6, <2>2 DEF IsInjective
  <2>. QED
    BY <1>3, <1>5, <2>1, <2>3
<1>7. ASSUME NEW j \in DOMAIN hosts'
      PROVE  \E m \in DOMAIN hosts : m >= j /\ hosts'[j] = hosts[m]
  <2>1. PICK m : m = IF j < c THEN j ELSE j + 1
    OBVIOUS
  <2>2. m \in DOMAIN hosts /\ m >= j /\ hosts'[j] = hosts[m]
    BY <1>3, <1>4, <1>5, <2>1
  <2>. QED
    BY <2>2
<1>8. IsInjective(hosts')
  BY <1>6 DEF IsInjective
<1>. QED
  BY <1>4, <1>7, <1>8

LEMMA TransferLoses ==
    ASSUME TransferInv, HostVanishes
    PROVE  TransferInv'
<1>1. /\ sound' \in BOOLEAN
      /\ UNCHANGED <<foreman, headers, fits, current_page, pages, results, nodes, before,
                     request, chunk, incoming>>
  BY DEF HostVanishes, pluginVars, transferVars, observedVars
<1>. QED
  BY <1>1, HostsMove DEF TransferInv, AtCall, AtRequest, Waiting, BodyParts, PageAnswers

LEMMA TransferCollects ==
    ASSUME RequestInv, TransferInv, CallForeman \/ CallDummy \/ ForemanStep \/ ServerStep
    PROVE  TransferInv'
<1>1. CASE CallForeman
  BY <1>1, TransferCalls DEF CallForeman
<1>2. CASE CallDummy
  <2>1. /\ foreman \in {"idle", "returned"} /\ foreman' = "idle"
        /\ nodes' = nodes \o [m \in 1..10 |-> <<"server-", Digits[m]>>]
        /\ UNCHANGED <<headers, fits, sound, current_page, pages, before, hosts, request, chunk,
                       incoming>>
    BY <1>2 DEF CallDummy, pluginVars, transferVars, worldVars, observedVars
  <2>2. PICK more : more = [m \in 1..10 |-> <<"server-", Digits[m]>>]
    OBVIOUS
  <2>3. nodes' = nodes \o more /\ more \in Seq(Text)
    BY <2>1, <2>2, ServersType
  <2>4. nodes' \in Seq(Text) /\ Len(nodes') >= Len(nodes)
    BY <2>3, NodesGrow
  <2>5. before' \in 0..Len(nodes')
    <3>1. before \in 0..Len(nodes) /\ nodes \in Seq(Text)
      BY DEF TransferInv
    <3>2. Len(nodes) \in Nat /\ Len(nodes') \in Nat
      BY <2>4, <3>1
    <3>. QED
      BY <2>1, <2>4, <3>1, <3>2
  <2>6. ~Waiting
    BY <2>1 DEF TransferInv, AtRequest
  <2>. QED
    BY <2>1, <2>4, <2>5, <2>6
    DEF TransferInv, AtCall, AtRequest, Waiting, BodyParts, PageAnswers
<1>3. CASE ForemanStep
  <2>1. ForemanNext
    BY <1>3 DEF ForemanStep
  <2>2. NextPage => foreman' \in {"hosts", "returned"}
    BY DEF NextPage, Returns
  <2>. QED
    BY <2>1, <2>2, TransferEnds, TransferConfigured, TransferRequests, TransferReceives,
       TransferReturns, TransferReads, TransferAdds DEF ForemanNext
<1>4. CASE ServerStep
  BY <1>4, TransferAnswered, TransferLoses DEF ServerStep, ServerNext
<1>. QED
  BY <1>1, <1>2, <1>3, <1>4

\* main's own steps leave the call of collect alone.
LEMMA MainLeavesTransfer ==
    ASSUME MainStep
    PROVE  CallForeman \/ CallDummy \/ ForemanStep \/ UNCHANGED TransferVars
<1>1. CASE \/ ParserEnds \/ RequireFails \/ LogOptionFails \/ HelpOrVersion \/ CallbackFails
           \/ SetKeyToNull \/ ConcurrentFails \/ CollectEnds \/ NoCommand \/ JoinCommand
  <2>1. \E how \in Ends : EndsWith(how)
    BY <1>1 DEF ParserEnds, RequireFails, LogOptionFails, HelpOrVersion, CallbackFails,
                SetKeyToNull, ConcurrentFails, CollectEnds, NoCommand, JoinCommand, Ends
  <2>2. UNCHANGED foremanVars
    BY <2>1 DEF EndsWith
  <2>. QED
    BY <2>2 DEF foremanVars, pluginVars, transferVars, worldVars, observedVars, TransferVars
<1>2. CASE ParseStep \/ BeginPlugins \/ ParseForKey \/ NextPlugin \/ BeginCollect
  <2>1. UNCHANGED foremanVars
    BY <1>2 DEF ParseStep, BeginPlugins, ParseForKey, NextPlugin, BeginCollect
  <2>. QED
    BY <2>1 DEF foremanVars, pluginVars, transferVars, worldVars, observedVars, TransferVars
<1>3. CASE LoadPlugin \/ SetKey
  BY <1>3 DEF LoadPlugin, SetKey, transferVars, worldVars, observedVars, TransferVars
<1>. QED
  BY <1>1, <1>2, <1>3 DEF MainStep

LEMMA ProgramStays ==
    ASSUME [Next]_vars
    PROVE  \/ /\ program = "distexec"
              /\ CallForeman \/ CallDummy \/ ForemanStep \/ ServerStep
           \/ UNCHANGED TransferVars
<1>1. CASE DistexecStep
  BY <1>1, MainLeavesTransfer DEF DistexecStep
<1>2. CASE AnswerStep
  BY <1>2 DEF AnswerStep
<1>3. CASE UriStep \/ PopenStep \/ UNCHANGED vars
  <2>1. UNCHANGED foremanVars
    BY <1>3 DEF UriStep, PopenStep, vars, commandVars
  <2>. QED
    BY <2>1 DEF foremanVars, pluginVars, transferVars, worldVars, observedVars, TransferVars
<1>. QED
  BY <1>1, <1>2, <1>3 DEF Next, Terminated

\* Before anything is collected there are no nodes and nothing is sent.
LEMMA ForemanStarts ==
    ASSUME Init
    PROVE  \E served : served \in Seq(Text) /\ IsInjective(served) /\ ForemanInit(served)
<1>1. CASE Distexec
  BY <1>1, ProgramsAssumption DEF Distexec
<1>2. CASE Idle
  <2>1. PICK T : T = Text
    OBVIOUS
  <2>2. << >> \in Seq(T) /\ IsInjective(<< >>)
    BY DEF IsInjective
  <2>. QED
    BY <1>2, <2>1, <2>2 DEF Idle
<1>. QED
  BY <1>1, <1>2 DEF Init, TestUri, TestPopen3

LEMMA TransferInit == Init => TransferInv
<1>. SUFFICES ASSUME Init PROVE TransferInv
  OBVIOUS
<1>1. PICK served : served \in Seq(Text) /\ IsInjective(served) /\ ForemanInit(served)
  BY ForemanStarts
<1>2. PICK T : T = Text
  OBVIOUS
<1>3. nodes \in Seq(T) /\ Len(nodes) = 0
  BY <1>1 DEF ForemanInit
<1>4. chunk \in Seq(BodyParts) /\ incoming \in Seq(BodyParts) /\ Len(chunk) + Len(incoming) <= 2
  BY <1>1, NoneIsSeq DEF ForemanInit
<1>. QED
  BY <1>1, <1>2, <1>3, <1>4 DEF ForemanInit, TransferInv, AtCall, Waiting, MaybeText

-----------------------------------------------------------------------------
(* The line, the uris and what comes in *)

ProgramsInv == ConfigInv /\ BufferInv /\ TransferInv

LEMMA ProgramsInit == Init => ProgramsInv
  BY ConfigInit, BufferInit, TransferInit DEF ProgramsInv

LEMMA ProgramsStep ==
    ASSUME ProgramsInv, [Next]_vars
    PROVE  ProgramsInv'
<1>1. ConfigInv /\ BufferInv /\ TransferInv /\ current_page \in Nat
  BY DEF ProgramsInv, TransferInv
<1>2. TransferInv'
  BY <1>1, ProgramStays, TransferStays, TransferCollects DEF BufferInv
<1>. QED
  BY <1>1, <1>2, ConfigStep, BufferStep DEF ProgramsInv

\* Whatever the line, the configuration and the server, and whatever parameters
\* test-uri adds, the buffer of libdistexec_uri_build is overrun by one byte at
\* most (uri.c:174-186).
THEOREM BufferOverrun == FairSpec => []OverrunByOne
<1>1. BufferInv => OverrunByOne
  <2>. SUFFICES ASSUME BufferInv PROVE OverrunByOne
    OBVIOUS
  <2>1. \A u \in StoredUris : BuiltInto(u).over <= 1
    <3>1. ASSUME NEW u \in Uris(Symbols) PROVE BuiltInto(u).over <= 1
      BY BuildOverrun
    <3>. QED
      BY <3>1, StoredAre
  <2>2. program = "test-uri" => BuiltInto(uri).over <= 1
    BY <2>1, UserUrisAre, StoredAndPlain DEF BufferInv, UriUserInv
  <2>. DEFINE sent ==
                IF foreman = "first" THEN add_get_param(baseuri, Page, Number(1)) ELSE baseuri
  <2>3. sent \in StoredUris
    BY AddsPage DEF BufferInv, RequestInv
  <2>4. BuiltInto(sent).over <= 1
    <3>. HIDE DEF sent
    <3>. QED
      BY <2>1, <2>3
  <2>. QED
    BY <2>2, <2>4 DEF OverrunByOne
<1>. QED
  BY <1>1, ProgramsInit, ProgramsStep, PTL DEF FairSpec, ProgramsInv

-----------------------------------------------------------------------------
(* test-uri: what was put together and what is parsed from its text *)

RoundTripInv == RoundTrip /\ (program # "test-uri" => test_uri = "params")

\* What the test puts together is read back as it is.
LEMMA UserUriReads ==
    ASSUME NEW u \in UserUris, Len(u.get_params) <= URI_MAX_PARAMS
    PROVE  parse(build(u), uri_new) = [rc |-> 0, uri |-> u]
<1>. DEFINE params == u.get_params
            P == [key : PlainKeys, value : (Text \ {<< >>}) \union {NoText}]
<1>1. PICK Ps : Ps = Seq(P)
  OBVIOUS
<1>2. u \in [scheme : Without({":"}), hostname : Without({":", "/"}),
             port : Without({"/"}) \union {NoText}, path : Without({"?"}),
             get_params : Ps]
  BY <1>1 DEF UserUris, UriSet
<1>3. params \in Seq(P)
  BY <1>1, <1>2
<1>4. KeptParams(params) = params
  <2>1. \A p \in P : Kept(p) = p
    <3>1. ASSUME NEW p \in P PROVE Kept(p) = p
      <4>1. p.value # << >>
        <5>1. << >> # NoText
          BY TextsAre
        <5>. QED
          BY <5>1
      <4>. QED
        BY <4>1 DEF Kept
    <3>. QED
      BY <3>1
  <2>2. PICK R : R = P
    OBVIOUS
  <2>3. params \in Seq(R) /\ \A p \in R : Kept(p) = p
    BY <1>3, <2>1, <2>2
  <2>. HIDE DEF params
  <2>4. \A c \in DOMAIN params : params[c] \in R
    BY <2>3
  <2>5. params = [c \in DOMAIN params |-> params[c]]
    BY <2>3
  <2>. QED
    BY <2>3, <2>4, <2>5 DEF KeptParams
<1>5. [u EXCEPT !.get_params = params] = u
  BY <1>2
<1>6. parse(build(u), uri_new)
        = [rc |-> 0, uri |-> [u EXCEPT !.get_params = KeptParams(params)]]
  BY UserUrisAre, ParseUndoesBuild
<1>. QED
  BY <1>4, <1>5, <1>6, Zenon

LEMMA RoundTripInit == Init => RoundTripInv
  BY DEF Init, Distexec, TestUri, TestPopen3, UriInit, RoundTripInv, RoundTrip

LEMMA RoundTripUser ==
    ASSUME UriUserInv, program = "test-uri", UriNext
    PROVE  RoundTrip'
<1>1. CASE AddParam \/ SetParam
  BY <1>1 DEF AddParam, SetParam, Op, RoundTrip
<1>2. CASE ParseBack
  <2>. DEFINE parsed == parse(build(uri), uri_new)
  <2>1. parsed = [rc |-> 0, uri |-> uri]
    BY UserUriReads DEF UriUserInv
  <2>2. parsed.rc = 0 /\ parsed.uri = uri
    BY <2>1
  <2>3. /\ uri1' = parsed.uri /\ uri' = uri
        /\ test_uri' = IF parsed.rc = 0 THEN "parsed" ELSE "aborted"
    BY <1>2 DEF ParseBack
  <2>. HIDE DEF parsed
  <2>. QED
    BY <2>2, <2>3 DEF RoundTrip
<1>. QED
  BY <1>1, <1>2 DEF UriNext

LEMMA RoundTripStep ==
    ASSUME RoundTripInv, UriUserInv, [Next]_vars
    PROVE  RoundTripInv'
<1>1. CASE UriStep
  <2>1. program = "test-uri" /\ program' = program /\ UriNext
    BY <1>1 DEF UriStep
  <2>. QED
    BY <2>1, RoundTripUser DEF RoundTripInv
<1>2. CASE ~UriStep
  <2>1. program' = program /\ uri' = uri /\ uri1' = uri1 /\ test_uri' = test_uri
    BY <1>2 DEF Next, DistexecStep, AnswerStep, PopenStep, Terminated, vars, uriVars
  <2>. QED
    BY <2>1 DEF RoundTripInv, RoundTrip
<1>. QED
  BY <1>1, <1>2

\* Whatever keys and values test-uri adds or sets, and however many, the uri parsed
\* from the text of the one it put together is the same in all parts and all
\* parameters, and the parser never gives up (test-uri.c:27-39).
THEOREM RoundTrips == FairSpec => []RoundTrip
<1>1. RoundTripInv => RoundTrip
  BY DEF RoundTripInv
<1>2. Init => ProgramsInv /\ RoundTripInv
  BY ProgramsInit, RoundTripInit
<1>3. ProgramsInv /\ RoundTripInv /\ [Next]_vars => (ProgramsInv /\ RoundTripInv)'
  BY ProgramsStep, RoundTripStep DEF ProgramsInv, BufferInv
<1>. QED
  BY <1>1, <1>2, <1>3, PTL DEF FairSpec

-----------------------------------------------------------------------------
(* What is asked of the server *)

\* Parameters with other keys do not.
LEMMA AskedAlike ==
    ASSUME NEW p, NEW q, NEW a \in Nat, NEW b \in Nat, DOMAIN p = 1..a, DOMAIN q = 1..b,
           NEW key, NEW default,
           \A j \in 1..a : p[j].key = key =>
                j \in 1..b /\ q[j].key = key /\ q[j].value = p[j].value,
           \A j \in 1..b : q[j].key = key => j \in 1..a /\ p[j].key = key
    PROVE  AskedOf(p, key, default) = AskedOf(q, key, default)
<1>1. \/ /\ \A j \in 1..a : p[j].key # key
         /\ AskedOf(p, key, default) = default
      \/ \E at \in 1..a :
           /\ LastOf(p, at, key)
           /\ AskedOf(p, key, default) = Meaning(p[at].value)
  BY AskedOfIs
<1>2. \/ /\ \A j \in 1..b : q[j].key # key
         /\ AskedOf(q, key, default) = default
      \/ \E at \in 1..b :
           /\ LastOf(q, at, key)
           /\ AskedOf(q, key, default) = Meaning(q[at].value)
  BY AskedOfIs
<1>3. CASE \A j \in 1..a : p[j].key # key
  <2>1. \A j \in 1..b : q[j].key # key
    BY <1>3
  <2>2. (\A at \in 1..a : ~LastOf(p, at, key)) /\ (\A at \in 1..b : ~LastOf(q, at, key))
    BY <1>3, <2>1 DEF LastOf
  <2>. QED
    BY <1>1, <1>2, <2>2, Zenon
<1>4. CASE ~\A j \in 1..a : p[j].key # key
  <2>1. PICK at \in 1..a :
            LastOf(p, at, key) /\ AskedOf(p, key, default) = Meaning(p[at].value)
    BY <1>1, <1>4, Zenon
  <2>2. ~\A j \in 1..b : q[j].key # key
    BY <1>4
  <2>3. PICK to \in 1..b :
            LastOf(q, to, key) /\ AskedOf(q, key, default) = Meaning(q[to].value)
    BY <1>2, <2>2, Zenon
  <2>4. p[at].key = key /\ (\A j \in 1..a : j > at => p[j].key # key)
    BY <2>1 DEF LastOf
  <2>5. q[to].key = key /\ (\A j \in 1..b : j > to => q[j].key # key)
    BY <2>3 DEF LastOf
  <2>6. at = to
    <3>1. at \in 1..b /\ q[at].key = key /\ to \in 1..a /\ p[to].key = key
      BY <2>4, <2>5
    <3>2. ~(at > to) /\ ~(to > at)
      BY <2>4, <2>5, <3>1
    <3>. QED
      BY <3>2
  <2>7. q[at].value = p[at].value
    BY <2>4
  <2>. QED
    BY <2>1, <2>3, <2>6, <2>7, Zenon
<1>. QED
  BY <1>3, <1>4

LEMMA KeptAre ==
    ASSUME NEW params
    PROVE  /\ DOMAIN KeptParams(params) = DOMAIN params
           /\ \A j \in DOMAIN params :
                /\ KeptParams(params)[j].key = params[j].key
                /\ KeptParams(params)[j].value
                     = IF params[j].value = << >> THEN NoText ELSE params[j].value
  BY DEF KeptParams, Kept

\* The page that is shown is the one that is asked for.
LEMMA ShownIsAsked ==
    ASSUME NEW params, NEW m \in Nat, DOMAIN params = 1..m, NEW p \in Nat, Shows(params, p)
    PROVE  AskedOf(KeptParams(params), Page, 1) = p
<1>. DEFINE kept == KeptParams(params)
            shown == Number(p)
<1>1. PICK at \in 1..m :
            /\ params[at] = [key |-> Page, value |-> shown]
            /\ \A j \in 1..m : j > at => params[j].key # Page
  BY DEF Shows
<1>2. shown # << >> /\ Meaning(shown) = p
  BY PageNumber DEF Meaning
<1>. HIDE DEF shown
<1>3. params[at].key = Page /\ params[at].value = shown
  BY <1>1
<1>4. DOMAIN kept = 1..m /\ \A j \in 1..m : kept[j].key = params[j].key
  BY KeptAre
<1>5. kept[at].value = shown
  BY <1>2, <1>3, KeptAre
<1>. HIDE DEF kept
<1>6. \/ /\ \A j \in 1..m : kept[j].key # Page
         /\ AskedOf(kept, Page, 1) = 1
      \/ \E to \in 1..m :
           /\ LastOf(kept, to, Page)
           /\ AskedOf(kept, Page, 1) = Meaning(kept[to].value)
  BY <1>4, AskedOfIs
<1>7. ~\A j \in 1..m : kept[j].key # Page
  BY <1>3, <1>4
<1>8. PICK to \in 1..m :
           /\ LastOf(kept, to, Page)
           /\ AskedOf(kept, Page, 1) = Meaning(kept[to].value)
  BY <1>6, <1>7, Zenon
<1>9. to = at
  <2>1. kept[to].key = Page /\ \A j \in 1..m : j > to => kept[j].key # Page
    BY <1>4, <1>8 DEF LastOf
  <2>2. ~(to > at) /\ ~(at > to)
    BY <1>1, <1>3, <1>4, <2>1
  <2>. QED
    BY <2>2
<1>. QED
  BY <1>2, <1>5, <1>8, <1>9 DEF kept

\* One page at most is among the parameters.
OnePage(params) ==
    \A a, b \in DOMAIN params : params[a].key = Page /\ params[b].key = Page => a = b

\* The parameters of foreman's uris.
StoredParams == [key : PlainKeys, value : MaybeText]

LEMMA ParamsOf ==
    ASSUME NEW u \in StoredUris
    PROVE  /\ u.get_params \in Seq(StoredParams)
           /\ Len(u.get_params) \in Nat /\ DOMAIN u.get_params = 1..Len(u.get_params)
<1>1. PICK P : P = StoredParams
  OBVIOUS
<1>2. u.get_params \in Seq(P)
  BY <1>1 DEF StoredUris, UriSet, StoredParams
<1>. QED
  BY <1>1, <1>2

\* The size of the pages that a list of parameters asks for.
LEMMA SizeIs ==
    ASSUME NEW params
    PROVE  SizeOf(params) = AskedOf(KeptParams(params), PerPage, DefaultPerPage)
<1>1. [get_params |-> KeptParams(params)].get_params = KeptParams(params)
  OBVIOUS
<1>2. PICK u : u = [get_params |-> KeptParams(params)]
  OBVIOUS
<1>3. Asked(u, PerPage, DefaultPerPage) = AskedOf(u.get_params, PerPage, DefaultPerPage)
  BY AskedOfParams
<1>. QED
  BY <1>1, <1>2, <1>3, Zenon DEF SizeOf

LEMMA SizeType ==
    ASSUME NEW u \in StoredUris
    PROVE  SizeOf(u.get_params) \in Nat
<1>. DEFINE params == u.get_params
            kept == KeptParams(params)
<1>1. PICK m \in Nat : DOMAIN params = 1..m /\ \A j \in 1..m : params[j] \in StoredParams
  <2>1. PICK P : P = StoredParams
    OBVIOUS
  <2>2. params \in Seq(P) /\ Len(params) \in Nat
    BY <2>1, ParamsOf
  <2>. HIDE DEF params
  <2>3. DOMAIN params = 1..Len(params) /\ \A j \in 1..Len(params) : params[j] \in P
    BY <2>2
  <2>. QED
    BY <2>1, <2>2, <2>3
<1>. HIDE DEF params
<1>2. DOMAIN kept = 1..m
  BY <1>1, KeptAre
<1>3. \A j \in 1..m : Meaning(kept[j].value) \in Nat
  <2>1. ASSUME NEW j \in 1..m PROVE kept[j].value \in MaybeText
    <3>1. kept[j].value = IF params[j].value = << >> THEN NoText ELSE params[j].value
      BY <1>1, KeptAre
    <3>2. params[j].value \in MaybeText
      BY <1>1 DEF StoredParams
    <3>. QED
      BY <3>1, <3>2 DEF MaybeText
  <2>. HIDE DEF kept
  <2>. QED
    BY <2>1, MeaningType
<1>. HIDE DEF kept
<1>4. \/ /\ \A j \in 1..m : kept[j].key # PerPage
         /\ AskedOf(kept, PerPage, DefaultPerPage) = DefaultPerPage
      \/ \E at \in 1..m :
           /\ LastOf(kept, at, PerPage)
           /\ AskedOf(kept, PerPage, DefaultPerPage) = Meaning(kept[at].value)
  BY <1>2, AskedOfIs
<1>5. AskedOf(kept, PerPage, DefaultPerPage) \in Nat
  BY <1>3, <1>4, ForemanAssumption
<1>. QED
  BY <1>5, SizeIs DEF kept, params

\* Parameters that differ only in pages ask for pages of the same size.
LEMMA SameSize ==
    ASSUME NEW p, NEW q, NEW a \in Nat, NEW b \in Nat, DOMAIN p = 1..a, DOMAIN q = 1..b,
           \A j \in 1..a : p[j].key # Page => j \in 1..b /\ q[j] = p[j],
           \A j \in 1..b : q[j].key # Page => j \in 1..a /\ p[j] = q[j]
    PROVE  SizeOf(p) = SizeOf(q)
<1>. DEFINE kp == KeptParams(p)
            kq == KeptParams(q)
<1>1. DOMAIN kp = 1..a /\ DOMAIN kq = 1..b
  BY KeptAre
<1>2. ASSUME NEW j \in 1..a, kp[j].key = PerPage
      PROVE  j \in 1..b /\ kq[j].key = PerPage /\ kq[j].value = kp[j].value
  <2>1. p[j].key = PerPage
    BY <1>2, KeptAre
  <2>2. j \in 1..b /\ q[j] = p[j]
    BY <2>1, KeysArePlain
  <2>3. /\ kq[j].key = q[j].key
        /\ kq[j].value = IF q[j].value = << >> THEN NoText ELSE q[j].value
        /\ kp[j].value = IF p[j].value = << >> THEN NoText ELSE p[j].value
    BY <2>2, KeptAre
  <2>. QED
    BY <2>1, <2>2, <2>3
<1>3. ASSUME NEW j \in 1..b, kq[j].key = PerPage
      PROVE  j \in 1..a /\ kp[j].key = PerPage
  <2>1. q[j].key = PerPage
    BY <1>3, KeptAre
  <2>2. j \in 1..a /\ p[j] = q[j]
    BY <2>1, KeysArePlain
  <2>. QED
    BY <2>1, <2>2, KeptAre
<1>. HIDE DEF kp, kq
<1>4. AskedOf(kp, PerPage, DefaultPerPage) = AskedOf(kq, PerPage, DefaultPerPage)
  BY <1>1, <1>2, <1>3, AskedAlike
<1>. QED
  BY <1>4, SizeIs DEF kp, kq

\* A page added behind the other parameters.
LEMMA AddedPage ==
    ASSUME NEW u \in StoredUris, HasRoom(u), NEW p \in Nat, NEW next,
           next = add_get_param(u, Page, Number(p))
    PROVE  /\ Shows(next.get_params, p) /\ Paged(next.get_params)
           /\ SizeOf(next.get_params) = SizeOf(u.get_params)
           /\ next.hostname = u.hostname /\ (CanCopy(next) <=> CanCopy(u))
<1>. DEFINE params == u.get_params
            shown == Number(p)
<1>1. PICK added : added = [key |-> Page, value |-> shown]
  OBVIOUS
<1>2. PICK P, m : P = StoredParams \union {added} /\ m = Len(params)
  OBVIOUS
<1>3. params \in Seq(P) /\ m \in Nat /\ DOMAIN params = 1..m
  <2>1. params \in Seq(StoredParams) /\ StoredParams \subseteq P
    BY <1>2, ParamsOf
  <2>2. params \in Seq(P)
    BY <2>1, SeqMonotonic
  <2>. QED
    BY <1>2, <2>2, ParamsOf
<1>. HIDE DEF shown
<1>4. Page # NoText
  BY KeysArePlain, TextsAre DEF PlainKeys
<1>5. next = [u EXCEPT !.get_params = Append(params, added)]
  BY <1>1, <1>4 DEF add_get_param, shown
<1>6. /\ Append(params, added) \in Seq(P) /\ Len(Append(params, added)) = m + 1
      /\ \A j \in 1..m : Append(params, added)[j] = params[j]
      /\ Append(params, added)[m + 1] = added
  <2>. HIDE DEF params
  <2>. QED
    BY <1>2, <1>3, AppendProperties
<1>7. PICK more : more = Append(params, added)
  OBVIOUS
<1>8. /\ DOMAIN more = 1..(m + 1) /\ more[m + 1] = added
      /\ \A j \in 1..m : more[j] = params[j]
  <2>1. more \in Seq(P) /\ Len(more) = m + 1
    BY <1>6, <1>7, Zenon
  <2>2. DOMAIN more = 1..(m + 1)
    BY <1>3, <2>1
  <2>. QED
    BY <1>6, <1>7, <2>2, Zenon
<1>9. /\ next.get_params = more /\ next.hostname = u.hostname
      /\ next.scheme = u.scheme /\ next.port = u.port /\ next.path = u.path
  <2>1. PICK Q : Q = Seq([key : PlainKeys, value : MaybeText])
    OBVIOUS
  <2>2. u \in [scheme : Without({":"}) \union {NoText}, hostname : MaybeText,
               port : Without({"/"}) \union {NoText},
               path : Without({"?"}) \union {NoText}, get_params : Q]
    BY <2>1 DEF StoredUris, UriSet
  <2>. QED
    BY <1>5, <1>7, <2>2
<1>. HIDE DEF params
<1>10. /\ m + 1 \in DOMAIN more /\ more[m + 1] = [key |-> Page, value |-> Number(p)]
       /\ more[m + 1].key = Page
       /\ \A j \in DOMAIN more : j > m + 1 => more[j].key # Page
  BY <1>1, <1>3, <1>8 DEF shown
<1>11. Shows(more, p) /\ Paged(more)
  BY <1>10 DEF Shows, Paged
<1>12. SizeOf(more) = SizeOf(params)
  <2>1. \A j \in 1..(m + 1) : more[j].key # Page => j \in 1..m /\ params[j] = more[j]
    BY <1>1, <1>3, <1>8
  <2>2. \A j \in 1..m : params[j].key # Page => j \in 1..(m + 1) /\ more[j] = params[j]
    BY <1>3, <1>8
  <2>3. PICK l : l = m + 1
    OBVIOUS
  <2>4. l \in Nat /\ DOMAIN more = 1..l
    BY <1>3, <1>8, <2>3
  <2>. QED
    BY <1>3, <2>1, <2>2, <2>3, <2>4, SameSize
<1>. QED
  BY <1>9, <1>11, <1>12 DEF CanCopy, params

\* A page that takes another's place, or is added if there is none.
LEMMA SetPage ==
    ASSUME NEW u \in StoredUris, HasRoom(u) \/ Paged(u.get_params), NEW p \in Nat, NEW next,
           next = set_get_param(u, Page, Number(p)), OnePage(next.get_params)
    PROVE  /\ Shows(next.get_params, p) /\ Paged(next.get_params)
           /\ SizeOf(next.get_params) = SizeOf(u.get_params)
           /\ next.hostname = u.hostname /\ (CanCopy(next) <=> CanCopy(u))
           /\ OnePage(u.get_params)
<1>. DEFINE params == u.get_params
            shown == Number(p)
            place == get_uri_param(u, Page)
<1>1. PICK m \in Nat : /\ DOMAIN params = 1..m /\ Len(params) = m
                       /\ \A j \in 1..m : params[j] \in StoredParams
  <2>1. PICK P : P = StoredParams
    OBVIOUS
  <2>2. params \in Seq(P) /\ Len(params) \in Nat
    BY <2>1, ParamsOf
  <2>. HIDE DEF params
  <2>3. DOMAIN params = 1..Len(params) /\ \A j \in 1..Len(params) : params[j] \in P
    BY <2>2
  <2>. QED
    BY <2>1, <2>2, <2>3
<1>2. \/ place = 0 /\ \A j \in 1..m : params[j].key # Page
      \/ place \in 1..m /\ params[place].key = Page
  BY <1>1, FirstWithKey
<1>3. Page # NoText /\ shown # NoText
  BY KeysArePlain, TextsAre, PageNumber DEF PlainKeys
<1>4. CASE place = 0
  <2>1. \A j \in 1..m : params[j].key # Page
    BY <1>2, <1>4
  <2>2. next = add_get_param(u, Page, Number(p))
    BY <1>3, <1>4 DEF set_get_param
  <2>3. ~Paged(params) /\ OnePage(params)
    BY <1>1, <2>1 DEF Paged, OnePage
  <2>. HIDE DEF place, shown
  <2>. QED
    BY <2>2, <2>3, AddedPage
<1>5. CASE place # 0
  <2>1. PICK at : at = place
    OBVIOUS
  <2>2. at \in 1..m /\ params[at].key = Page
    BY <1>2, <1>5, <2>1
  <2>3. next = [u EXCEPT !.get_params = WithValue(params, at, shown)]
    BY <1>3, <1>5, <2>1 DEF set_get_param, WithValue
  <2>. HIDE DEF place, shown
  <2>4. PICK more : more = WithValue(params, at, shown)
    OBVIOUS
  <2>5. /\ next.get_params = more /\ next.hostname = u.hostname
        /\ next.scheme = u.scheme /\ next.port = u.port /\ next.path = u.path
    <3>1. PICK Q : Q = Seq([key : PlainKeys, value : MaybeText])
      OBVIOUS
    <3>2. u \in [scheme : Without({":"}) \union {NoText}, hostname : MaybeText,
                 port : Without({"/"}) \union {NoText},
                 path : Without({"?"}) \union {NoText}, get_params : Q]
      BY <3>1 DEF StoredUris, UriSet
    <3>. QED
      BY <2>3, <2>4, <3>2
  <2>. HIDE DEF params
  <2>6. /\ DOMAIN more = 1..m
        /\ \A j \in 1..m : j # at => more[j] = params[j]
        /\ more[at] = [params[at] EXCEPT !.value = shown]
    BY <1>1, <2>2, <2>4 DEF WithValue
  <2>7. more[at] = [key |-> Page, value |-> shown]
    BY <1>1, <2>2, <2>6 DEF StoredParams
  <2>8. \A j \in 1..m : j # at => more[j].key # Page
    <3>1. more[at].key = Page
      BY <2>7
    <3>. QED
      BY <2>2, <2>5, <2>6, <3>1 DEF OnePage
  <2>9. Shows(more, p) /\ Paged(more)
    <3>1. at \in DOMAIN more /\ more[at] = [key |-> Page, value |-> Number(p)]
      BY <2>2, <2>6, <2>7 DEF shown
    <3>2. \A j \in DOMAIN more : j > at => more[j].key # Page
      BY <2>2, <2>6, <2>8
    <3>3. more[at].key = Page
      BY <2>7
    <3>. QED
      BY <3>1, <3>2, <3>3 DEF Shows, Paged
  <2>10. OnePage(params)
    <3>1. \A j \in 1..m : j # at => params[j].key # Page
      BY <2>6, <2>8
    <3>. QED
      BY <1>1, <3>1 DEF OnePage
  <2>11. SizeOf(more) = SizeOf(params)
    <3>1. more[at].key = Page
      BY <2>7
    <3>2. \A j \in 1..m : more[j].key # Page => j \in 1..m /\ params[j] = more[j]
      BY <2>6, <3>1
    <3>3. \A j \in 1..m : params[j].key # Page => j \in 1..m /\ more[j] = params[j]
      BY <2>2, <2>6
    <3>. QED
      BY <1>1, <2>6, <3>2, <3>3, SameSize
  <2>. QED
    BY <2>5, <2>9, <2>10, <2>11 DEF CanCopy, params
<1>. QED
  BY <1>4, <1>5

\* What the server reads of a request that foreman made.
LEMMA ServerReads ==
    ASSUME NEW u \in StoredUris, Len(u.get_params) <= URI_MAX_PARAMS, CanCopy(u),
           u.hostname \in Without({":", "/"}), request = build(u),
           NEW p \in Nat, Shows(u.get_params, p)
    PROVE  PageAsked = p /\ PerPageAsked = SizeOf(u.get_params)
<1>. DEFINE params == u.get_params
            v == parse(request, uri_new).uri
<1>1. u \in PlainUris
  BY StoredAndPlain
<1>2. v = [u EXCEPT !.get_params = KeptParams(params)]
  BY <1>1, ParseUndoesBuild
<1>3. v.get_params = KeptParams(params)
  <2>1. PICK Q : Q = Seq(PlainParams)
    OBVIOUS
  <2>2. u \in [scheme : Without({":"}), hostname : Without({":", "/"}),
               port : Without({"/"}) \union {NoText}, path : Without({"?"}),
               get_params : Q]
    BY <1>1, <2>1 DEF PlainUris
  <2>. HIDE DEF params, v
  <2>. QED
    BY <1>2, <2>2
<1>. HIDE DEF v
<1>4. /\ Asked(v, Page, 1) = AskedOf(KeptParams(params), Page, 1)
      /\ Asked(v, PerPage, DefaultPerPage) = SizeOf(params)
  BY <1>3, AskedOfParams, SizeIs
<1>5. AskedOf(KeptParams(params), Page, 1) = p
  <2>1. Len(params) \in Nat /\ DOMAIN params = 1..Len(params)
    BY ParamsOf
  <2>. QED
    BY <2>1, ShownIsAsked
<1>. QED
  BY <1>4, <1>5 DEF PageAsked, PerPageAsked, v

-----------------------------------------------------------------------------
(* Page for page *)

\* PageFits says so of foreman's uri.
LEMMA FitsIs ==
    PageFits <=> fits /\ OnePage(baseuri.get_params) /\ baseuri.hostname \in Without({":", "/"})
  BY DEF PageFits, OnePage

\* What the server reads next.
LEMMA NextIsRead ==
    ASSUME RequestInv, TransferInv, RoomInv, PageInv, PageFits, Waiting
    PROVE  PageAsked = Done + 1 /\ PerPageAsked = Size /\ Done \in Nat
<1>1. /\ baseuri \in StoredUris /\ Len(baseuri.get_params) <= URI_MAX_PARAMS
      /\ CanCopy(baseuri) /\ baseuri.hostname \in Without({":", "/"})
  BY FitsIs DEF RequestInv, RoomInv, TransferInv, AtRequest, AtCall
<1>2. CASE foreman = "first"
  <2>. DEFINE u == add_get_param(baseuri, Page, Number(1))
  <2>1. HasRoom(baseuri) /\ request = build(u)
    BY <1>2, FitsIs DEF RoomInv, PageInv, AtCall
  <2>2. 1 \in Nat /\ u \in StoredUris /\ Len(u.get_params) <= URI_MAX_PARAMS
    BY <1>1, AddsPage
  <2>3. /\ Shows(u.get_params, 1) /\ SizeOf(u.get_params) = SizeOf(baseuri.get_params)
        /\ u.hostname = baseuri.hostname /\ (CanCopy(u) <=> CanCopy(baseuri))
    BY <1>1, <2>1, AddedPage
  <2>. HIDE DEF u
  <2>4. PageAsked = 1 /\ PerPageAsked = SizeOf(u.get_params)
    BY <1>1, <2>1, <2>2, <2>3, ServerReads
  <2>. QED
    BY <1>2, <2>3, <2>4 DEF Done, Size
<1>3. CASE foreman = "next"
  <2>1. /\ Shows(baseuri.get_params, current_page) /\ request = build(baseuri)
        /\ current_page \in Nat /\ 2 <= current_page
    BY <1>3 DEF PageInv, TransferInv
  <2>2. PageAsked = current_page /\ PerPageAsked = SizeOf(baseuri.get_params)
    BY <1>1, <2>1, ServerReads
  <2>. QED
    BY <1>3, <2>1, <2>2 DEF Done, Size
<1>. QED
  BY <1>2, <1>3 DEF TransferInv, AtRequest

\* What an answer that is read says.
LEMMA AnswerRead ==
    ASSUME TransferInv, HostsInv, PageFits, Received, NEW json \in json_tokener_parse(chunk)
    PROVE  /\ json \in AllAnswers
           /\ AnswerFits(json, Done + 1)
<1>1. json \in AllAnswers /\ (chunk # << >> => json \in Coming)
  BY AnswersRead
<1>2. ~Waiting /\ AtRequest /\ incoming = << >>
  BY DEF Received, AtRequest
<1>3. CASE chunk # << >>
  BY <1>1, <1>2, <1>3 DEF HostsInv
<1>4. CASE chunk = << >>
  <2>1. json \in {Garbage, NoFields}
    BY <1>4 DEF json_tokener_parse
  <2>2. Coming = {}
    BY <1>2, <1>4 DEF Coming
  <2>3. ~sound
    BY <1>2, <2>2 DEF HostsInv
  <2>4. json \notin PageAnswers
    BY <2>1, PageFields
  <2>. QED
    BY <1>1, <2>3, <2>4 DEF AnswerFits
<1>. QED
  BY <1>3, <1>4

\* What no step but those of collect changes.
CollectVars == <<foreman, fits, baseuri, asked, before, nodes, hosts, sound, current_page, pages,
                 results, request, chunk, incoming>>

CollectInv == RoomInv /\ PageInv /\ HostsInv

LEMMA CollectStays ==
    ASSUME CollectInv, UNCHANGED CollectVars
    PROVE  CollectInv'
<1>1. RoomInv'
  BY DEF CollectInv, CollectVars, RoomInv, AtCall
<1>2. /\ Size' = Size /\ Done' = Done /\ Coming' = Coming /\ Found' = Found
      /\ (Waiting' <=> Waiting) /\ (AtCall' <=> AtCall) /\ (AtRequest' <=> AtRequest)
      /\ (PageFits' <=> PageFits)
  BY DEF CollectVars, Size, Done, Coming, Found, Waiting, AtCall, AtRequest, PageFits
<1>3. PageInv'
  BY <1>2 DEF CollectInv, CollectVars, PageInv, PagesInOrder
<1>4. HostsInv'
  BY <1>2 DEF CollectInv, CollectVars, HostsInv, EveryHostOnce, FoundUpTo, UpTo, Apart,
              AnswerFits, PageAnswers, OnPage
<1>. QED
  BY <1>1, <1>3, <1>4 DEF CollectInv

\* When a call is given up, no more is claimed of it.
LEMMA CollectGivesUp ==
    ASSUME CollectInv, foreman' \in {"idle", "aborted", "crashed"},
           UNCHANGED <<fits, baseuri, asked, pages>>
    PROVE  CollectInv'
<1>1. PageFits' <=> PageFits
  BY DEF PageFits
<1>2. RoomInv'
  BY DEF RoomInv, AtCall
<1>3. PageInv'
  BY <1>1 DEF CollectInv, PageInv, PagesInOrder, AtCall
<1>4. HostsInv'
  BY DEF HostsInv, EveryHostOnce, AtCall, AtRequest
<1>. QED
  BY <1>2, <1>3, <1>4 DEF CollectInv

LEMMA CollectEndsEarly ==
    ASSUME CollectInv,
           \/ NotConfigured \/ HeadersReused \/ BadUrl \/ UrlOverread \/ IncompleteUrl
           \/ PerformFails \/ Unparsable \/ MissingResults
    PROVE  CollectInv'
<1>1. foreman' \in {"aborted", "crashed"} /\ UNCHANGED <<fits, baseuri, asked, pages>>
  BY DEF NotConfigured, HeadersReused, BadUrl, UrlOverread, IncompleteUrl,
         PerformFails, Unparsable, MissingResults, Stops, pluginVars, observedVars
<1>. QED
  BY <1>1, CollectGivesUp

\* collect begins with nothing asked for and nothing found.
LEMMA CollectBegins ==
    ASSUME TransferInv, CollectInv, collect \/ init_curl
    PROVE  CollectInv'
<1>1. /\ foreman' \in {"collect", "uri"} /\ asked' = << >> /\ before' = Len(nodes')
      /\ UNCHANGED <<fits, baseuri, pages>>
  <2>1. CASE collect
    BY <2>1 DEF collect, pluginVars
  <2>2. CASE init_curl
    BY <2>2 DEF init_curl, observedVars, CollectInv, PageInv, HostsInv
  <2>. QED
    BY <2>1, <2>2
<1>2. asked' \in Seq(Nat) /\ Len(asked') = 0 /\ DOMAIN asked' = {}
  BY <1>1
<1>3. RoomInv'
  BY <1>1 DEF RoomInv, AtCall
<1>4. PageInv'
  BY <1>1, <1>2 DEF PageInv, PagesInOrder, AtCall
<1>5. HostsInv'
  BY <1>1 DEF HostsInv, EveryHostOnce, AtCall, AtRequest
<1>. QED
  BY <1>3, <1>4, <1>5 DEF CollectInv

-----------------------------------------------------------------------------
(* The hosts on the pages *)

LEMMA SameSeq ==
    ASSUME NEW S, NEW s \in Seq(S), NEW t \in Seq(S), Len(s) = Len(t),
           \A j \in 1..Len(s) : s[j] = t[j]
    PROVE  s = t
  OBVIOUS

LEMMA SliceIs ==
    ASSUME NEW S, NEW s \in Seq(S), NEW a \in Nat \ {0}, NEW b \in Nat, b <= Len(s)
    PROVE  /\ SubSeq(s, a, b) \in Seq(S)
           /\ Len(SubSeq(s, a, b)) = (IF a <= b THEN b - a + 1 ELSE 0)
           /\ \A j \in 1..(b - a + 1) : SubSeq(s, a, b)[j] = s[a + j - 1]
<1>1. Len(s) \in Nat /\ DOMAIN s = 1..Len(s)
  OBVIOUS
<1>2. \A j \in a..b : s[j] \in S
  BY <1>1
<1>3. SubSeq(s, a, b) \in Seq(S) /\ Len(SubSeq(s, a, b)) = (IF a <= b THEN b - a + 1 ELSE 0)
  BY <1>1, <1>2
<1>4. \A j \in 1..(b - a + 1) : SubSeq(s, a, b)[j] = s[a + j - 1]
  BY <1>1
<1>. QED
  BY <1>3, <1>4

LEMMA ConcatIs ==
    ASSUME NEW S, NEW s \in Seq(S), NEW t \in Seq(S), NEW m, m = Len(s), NEW l, l = Len(t)
    PROVE  /\ m \in Nat /\ l \in Nat
           /\ s \o t \in Seq(S) /\ Len(s \o t) = m + l
           /\ \A j \in 1..(m + l) : (s \o t)[j] = IF j <= m THEN s[j] ELSE t[j - m]
  OBVIOUS

\* A slice and the one behind it.
LEMMA SlicesJoin ==
    ASSUME NEW S, NEW s \in Seq(S), NEW a \in Nat \ {0}, NEW b \in Nat, NEW c \in Nat,
           a <= b + 1, b <= c, c <= Len(s)
    PROVE  SubSeq(s, a, b) \o SubSeq(s, b + 1, c) = SubSeq(s, a, c)
<1>1. PICK f, g, h : /\ f = SubSeq(s, a, b) /\ g = SubSeq(s, b + 1, c) /\ h = SubSeq(s, a, c)
  OBVIOUS
<1>2. Len(s) \in Nat /\ b <= Len(s) /\ b + 1 \in Nat \ {0}
  OBVIOUS
<1>3. /\ f \in Seq(S) /\ Len(f) = b - a + 1
      /\ \A j \in 1..(b - a + 1) : f[j] = s[a + j - 1]
  <2>1. /\ f \in Seq(S) /\ Len(f) = (IF a <= b THEN b - a + 1 ELSE 0)
        /\ \A j \in 1..(b - a + 1) : f[j] = s[a + j - 1]
    BY <1>1, <1>2, SliceIs
  <2>2. (IF a <= b THEN b - a + 1 ELSE 0) = b - a + 1
    OBVIOUS
  <2>. QED
    BY <2>1, <2>2
<1>4. PICK d : d = b + 1
  OBVIOUS
<1>5. /\ g \in Seq(S) /\ Len(g) = c - b
      /\ \A j \in 1..(c - d + 1) : g[j] = s[d + j - 1]
  <2>1. d \in Nat \ {0} /\ g = SubSeq(s, d, c)
    BY <1>1, <1>2, <1>4
  <2>2. /\ g \in Seq(S) /\ Len(g) = (IF d <= c THEN c - d + 1 ELSE 0)
        /\ \A j \in 1..(c - d + 1) : g[j] = s[d + j - 1]
    BY <2>1, SliceIs
  <2>3. (IF d <= c THEN c - d + 1 ELSE 0) = c - b
    BY <1>4
  <2>. QED
    BY <2>2, <2>3
<1>6. /\ h \in Seq(S) /\ Len(h) = c - a + 1
      /\ \A j \in 1..(c - a + 1) : h[j] = s[a + j - 1]
  <2>1. /\ h \in Seq(S) /\ Len(h) = (IF a <= c THEN c - a + 1 ELSE 0)
        /\ \A j \in 1..(c - a + 1) : h[j] = s[a + j - 1]
    BY <1>1, <1>2, SliceIs
  <2>2. (IF a <= c THEN c - a + 1 ELSE 0) = c - a + 1
    OBVIOUS
  <2>. QED
    BY <2>1, <2>2
<1>7. PICK m, l \in Nat : m = Len(f) /\ l = Len(g)
  BY <1>3, <1>5
<1>8. /\ f \o g \in Seq(S) /\ Len(f \o g) = m + l
      /\ \A j \in 1..(m + l) : (f \o g)[j] = IF j <= m THEN f[j] ELSE g[j - m]
  <2>1. f \in Seq(S) /\ g \in Seq(S)
    BY <1>3, <1>5
  <2>. QED
    BY <1>7, <2>1, ConcatIs
<1>9. m + l = c - a + 1 /\ m = b - a + 1
  <2>1. m = b - a + 1 /\ l = c - b
    BY <1>3, <1>5, <1>7, Zenon
  <2>. QED
    BY <2>1
<1>10. ASSUME NEW j \in 1..(m + l)
       PROVE  (f \o g)[j] = h[j]
  <2>1. h[j] = s[a + j - 1]
    BY <1>6, <1>9
  <2>2. CASE j <= m
    BY <1>3, <1>8, <1>9, <2>1, <2>2
  <2>3. CASE ~(j <= m)
    <3>1. PICK t : t = j - m
      OBVIOUS
    <3>2. t \in 1..(c - d + 1) /\ d + t - 1 = a + j - 1
      BY <1>4, <1>9, <2>3, <3>1
    <3>3. (f \o g)[j] = g[t] /\ g[t] = s[d + t - 1]
      BY <1>5, <1>8, <2>3, <3>1, <3>2
    <3>. QED
      BY <2>1, <3>2, <3>3
  <2>. QED
    BY <2>2, <2>3
<1>11. f \o g = h
  <2>1. PICK q : q = f \o g
    OBVIOUS
  <2>2. q \in Seq(S) /\ Len(q) = Len(h) /\ \A j \in 1..Len(q) : q[j] = h[j]
    BY <1>6, <1>8, <1>9, <1>10, <2>1
  <2>3. q = h
    BY <1>6, <2>2, SameSeq
  <2>. QED
    BY <2>1, <2>3
<1>. QED
  BY <1>1, <1>11

LEMMA WholeSlice ==
    ASSUME NEW S, NEW s \in Seq(S)
    PROVE  SubSeq(s, 1, Len(s)) = s
  OBVIOUS

\* What is added behind a slice that ends with the list.
LEMMA SliceGrows ==
    ASSUME NEW S, NEW s \in Seq(S), NEW t \in Seq(S), NEW b \in 0..Len(s)
    PROVE  SubSeq(s \o t, b + 1, Len(s \o t)) = SubSeq(s, b + 1, Len(s)) \o t
<1>1. PICK m, l \in Nat : m = Len(s) /\ l = Len(t)
  OBVIOUS
<1>2. PICK w : w = s \o t
  OBVIOUS
<1>3. /\ w \in Seq(S) /\ Len(w) = m + l
      /\ \A j \in 1..m : w[j] = s[j]
      /\ \A j \in 1..l : w[m + j] = t[j]
  BY <1>1, <1>2
<1>4. PICK a : a = b + 1
  OBVIOUS
<1>5. a \in Nat \ {0} /\ a <= m + 1 /\ b \in Nat /\ b <= m
  BY <1>1, <1>4
<1>6. SubSeq(w, a, m) \o SubSeq(w, m + 1, m + l) = SubSeq(w, a, m + l)
  <2>1. PICK c : c = m + l
    OBVIOUS
  <2>2. c \in Nat /\ m <= c /\ c <= Len(w)
    BY <1>3, <2>1
  <2>3. SubSeq(w, a, m) \o SubSeq(w, m + 1, c) = SubSeq(w, a, c)
    BY <1>3, <1>5, <2>2, SlicesJoin
  <2>. QED
    BY <2>1, <2>3
<1>7. SubSeq(w, a, m) = SubSeq(s, a, m)
  <2>1. PICK f, g : f = SubSeq(w, a, m) /\ g = SubSeq(s, a, m)
    OBVIOUS
  <2>2. m <= Len(w) /\ m <= Len(s)
    BY <1>1, <1>3
  <2>3. /\ f \in Seq(S) /\ Len(f) = (IF a <= m THEN m - a + 1 ELSE 0)
        /\ \A j \in 1..(m - a + 1) : f[j] = w[a + j - 1]
    BY <1>3, <1>5, <2>1, <2>2, SliceIs
  <2>4. /\ g \in Seq(S) /\ Len(g) = (IF a <= m THEN m - a + 1 ELSE 0)
        /\ \A j \in 1..(m - a + 1) : g[j] = s[a + j - 1]
    BY <1>5, <2>1, <2>2, SliceIs
  <2>5. Len(f) = Len(g) /\ \A j \in 1..Len(f) : f[j] = g[j]
    <3>1. ASSUME NEW j \in 1..Len(f) PROVE f[j] = g[j]
      <4>1. j \in 1..(m - a + 1)
        BY <1>5, <2>3
      <4>2. PICK e : e = a + j - 1
        OBVIOUS
      <4>3. f[j] = w[e] /\ g[j] = s[e] /\ e \in 1..m
        BY <1>5, <2>3, <2>4, <4>1, <4>2
      <4>. QED
        BY <1>3, <4>3
    <3>. QED
      BY <2>3, <2>4, <3>1
  <2>6. f = g
    BY <2>3, <2>4, <2>5, SameSeq
  <2>. QED
    BY <2>1, <2>6
<1>8. SubSeq(w, m + 1, m + l) = t
  <2>1. PICK c, d : c = m + l /\ d = m + 1
    OBVIOUS
  <2>2. PICK f : f = SubSeq(w, d, c)
    OBVIOUS
  <2>3. c \in Nat /\ c <= Len(w) /\ d \in Nat \ {0} /\ c - d + 1 = l
    BY <1>3, <2>1
  <2>4. /\ f \in Seq(S) /\ Len(f) = (IF d <= c THEN c - d + 1 ELSE 0)
        /\ \A j \in 1..(c - d + 1) : f[j] = w[d + j - 1]
    <3>1. w \in Seq(S) /\ c \in Nat /\ c <= Len(w) /\ d \in Nat \ {0}
      BY <1>3, <2>3
    <3>. QED
      BY <2>2, <3>1, SliceIs
  <2>5. Len(f) = l
    BY <2>1, <2>3, <2>4
  <2>6. ASSUME NEW j \in 1..l PROVE f[j] = t[j]
    <3>1. f[j] = w[d + j - 1] /\ d + j - 1 = m + j
      BY <2>1, <2>3, <2>4
    <3>. QED
      BY <1>3, <3>1
  <2>7. f = t
    BY <1>1, <2>4, <2>5, <2>6, SameSeq
  <2>. QED
    BY <2>1, <2>2, <2>7
<1>. QED
  BY <1>1, <1>2, <1>3, <1>4, <1>6, <1>7, <1>8

\* Nothing behind the end of a list.
LEMMA EmptySlice ==
    ASSUME NEW S, NEW s \in Seq(S), NEW a \in Nat \ {0}, NEW b \in Nat, b <= Len(s), b < a
    PROVE  SubSeq(s, a, b) = << >>
<1>1. PICK f : f = SubSeq(s, a, b)
  OBVIOUS
<1>2. f \in Seq(S) /\ Len(f) = 0
  BY <1>1, SliceIs
<1>3. f = << >>
  BY <1>2
<1>. QED
  BY <1>1, <1>3

\* Where the pages up to p and the one behind them end.
LEMMA PageEnds ==
    ASSUME NEW p \in Nat, NEW size \in Nat \ {0}
    PROVE  /\ p * size \in Nat /\ (p + 1) * size \in Nat
           /\ (p + 1) * size = p * size + size
           /\ (p + 1) - 1 = p
  OBVIOUS

\* A page holds the hosts behind those on the pages in front of it.
LEMMA PageHosts ==
    ASSUME hosts \in Seq(Text), NEW p \in Nat, NEW size \in Nat \ {0}
    PROVE  /\ \A e \in ToSet(OnPage(p + 1, size)) :
                \E j \in DOMAIN hosts :
                    p * size < j /\ j <= (p + 1) * size /\ e = hosts[j]
           /\ IsInjective(hosts) => IsInjective(OnPage(p + 1, size))
<1>1. PICK T : T = Text
  OBVIOUS
<1>2. PICK l \in Nat : hosts \in Seq(T) /\ l = Len(hosts) /\ DOMAIN hosts = 1..l
  BY <1>1
<1>3. PICK a, c \in Nat : a = p * size /\ c = (p + 1) * size /\ c = a + size
  BY PageEnds
<1>4. PICK first, end : /\ first = a + 1 /\ first \in Nat
                        /\ end = (IF c < l THEN c ELSE l) /\ end \in Nat
  BY <1>2, <1>3
<1>5. PICK page : page = SubSeq(hosts, first, end)
  OBVIOUS
<1>6. OnPage(p + 1, size) = page
  BY <1>2, <1>3, <1>4, <1>5, PageEnds DEF OnPage
<1>7. first \in Nat \ {0} /\ end <= l /\ end <= c
  BY <1>3, <1>4
<1>8. /\ page \in Seq(T) /\ Len(page) = (IF first <= end THEN end - first + 1 ELSE 0)
      /\ \A j \in 1..(end - first + 1) : page[j] = hosts[first + j - 1]
  <2>1. hosts \in Seq(T) /\ first \in Nat \ {0} /\ end \in Nat /\ end <= Len(hosts)
    BY <1>2, <1>4, <1>7
  <2>. QED
    BY <1>5, <2>1, SliceIs
<1>9. ASSUME NEW j \in DOMAIN page
      PROVE  /\ a + j \in DOMAIN hosts /\ a + j > a /\ a + j <= c
             /\ page[j] = hosts[a + j] /\ j \in Nat
  <2>1. j \in 1..Len(page)
    BY <1>8
  <2>2. first <= end /\ j \in 1..(end - first + 1)
    BY <1>8, <2>1
  <2>3. first + j - 1 = a + j
    BY <1>4, <2>2
  <2>4. a + j \in 1..l /\ a + j > a /\ a + j <= c
    BY <1>4, <1>7, <2>2
  <2>5. page[j] = hosts[first + j - 1]
    BY <1>8, <2>2
  <2>6. page[j] = hosts[a + j]
    BY <2>3, <2>5, Zenon
  <2>7. j \in Nat
    BY <2>2
  <2>. QED
    BY <1>2, <2>4, <2>6, <2>7
<1>10. \A e \in ToSet(page) :
            \E j \in DOMAIN hosts : a < j /\ j <= c /\ e = hosts[j]
  <2>1. ASSUME NEW e \in ToSet(page)
        PROVE  \E j \in DOMAIN hosts : a < j /\ j <= c /\ e = hosts[j]
    <3>1. PICK j \in DOMAIN page : e = page[j]
      BY DEF ToSet
    <3>2. /\ a + j \in DOMAIN hosts /\ a + j > a /\ a + j <= c
          /\ page[j] = hosts[a + j] /\ j \in Nat
      BY <1>9
    <3>3. a < a + j
      BY <3>2
    <3>. QED
      BY <3>1, <3>2, <3>3
  <2>. QED
    BY <2>1
<1>11. ASSUME IsInjective(hosts)
       PROVE  IsInjective(page)
  <2>1. ASSUME NEW u \in DOMAIN page, NEW v \in DOMAIN page, page[u] = page[v]
        PROVE  u = v
    <3>1. /\ a + u \in DOMAIN hosts /\ page[u] = hosts[a + u] /\ u \in Nat
          /\ a + v \in DOMAIN hosts /\ page[v] = hosts[a + v] /\ v \in Nat
      BY <1>9
    <3>2. a + u = a + v
      BY <1>11, <2>1, <3>1 DEF IsInjective
    <3>. QED
      BY <3>1, <3>2
  <2>. QED
    BY <2>1 DEF IsInjective
<1>. QED
  BY <1>3, <1>6, <1>10, <1>11

\* The pages up to the next one.
LEMMA NextPageJoins ==
    ASSUME hosts \in Seq(Text), NEW p \in Nat, Size \in Nat \ {0}
    PROVE  UpTo(p) \o OnPage(p + 1, Size) = UpTo(p + 1)
<1>1. PICK T, size : T = Text /\ size = Size
  OBVIOUS
<1>2. PICK l \in Nat : hosts \in Seq(T) /\ l = Len(hosts)
  BY <1>1
<1>3. PICK a, c \in Nat : a = p * size /\ c = (p + 1) * size /\ c = a + size
  BY <1>1, PageEnds
<1>4. PICK end \in Nat : end = IF c < l THEN c ELSE l
  BY <1>2, <1>3
<1>5. OnPage(p + 1, Size) = SubSeq(hosts, a + 1, end) /\ UpTo(p + 1) = SubSeq(hosts, 1, end)
  BY <1>1, <1>2, <1>3, <1>4, PageEnds DEF OnPage, UpTo
<1>6. CASE a < l
  <2>1. UpTo(p) = SubSeq(hosts, 1, a)
    BY <1>1, <1>2, <1>3, <1>6 DEF UpTo
  <2>2. a <= end /\ end <= Len(hosts) /\ 1 <= a + 1 /\ 1 \in Nat \ {0}
    BY <1>1, <1>2, <1>3, <1>4, <1>6
  <2>3. SubSeq(hosts, 1, a) \o SubSeq(hosts, a + 1, end) = SubSeq(hosts, 1, end)
    BY <1>2, <2>2, SlicesJoin
  <2>. QED
    BY <1>5, <2>1, <2>3, Zenon
<1>7. CASE ~(a < l)
  <2>1. UpTo(p) = SubSeq(hosts, 1, Len(hosts))
    BY <1>1, <1>2, <1>3, <1>7 DEF UpTo
  <2>2. end = Len(hosts) /\ c >= a
    BY <1>1, <1>2, <1>3, <1>4, <1>7
  <2>3. SubSeq(hosts, 1, Len(hosts)) = hosts
    BY <1>2, WholeSlice
  <2>4. PICK b : b = a + 1
    OBVIOUS
  <2>5. b \in Nat \ {0} /\ l < b /\ l <= Len(hosts)
    BY <1>2, <1>7, <2>4
  <2>6. SubSeq(hosts, b, l) = << >>
    BY <1>2, <2>5, EmptySlice
  <2>7. hosts \o << >> = hosts
    BY <1>2
  <2>. QED
    BY <1>2, <1>5, <2>1, <2>2, <2>3, <2>4, <2>6, <2>7, Zenon
<1>. QED
  BY <1>6, <1>7

\* No page holds none, enough pages hold all.
LEMMA UpToEnds ==
    ASSUME hosts \in Seq(Text), Size \in Nat
    PROVE  /\ UpTo(0) = << >>
           /\ \A p \in Nat : p * Size >= Len(hosts) => UpTo(p) = hosts
<1>1. PICK T : T = Text
  OBVIOUS
<1>2. PICK l \in Nat : hosts \in Seq(T) /\ l = Len(hosts)
  BY <1>1
<1>3. SubSeq(hosts, 1, Len(hosts)) = hosts
  BY <1>2, WholeSlice
<1>4. UpTo(0) = << >>
  <2>1. UpTo(0) = SubSeq(hosts, 1, 0)
    BY <1>2 DEF UpTo
  <2>2. 1 \in Nat \ {0} /\ 0 \in Nat /\ 0 <= Len(hosts) /\ 0 < 1
    BY <1>2
  <2>3. SubSeq(hosts, 1, 0) = << >>
    BY <1>2, <2>2, EmptySlice
  <2>. QED
    BY <2>1, <2>3
<1>5. ASSUME NEW p \in Nat, p * Size >= Len(hosts)
      PROVE  UpTo(p) = hosts
  <2>1. PICK a \in Nat : a = p * Size
    OBVIOUS
  <2>2. ~(a < Len(hosts))
    BY <1>2, <1>5, <2>1
  <2>3. UpTo(p) = SubSeq(hosts, 1, Len(hosts))
    BY <2>1, <2>2 DEF UpTo
  <2>. QED
    BY <1>3, <2>3
<1>. QED
  BY <1>4, <1>5

-----------------------------------------------------------------------------
(* What a call of collect has found *)

LEMMA SizeIsNumber == RequestInv => Size \in Nat
  BY SizeType DEF RequestInv, Size

LEMMA FoundNone ==
    ASSUME NEW added \in Seq(Text)
    PROVE  SubSeq(added, Len(added) + 1, Len(added)) = << >>
<1>1. PICK T, a, b : T = Text /\ a = Len(added) + 1 /\ b = Len(added)
  OBVIOUS
<1>2. added \in Seq(T) /\ a \in Nat \ {0} /\ b \in Nat /\ b <= Len(added) /\ b < a
  BY <1>1
<1>3. SubSeq(added, a, b) = << >>
  BY <1>2, EmptySlice
<1>. QED
  BY <1>1, <1>3

LEMMA FoundGrows ==
    ASSUME TransferInv, NEW more \in Seq(Text)
    PROVE  /\ SubSeq(nodes \o more, before + 1, Len(nodes \o more)) = Found \o more
           /\ Found \in Seq(Text)
<1>1. PICK T : T = Text
  OBVIOUS
<1>2. nodes \in Seq(T) /\ more \in Seq(T) /\ before \in 0..Len(nodes)
  BY <1>1 DEF TransferInv
<1>3. SubSeq(nodes \o more, before + 1, Len(nodes \o more))
        = SubSeq(nodes, before + 1, Len(nodes)) \o more
  BY <1>2, SliceGrows
<1>4. SubSeq(nodes, before + 1, Len(nodes)) \in Seq(T)
  <2>1. PICK a, b : a = before + 1 /\ b = Len(nodes)
    OBVIOUS
  <2>2. a \in Nat \ {0} /\ b \in Nat /\ b <= Len(nodes)
    BY <1>2, <2>1
  <2>3. SubSeq(nodes, a, b) \in Seq(T)
    BY <1>2, <2>2, SliceIs
  <2>. QED
    BY <2>1, <2>3
<1>. QED
  BY <1>1, <1>3, <1>4 DEF Found

\* What two lists that are apart hold when one is put behind the other.
LEMMA ApartJoin ==
    ASSUME NEW S, NEW s \in Seq(S), NEW t \in Seq(S), IsInjective(s), IsInjective(t),
           ToSet(t) \intersect ToSet(s) = {}
    PROVE  /\ IsInjective(s \o t)
           /\ ToSet(s \o t) = ToSet(s) \union ToSet(t)
<1>1. PICK m, l, w : m = Len(s) /\ l = Len(t) /\ w = s \o t
  OBVIOUS
<1>2. /\ m \in Nat /\ l \in Nat /\ w \in Seq(S) /\ Len(w) = m + l
      /\ \A j \in 1..(m + l) : w[j] = IF j <= m THEN s[j] ELSE t[j - m]
  BY <1>1, ConcatIs
<1>3. DOMAIN w = 1..(m + l) /\ DOMAIN s = 1..m /\ DOMAIN t = 1..l
  BY <1>1, <1>2
<1>4. ASSUME NEW j \in 1..(m + l)
      PROVE  \/ j \in 1..m /\ w[j] = s[j]
             \/ j - m \in 1..l /\ w[j] = t[j - m]
  BY <1>2
<1>5. ASSUME NEW j \in 1..m PROVE j \in 1..(m + l) /\ w[j] = s[j]
  BY <1>2
<1>6. ASSUME NEW j \in 1..l PROVE m + j \in 1..(m + l) /\ w[m + j] = t[j]
  <2>1. PICK c : c = m + j
    OBVIOUS
  <2>2. c \in 1..(m + l) /\ ~(c <= m) /\ c - m = j
    BY <1>2, <2>1
  <2>3. w[c] = t[c - m]
    BY <1>2, <2>2
  <2>. QED
    BY <2>1, <2>2, <2>3
<1>7. \A j \in 1..m : \A c \in 1..l : s[j] # t[c]
  BY <1>3 DEF ToSet
<1>8. ASSUME NEW a \in DOMAIN w, NEW b \in DOMAIN w, w[a] = w[b]
      PROVE  a = b
  <2>1. /\ \/ a \in 1..m /\ w[a] = s[a]
           \/ a - m \in 1..l /\ w[a] = t[a - m]
        /\ \/ b \in 1..m /\ w[b] = s[b]
           \/ b - m \in 1..l /\ w[b] = t[b - m]
    BY <1>3, <1>4
  <2>2. CASE a \in 1..m /\ w[a] = s[a] /\ b \in 1..m /\ w[b] = s[b]
    BY <1>3, <1>8, <2>2 DEF IsInjective
  <2>3. CASE a - m \in 1..l /\ w[a] = t[a - m] /\ b - m \in 1..l /\ w[b] = t[b - m]
    <3>1. a - m = b - m
      BY <1>3, <1>8, <2>3 DEF IsInjective
    <3>. QED
      BY <1>2, <1>3, <3>1
  <2>. QED
    BY <1>7, <1>8, <2>1, <2>2, <2>3
<1>9. ToSet(w) = ToSet(s) \union ToSet(t)
  <2>1. ASSUME NEW e \in ToSet(w) PROVE e \in ToSet(s) \union ToSet(t)
    <3>1. PICK j \in 1..(m + l) : e = w[j]
      BY <1>3 DEF ToSet
    <3>. QED
      BY <1>3, <1>4, <3>1 DEF ToSet
  <2>2. ASSUME NEW e \in ToSet(s) PROVE e \in ToSet(w)
    <3>1. PICK j \in 1..m : e = s[j]
      BY <1>3 DEF ToSet
    <3>. QED
      BY <1>3, <1>5, <3>1 DEF ToSet
  <2>3. ASSUME NEW e \in ToSet(t) PROVE e \in ToSet(w)
    <3>1. PICK j \in 1..l : e = t[j]
      BY <1>3 DEF ToSet
    <3>. QED
      BY <1>3, <1>6, <3>1 DEF ToSet
  <2>. QED
    BY <2>1, <2>2, <2>3
<1>10. IsInjective(w)
  BY <1>8 DEF IsInjective
<1>. QED
  BY <1>1, <1>9, <1>10

\* No host is on the first no pages.
LEMMA NoneUpTo ==
    ASSUME NEW served \in Seq(Text), NEW size \in Nat
    PROVE  SubSeq(served, 1, IF 0 * size < Len(served) THEN 0 * size ELSE Len(served)) = << >>
<1>1. PICK T : T = Text
  OBVIOUS
<1>2. served \in Seq(T) /\ Len(served) \in Nat
  BY <1>1
<1>3. (IF 0 * size < Len(served) THEN 0 * size ELSE Len(served)) = 0
  BY <1>2
<1>4. 1 \in Nat \ {0} /\ 0 \in Nat /\ 0 <= Len(served) /\ 0 < 1
  BY <1>2
<1>5. SubSeq(served, 1, 0) = << >>
  BY <1>2, <1>4, EmptySlice
<1>. QED
  BY <1>3, <1>5

LEMMA CollectRequests ==
    ASSUME RequestInv, TransferInv, CollectInv, FirstRequest
    PROVE  CollectInv'
<1>1. /\ foreman = "uri" /\ CanCopy(Prepared) /\ baseuri' = Prepared /\ fits' = HasRoom(Prepared)
      /\ foreman' = "first"
      /\ request' = build(add_get_param(Prepared, Page, Number(1)))
      /\ incoming' = << >> /\ chunk' = << >>
      /\ UNCHANGED <<asked, before, nodes, hosts, sound, current_page, pages, results>>
  BY DEF FirstRequest, get_json, worldVars
<1>2. Prepared \in StoredUris
  BY <1>1, PreparedType
<1>3. request' \in Text
  <2>1. add_get_param(Prepared, Page, Number(1)) \in StoredUris
    BY <1>1, PreparedType, AddsPage
  <2>. QED
    BY <1>1, <2>1, BuildType
<1>4. Waiting'
  BY <1>3, TextsAre DEF Waiting
<1>5. asked = << >> /\ before = Len(nodes)
  BY <1>1 DEF CollectInv, PageInv, HostsInv
<1>6. asked' \in Seq(Nat) /\ Len(asked') = 0 /\ DOMAIN asked' = {}
  BY <1>1, <1>5
<1>7. RoomInv'
  BY <1>1 DEF RoomInv
<1>8. Done' = 0
  BY <1>1 DEF Done
<1>9. PageInv'
  BY <1>1, <1>4, <1>6, <1>8 DEF PageInv, PagesInOrder
<1>10. Found' = << >>
  <2>1. nodes' \in Seq(Text) /\ before' = Len(nodes')
    BY <1>1, <1>5 DEF TransferInv
  <2>. QED
    BY <2>1, FoundNone DEF Found
<1>11. UpTo(0)' = << >>
  <2>1. hosts' \in Seq(Text) /\ Size' \in Nat
    BY <1>1, <1>2, SizeType DEF TransferInv, Size
  <2>. QED
    BY <2>1, NoneUpTo DEF UpTo
<1>12. FoundUpTo(Done)'
  BY <1>8, <1>10, <1>11 DEF FoundUpTo, IsInjective, ToSet
<1>13. Coming' = {}
  BY <1>1 DEF Coming
<1>14. HostsInv'
  BY <1>1, <1>4, <1>5, <1>12, <1>13 DEF HostsInv, EveryHostOnce
<1>. QED
  BY <1>7, <1>9, <1>14 DEF CollectInv

\* The server answers for the page that is asked for.
LEMMA CollectAnswered ==
    ASSUME RequestInv, TransferInv, CollectInv, Serve \/ ServeBad
    PROVE  CollectInv'
<1>1. /\ Waiting /\ ~Waiting' /\ asked' = Append(asked, PageAsked)
      /\ UNCHANGED <<foreman, baseuri, fits, before, nodes, hosts, current_page, pages, results>>
  BY DEF Serve, ServeBad, Answers, pluginVars, Waiting
<1>2. /\ AtRequest /\ AtCall /\ AtRequest' /\ foreman # "returned"
      /\ foreman \notin {"collect", "uri"}
  BY <1>1 DEF TransferInv, AtRequest, AtCall
<1>3. /\ Size' = Size /\ Done' = Done /\ Found' = Found
      /\ (AtCall' <=> AtCall) /\ (PageFits' <=> PageFits)
  BY <1>1 DEF Size, Done, Found, AtCall, PageFits
<1>4. PageAsked \in Nat /\ PerPageAsked \in Nat
  <2>1. request \in Text
    BY <1>1 DEF TransferInv, Waiting, MaybeText
  <2>. QED
    BY <2>1, ServerReadsNumbers
<1>5. RoomInv'
  BY <1>1 DEF CollectInv, RoomInv, AtCall
<1>6. asked \in Seq(Nat) /\ asked' \in Seq(Nat)
  BY <1>1, <1>4 DEF CollectInv, PageInv
<1>7. ASSUME PageFits
      PROVE  /\ PageAsked = Done + 1 /\ PerPageAsked = Size /\ Done \in Nat
             /\ Len(asked) = Done /\ Len(asked') = Done + 1 /\ asked'[Done + 1] = Done + 1
             /\ \A c \in 1..Done : asked'[c] = c
  <2>1. PageAsked = Done + 1 /\ PerPageAsked = Size /\ Done \in Nat
    BY <1>1, <1>7, NextIsRead DEF CollectInv
  <2>2. Len(asked) = Done /\ \A c \in DOMAIN asked : asked[c] = c
    BY <1>1, <1>2, <1>7 DEF CollectInv, PageInv, PagesInOrder
  <2>3. PICK d : d = Done
    OBVIOUS
  <2>4. d \in Nat /\ asked' = Append(asked, d + 1) /\ Len(asked) = d
    BY <1>1, <2>1, <2>2, <2>3
  <2>5. /\ Len(asked') = d + 1 /\ asked'[d + 1] = d + 1
        /\ \A c \in 1..d : asked'[c] = asked[c]
    BY <1>6, <2>4
  <2>6. DOMAIN asked = 1..d
    BY <1>6, <2>4
  <2>. QED
    BY <2>1, <2>2, <2>3, <2>5, <2>6
<1>8. PageInv'
  <2>1. ASSUME PageFits PROVE PagesInOrder'
    <3>1. DOMAIN asked' = 1..(Done + 1)
      BY <1>6, <1>7, <2>1
    <3>2. \A c \in DOMAIN asked' : asked'[c] = c
      <4>1. PICK d : d = Done
        OBVIOUS
      <4>2. d \in Nat /\ asked'[d + 1] = d + 1 /\ \A c \in 1..d : asked'[c] = c
        BY <1>7, <2>1, <4>1
      <4>. QED
        BY <3>1, <4>1, <4>2
    <3>3. Len(asked') > 1 => Len(asked') <= pages' + 1
      <4>1. CASE foreman = "first"
        BY <1>7, <2>1, <4>1 DEF Done
      <4>2. CASE foreman = "next"
        <5>1. current_page \in Nat /\ current_page <= pages + 1 /\ Done = current_page - 1
          BY <2>1, <4>2 DEF CollectInv, PageInv, TransferInv, Done
        <5>2. Len(asked') = current_page
          BY <1>7, <2>1, <5>1
        <5>. QED
          BY <1>1, <5>1, <5>2
      <4>. QED
        BY <1>2, <4>1, <4>2 DEF AtRequest
    <3>. QED
      BY <3>2, <3>3 DEF PagesInOrder
  <2>2. ASSUME PageFits PROVE Len(asked') = Done + 1
    BY <1>7, <2>2
  <2>. QED
    BY <1>1, <1>2, <1>3, <1>6, <2>1, <2>2 DEF CollectInv, PageInv
<1>9. /\ Serve => Coming' = {[kind |-> "page", subtotal |-> Len(hosts),
                              page |-> PageAsked, per_page |-> PerPageAsked,
                              results |-> OnPage(PageAsked, PerPageAsked)]}
      /\ ServeBad => Coming' \subseteq {Garbage, NoFields}
  BY TransferAnswered
<1>10. ASSUME PageFits, NEW a \in Coming'
       PROVE  AnswerFits(a, Done + 1)'
  <2>1. PICK p, size : p = Done /\ size = Size
    OBVIOUS
  <2>2. CASE Serve
    <3>1. PageAsked = p + 1 /\ PerPageAsked = size /\ p \in Nat /\ size \in Nat \ {0}
      <4>1. PageAsked = p + 1 /\ PerPageAsked = size /\ p \in Nat
        BY <1>7, <1>10, <2>1
      <4>2. PerPageAsked > 0
        BY <2>2 DEF Serve
      <4>. QED
        BY <1>4, <4>1, <4>2
    <3>2. PICK found : found = OnPage(p + 1, size)
      OBVIOUS
    <3>3. a = [kind |-> "page", subtotal |-> Len(hosts), page |-> p + 1, per_page |-> size,
               results |-> found]
      BY <1>9, <1>10, <2>2, <3>1, <3>2
    <3>4. a.subtotal = Len(hosts) /\ a.page = p + 1 /\ a.per_page = size /\ a.results = found
      BY <3>3
    <3>5. hosts \in Seq(Text) /\ IsInjective(hosts)
      BY DEF TransferInv
    <3>6. /\ IsInjective(found)
          /\ \A e \in ToSet(found) :
                \E j \in DOMAIN hosts : p * size < j /\ j <= (p + 1) * size /\ e = hosts[j]
      BY <3>1, <3>2, <3>5, PageHosts
    <3>7. \A j \in DOMAIN hosts : j > p * size => hosts[j] \notin ToSet(Found)
      BY <1>2, <1>10, <2>1 DEF CollectInv, HostsInv, FoundUpTo
    <3>8. PICK b, c \in Nat : b = p * size /\ c = (p + 1) * size
      BY <3>1, PageEnds
    <3>9. ToSet(found) \intersect ToSet(Found) = {}
      <4>1. ASSUME NEW e \in ToSet(found) PROVE e \notin ToSet(Found)
        <5>1. PICK j \in DOMAIN hosts : b < j /\ e = hosts[j]
          BY <3>6, <3>8
        <5>2. j > b
          BY <3>5, <5>1
        <5>. QED
          BY <3>7, <3>8, <5>1, <5>2
      <4>. QED
        BY <4>1
    <3>10. \A j \in DOMAIN hosts : j > c => hosts[j] \notin ToSet(found)
      <4>1. ASSUME NEW j \in DOMAIN hosts, j > c, hosts[j] \in ToSet(found) PROVE FALSE
        <5>1. PICK m \in DOMAIN hosts : m <= c /\ hosts[j] = hosts[m]
          BY <3>6, <3>8, <4>1
        <5>2. j = m
          BY <3>5, <5>1 DEF IsInjective
        <5>3. j \in Nat
          BY <3>5
        <5>. QED
          BY <3>8, <4>1, <5>1, <5>2, <5>3
      <4>. QED
        BY <4>1
    <3>11. Apart(Found, found, Done + 1)
      BY <2>1, <3>6, <3>8, <3>9, <3>10 DEF Apart
    <3>12. Apart(Found, found, Done + 1)'
      <4>1. found' = found /\ hosts' = hosts
        BY <1>1
      <4>. QED
        BY <1>3, <3>11, <4>1 DEF Apart
    <3>13. a \in PageAnswers
      <4>1. a \in AllAnswers
        BY <1>10, TransferAnswered
      <4>2. a.kind = "page"
        BY <3>3
      <4>. QED
        BY <4>1, <4>2, PageRead
    <3>14. OnPage(Done + 1, Size)' = found
      BY <1>1, <1>3, <2>1, <3>2 DEF OnPage
    <3>. QED
      BY <1>1, <1>3, <2>1, <3>4, <3>12, <3>13, <3>14 DEF AnswerFits, PageAnswers
  <2>3. CASE ServeBad
    <3>1. a \in {Garbage, NoFields}
      BY <1>9, <1>10, <2>3
    <3>2. a \notin PageAnswers
      BY <3>1, PageFields
    <3>3. ~sound' /\ PageAnswers' = PageAnswers
      BY <2>3 DEF ServeBad, PageAnswers
    <3>. QED
      BY <3>2, <3>3 DEF AnswerFits
  <2>. QED
    BY <2>2, <2>3
<1>11. sound' => sound /\ Coming' # {}
  BY <1>9 DEF Serve, ServeBad
<1>12. HostsInv'
  <2>1. PageFits => FoundUpTo(Done)'
    BY <1>1, <1>2, <1>3, <1>11 DEF CollectInv, HostsInv, FoundUpTo, UpTo
  <2>. QED
    BY <1>1, <1>2, <1>3, <1>10, <1>11, <2>1 DEF CollectInv, HostsInv, EveryHostOnce, AtRequest
<1>. QED
  BY <1>5, <1>8, <1>12 DEF CollectInv

LEMMA CollectReceives ==
    ASSUME TransferInv, CollectInv, Receive
    PROVE  CollectInv'
<1>1. /\ ~Waiting /\ ~Waiting'
      /\ UNCHANGED <<foreman, fits, baseuri, asked, before, nodes, hosts, sound, current_page,
                     pages, results, request>>
  BY DEF Receive, pluginVars, worldVars, observedVars, Waiting
<1>2. Coming' = Coming
  BY TransferReceives
<1>3. /\ Size' = Size /\ Done' = Done /\ Found' = Found
      /\ (AtCall' <=> AtCall) /\ (AtRequest' <=> AtRequest) /\ (PageFits' <=> PageFits)
  BY <1>1 DEF Size, Done, Found, AtCall, AtRequest, PageFits
<1>4. RoomInv'
  BY <1>1 DEF CollectInv, RoomInv, AtCall
<1>5. PageInv'
  BY <1>1, <1>3 DEF CollectInv, PageInv, PagesInOrder
<1>6. HostsInv'
  BY <1>1, <1>2, <1>3 DEF CollectInv, HostsInv, EveryHostOnce, FoundUpTo, UpTo, Apart,
                          AnswerFits, PageAnswers, OnPage
<1>. QED
  BY <1>4, <1>5, <1>6 DEF CollectInv

\* The hosts behind a page are hosts behind it when one is deleted.
LEMMA CollectLoses ==
    ASSUME RequestInv, TransferInv, CollectInv, HostVanishes
    PROVE  CollectInv'
<1>1. /\ ~sound' /\ foreman \in {"first", "next"}
      /\ UNCHANGED <<foreman, fits, baseuri, asked, before, nodes, current_page,
                     pages, results, request, chunk, incoming>>
  BY DEF HostVanishes, pluginVars, transferVars, observedVars
<1>2. /\ Size' = Size /\ Done' = Done /\ Found' = Found /\ Coming' = Coming
      /\ (AtCall' <=> AtCall) /\ (AtRequest' <=> AtRequest) /\ (PageFits' <=> PageFits)
      /\ (Waiting' <=> Waiting)
  BY <1>1 DEF Size, Done, Found, AtCall, AtRequest, PageFits, Coming, Waiting
<1>3. RoomInv'
  BY <1>1 DEF CollectInv, RoomInv, AtCall
<1>4. PageInv'
  BY <1>1, <1>2 DEF CollectInv, PageInv, PagesInOrder
<1>5. ASSUME NEW found, NEW p \in Nat, Size \in Nat,
             \A j \in DOMAIN hosts : j > p * Size => hosts[j] \notin ToSet(found)
      PROVE  \A j \in DOMAIN hosts' : j > p * Size => hosts'[j] \notin ToSet(found)
  <2>1. ASSUME NEW j \in DOMAIN hosts', j > p * Size
        PROVE  hosts'[j] \notin ToSet(found)
    <3>1. PICK m \in DOMAIN hosts : m >= j /\ hosts'[j] = hosts[m]
      BY HostsMove
    <3>2. PICK a \in Nat : a = p * Size
      BY <1>5
    <3>3. j \in Nat /\ m \in Nat
      <4>1. hosts \in Seq(Text) /\ hosts' \in Seq(Text)
        BY HostsMove DEF TransferInv
      <4>. QED
        BY <4>1
    <3>4. m > a
      BY <2>1, <3>1, <3>2, <3>3
    <3>. QED
      BY <1>5, <3>1, <3>2, <3>4
  <2>. QED
    BY <2>1
<1>6. ASSUME PageFits
      PROVE  Done \in Nat /\ Done + 1 \in Nat /\ Size \in Nat
  <2>1. Done \in Nat
    BY <1>1, <1>6 DEF CollectInv, PageInv, TransferInv, Done
  <2>. QED
    BY <2>1, SizeIsNumber
<1>7. ASSUME PageFits
      PROVE  FoundUpTo(Done)'
  <2>1. /\ IsInjective(Found)
        /\ \A j \in DOMAIN hosts : j > Done * Size => hosts[j] \notin ToSet(Found)
    BY <1>1, <1>7 DEF CollectInv, HostsInv, FoundUpTo, AtCall
  <2>2. \A j \in DOMAIN hosts' : j > Done * Size => hosts'[j] \notin ToSet(Found)
    BY <1>5, <1>6, <1>7, <2>1
  <2>. QED
    BY <1>1, <1>2, <2>1, <2>2 DEF FoundUpTo
<1>8. ASSUME PageFits, NEW a \in Coming
      PROVE  AnswerFits(a, Done + 1)'
  <2>1. AnswerFits(a, Done + 1)
    BY <1>1, <1>8 DEF CollectInv, HostsInv, AtRequest
  <2>2. ASSUME a \in PageAnswers
        PROVE  a.page = Done + 1 /\ a.per_page = Size /\ Apart(Found, a.results, Done + 1)'
    <3>1. /\ a.page = Done + 1 /\ a.per_page = Size /\ IsInjective(a.results)
          /\ ToSet(a.results) \intersect ToSet(Found) = {}
          /\ \A j \in DOMAIN hosts : j > (Done + 1) * Size => hosts[j] \notin ToSet(a.results)
      BY <2>1, <2>2 DEF AnswerFits, Apart
    <3>2. \A j \in DOMAIN hosts' :
            j > (Done + 1) * Size => hosts'[j] \notin ToSet(a.results)
      BY <1>5, <1>6, <1>8, <3>1
    <3>. QED
      BY <1>2, <3>1, <3>2 DEF Apart
  <2>. QED
    BY <1>1, <1>2, <2>2 DEF AnswerFits, PageAnswers
<1>9. HostsInv'
  BY <1>1, <1>2, <1>7, <1>8 DEF CollectInv, HostsInv, EveryHostOnce, AtCall, AtRequest
<1>. QED
  BY <1>3, <1>4, <1>9 DEF CollectInv

\* The first page is read.
LEMMA CollectReadsFirst ==
    ASSUME TransferInv, CollectInv, FirstPage
    PROVE  CollectInv'
<1>1. PICK json \in json_tokener_parse(chunk) :
            /\ json.kind = "page" /\ current_page' = json.page
            /\ pages' = PageCount(json.subtotal, json.per_page)
            /\ results' = json.results
  BY DEF FirstPage
<1>2. /\ Received /\ foreman = "first" /\ foreman' = "hosts"
      /\ UNCHANGED <<baseuri, fits, asked, before, nodes, hosts, sound, request, chunk,
                     incoming>>
  BY DEF FirstPage, transferVars, worldVars, observedVars
<1>3. json \in PageAnswers
  BY <1>1, AnswersRead, PageRead
<1>4. /\ Size' = Size /\ Found' = Found /\ (PageFits' <=> PageFits) /\ ~Waiting /\ ~Waiting'
      /\ Done = 0
  BY <1>2 DEF Size, Found, PageFits, Received, Waiting, Done
<1>5. /\ json.subtotal \in Nat /\ json.per_page \in Nat \ {0}
  BY <1>3, PageFields
<1>6. pages' \in Nat /\ pages' * json.per_page >= json.subtotal /\ pages' >= 1
  BY <1>1, <1>5, PagesHold
<1>7. ASSUME PageFits
      PROVE  /\ current_page' = 1 /\ Done' = 0 /\ json.per_page = Size
             /\ Apart(Found, results', 1)
             /\ sound => json.subtotal = Len(hosts) /\ results' = OnPage(1, Size)
  <2>1. AnswerFits(json, 1)
    BY <1>2, <1>4, <1>7, AnswerRead DEF CollectInv
  <2>2. /\ json.page = 1 /\ json.per_page = Size /\ Apart(Found, json.results, 1)
        /\ sound => json.subtotal = Len(hosts) /\ json.results = OnPage(1, Size)
    BY <1>3, <2>1 DEF AnswerFits
  <2>. QED
    BY <1>1, <1>2, <2>2 DEF Done
<1>8. RoomInv'
  BY <1>2 DEF CollectInv, RoomInv, AtCall
<1>9. PageInv'
  <2>1. PageFits => Len(asked) = 1 /\ PagesInOrder
    BY <1>2, <1>4 DEF CollectInv, PageInv, AtCall
  <2>2. asked \in Seq(Nat)
    BY DEF CollectInv, PageInv
  <2>3. ASSUME PageFits PROVE PagesInOrder'
    <3>1. asked' = asked /\ Len(asked) = 1 /\ \A c \in DOMAIN asked : asked[c] = c
      BY <1>2, <2>1, <2>3 DEF PagesInOrder
    <3>2. ~(Len(asked') > 1)
      BY <3>1
    <3>. QED
      BY <3>1, <3>2 DEF PagesInOrder
  <2>4. ASSUME PageFits
        PROVE  /\ Len(asked') = Done' + 1
               /\ 1 <= current_page' /\ current_page' <= pages'
    BY <1>2, <1>6, <1>7, <2>1, <2>4
  <2>. QED
    BY <1>2, <1>4, <2>2, <2>3, <2>4 DEF PageInv
<1>10. HostsInv'
  <2>1. ASSUME PageFits
        PROVE  FoundUpTo(Done)'
    <3>1. FoundUpTo(0)
      BY <1>2, <1>4, <2>1 DEF CollectInv, HostsInv, AtCall
    <3>. QED
      BY <1>2, <1>4, <1>7, <2>1, <3>1 DEF FoundUpTo, UpTo
  <2>2. ASSUME PageFits
        PROVE  /\ Size > 0 /\ (sound => pages' * Size >= Len(hosts))
               /\ results' # NoText => Apart(Found, results, current_page)'
               /\ sound => results' = OnPage(current_page, Size)'
    <3>1. Size > 0 /\ (sound => pages' * Size >= Len(hosts))
      <4>1. json.per_page = Size /\ (sound => json.subtotal = Len(hosts))
        BY <1>7, <2>2
      <4>2. json.per_page > 0
        BY <1>5
      <4>. QED
        BY <1>6, <4>1, <4>2
    <3>2. Apart(Found, results, current_page)'
      BY <1>2, <1>4, <1>7, <2>2 DEF Apart
    <3>3. sound => results' = OnPage(current_page, Size)'
      BY <1>2, <1>4, <1>7, <2>2 DEF OnPage
    <3>. QED
      BY <3>1, <3>2, <3>3
  <2>. QED
    BY <1>2, <1>4, <2>1, <2>2 DEF HostsInv, EveryHostOnce, AtRequest
<1>. QED
  BY <1>8, <1>9, <1>10 DEF CollectInv

\* The next page is read.
LEMMA CollectReadsNext ==
    ASSUME TransferInv, CollectInv, NextPage, foreman' = "hosts"
    PROVE  CollectInv'
<1>1. PICK json \in json_tokener_parse(chunk) :
            /\ json # Garbage
            /\ results' = IF json = NoFields THEN NoText ELSE json.results
  BY DEF NextPage
<1>2. /\ Received /\ foreman = "next" /\ current_page <= pages
      /\ UNCHANGED <<baseuri, fits, asked, before, nodes, hosts, sound, request, chunk,
                     incoming, current_page, pages>>
  BY DEF NextPage, Returns, transferVars, worldVars, observedVars
<1>3. json \in AllAnswers
  BY AnswersRead
<1>4. /\ Size' = Size /\ Found' = Found /\ (PageFits' <=> PageFits) /\ ~Waiting /\ ~Waiting'
      /\ Done' = Done
  BY <1>2 DEF Size, Found, PageFits, Received, Waiting, Done
<1>5. ASSUME PageFits
      PROVE  /\ results' # NoText => Apart(Found, results', current_page)
             /\ sound => results' = OnPage(current_page, Size)
             /\ current_page \in Nat /\ 2 <= current_page
  <2>1. current_page \in Nat /\ 2 <= current_page
    BY <1>2, <1>5 DEF CollectInv, PageInv, TransferInv
  <2>2. Done + 1 = current_page
    BY <1>2, <2>1 DEF Done
  <2>3. AnswerFits(json, current_page)
    BY <1>2, <1>5, <2>2, AnswerRead DEF CollectInv
  <2>4. CASE json \in PageAnswers
    <3>1. json # NoFields
      BY <2>4, PageFields
    <3>. QED
      BY <1>1, <2>1, <2>3, <2>4, <3>1 DEF AnswerFits
  <2>5. CASE json \notin PageAnswers
    <3>1. json = NoFields /\ ~sound
      BY <1>1, <1>3, <2>3, <2>5 DEF AllAnswers, AnswerFits
    <3>. QED
      BY <1>1, <2>1, <3>1
  <2>. QED
    BY <2>4, <2>5
<1>6. RoomInv'
  BY <1>2 DEF CollectInv, RoomInv, AtCall
<1>7. PageInv'
  BY <1>2, <1>4, <1>5 DEF CollectInv, PageInv, PagesInOrder, AtCall
<1>8. HostsInv'
  <2>1. PageFits => FoundUpTo(Done)'
    BY <1>2, <1>4 DEF CollectInv, HostsInv, AtCall, FoundUpTo, UpTo
  <2>2. ASSUME PageFits
        PROVE  /\ results' # NoText => Apart(Found, results, current_page)'
               /\ sound => results' = OnPage(current_page, Size)'
    BY <1>2, <1>4, <1>5, <2>2 DEF Apart, OnPage
  <2>3. PageFits => Size > 0 /\ (sound => pages * Size >= Len(hosts))
    BY <1>2 DEF CollectInv, HostsInv
  <2>. QED
    BY <1>2, <1>4, <2>1, <2>2, <2>3 DEF HostsInv, EveryHostOnce, AtRequest
<1>. QED
  BY <1>6, <1>7, <1>8 DEF CollectInv

\* A page set is among the parameters, and the other parts stay.
LEMMA SetParts ==
    ASSUME NEW u \in StoredUris, NEW p \in Nat, NEW next, next = set_get_param(u, Page, Number(p))
    PROVE  /\ CanCopy(u) => CanCopy(next)
           /\ HasRoom(u) \/ Paged(u.get_params) => Paged(next.get_params)
<1>. DEFINE params == u.get_params
            shown == Number(p)
            place == get_uri_param(u, Page)
<1>1. PICK m \in Nat : DOMAIN params = 1..m /\ Len(params) = m
  BY ParamsOf
<1>2. \/ place = 0 /\ \A j \in 1..m : params[j].key # Page
      \/ place \in 1..m /\ params[place].key = Page
  BY <1>1, FirstWithKey
<1>3. Page # NoText /\ shown # NoText
  BY KeysArePlain, TextsAre, PageNumber DEF PlainKeys
<1>4. CASE place = 0
  <2>1. next = add_get_param(u, Page, Number(p)) /\ ~Paged(params)
    BY <1>1, <1>2, <1>3, <1>4 DEF set_get_param, Paged
  <2>2. CASE HasRoom(u)
    <3>. HIDE DEF place, shown
    <3>. QED
      BY <2>1, <2>2, AddedPage
  <2>3. CASE ~HasRoom(u)
    BY <2>1, <2>3 DEF add_get_param
  <2>. QED
    BY <2>2, <2>3
<1>5. CASE place # 0
  <2>1. PICK at : at = place
    OBVIOUS
  <2>2. at \in 1..m /\ params[at].key = Page
    BY <1>2, <1>5, <2>1
  <2>3. next = [u EXCEPT !.get_params = WithValue(params, at, shown)]
    BY <1>3, <1>5, <2>1 DEF set_get_param, WithValue
  <2>. HIDE DEF place, shown
  <2>4. PICK more : more = WithValue(params, at, shown)
    OBVIOUS
  <2>5. /\ next.get_params = more /\ next.hostname = u.hostname
        /\ next.scheme = u.scheme /\ next.port = u.port /\ next.path = u.path
    <3>1. PICK Q : Q = Seq([key : PlainKeys, value : MaybeText])
      OBVIOUS
    <3>2. u \in [scheme : Without({":"}) \union {NoText}, hostname : MaybeText,
                 port : Without({"/"}) \union {NoText},
                 path : Without({"?"}) \union {NoText}, get_params : Q]
      BY <3>1 DEF StoredUris, UriSet
    <3>. QED
      BY <2>3, <2>4, <3>2
  <2>6. params[at] \in StoredParams
    <3>1. PICK P : P = StoredParams
      OBVIOUS
    <3>2. params \in Seq(P)
      BY <3>1, ParamsOf
    <3>. HIDE DEF params
    <3>. QED
      BY <1>1, <2>2, <3>1, <3>2
  <2>. HIDE DEF params
  <2>7. DOMAIN more = 1..m /\ more[at] = [params[at] EXCEPT !.value = shown]
    BY <1>1, <2>2, <2>4 DEF WithValue
  <2>8. more[at].key = Page
    BY <2>2, <2>6, <2>7 DEF StoredParams
  <2>9. Paged(more)
    BY <2>2, <2>7, <2>8 DEF Paged
  <2>. QED
    BY <2>5, <2>9 DEF CanCopy
<1>. QED
  BY <1>4, <1>5

\* With the hosts of a page, those up to it were found.
LEMMA FoundOneMore ==
    ASSUME TransferInv, CollectInv, PageFits, foreman = "hosts", results # NoText,
           Size \in Nat
    PROVE  /\ Found \o results \in Seq(Text)
           /\ IsInjective(Found \o results)
           /\ \A j \in DOMAIN hosts :
                j > current_page * Size => hosts[j] \notin ToSet(Found \o results)
           /\ sound => Found \o results = UpTo(current_page)
           /\ Size \in Nat \ {0} /\ current_page \in Nat \ {0}
<1>1. results \in Seq(Text) /\ hosts \in Seq(Text) /\ current_page \in Nat
  BY DEF TransferInv
<1>2. Found \in Seq(Text)
  BY <1>1, FoundGrows
<1>3. /\ 1 <= current_page /\ Size > 0
      /\ Apart(Found, results, current_page)
      /\ sound => results = OnPage(current_page, Size)
  BY DEF CollectInv, PageInv, HostsInv
<1>4. FoundUpTo(Done) /\ Done = current_page - 1
  BY DEF CollectInv, HostsInv, AtCall, Done
<1>5. PICK p \in Nat : p = Done /\ current_page = p + 1
  BY <1>1, <1>3, <1>4
<1>6. PICK T, found, next : T = Text /\ found = Found /\ next = results
  OBVIOUS
<1>7. found \in Seq(T) /\ next \in Seq(T)
  BY <1>1, <1>2, <1>6
<1>8. /\ IsInjective(found) /\ IsInjective(next)
      /\ ToSet(next) \intersect ToSet(found) = {}
  BY <1>3, <1>4, <1>6 DEF Apart, FoundUpTo
<1>9. /\ IsInjective(found \o next)
      /\ ToSet(found \o next) = ToSet(found) \union ToSet(next)
  BY <1>7, <1>8, ApartJoin
<1>10. PICK a, c \in Nat : a = p * Size /\ c = (p + 1) * Size /\ c = a + Size
  BY <1>3, PageEnds
<1>11. ASSUME NEW j \in DOMAIN hosts, j > current_page * Size
       PROVE  hosts[j] \notin ToSet(found \o next)
  <2>1. j \in Nat /\ j > c
    BY <1>1, <1>5, <1>10, <1>11
  <2>2. j > a
    BY <1>10, <2>1
  <2>3. hosts[j] \notin ToSet(found)
    BY <1>4, <1>5, <1>6, <1>10, <2>2 DEF FoundUpTo
  <2>4. hosts[j] \notin ToSet(next)
    BY <1>3, <1>6, <1>11 DEF Apart
  <2>. QED
    BY <1>9, <2>3, <2>4
<1>12. sound => found \o next = UpTo(current_page)
  <2>1. Size \in Nat \ {0}
    BY <1>3
  <2>2. UpTo(p) \o OnPage(p + 1, Size) = UpTo(p + 1)
    BY <1>1, <2>1, NextPageJoins
  <2>3. sound => found = UpTo(p) /\ next = OnPage(p + 1, Size)
    BY <1>3, <1>4, <1>5, <1>6 DEF FoundUpTo
  <2>. QED
    BY <1>5, <2>2, <2>3, Zenon
<1>13. found \o next \in Seq(T)
  BY <1>7, ConcatIs
<1>. QED
  BY <1>1, <1>3, <1>5, <1>6, <1>9, <1>11, <1>12, <1>13

\* The hosts of a page are added and the next one is asked for.
LEMMA CollectAdds ==
    ASSUME RequestInv, TransferInv, CollectInv, AddHosts
    PROVE  CollectInv'
<1>. DEFINE to == set_get_param(baseuri, Page, Number(current_page + 1))
<1>1. /\ foreman = "hosts" /\ foreman' = "next" /\ results # NoText
      /\ current_page' = current_page + 1 /\ nodes' = nodes \o results
      /\ baseuri' = to /\ request' = build(to) /\ incoming' = << >> /\ chunk' = << >>
      /\ UNCHANGED <<fits, asked, before, hosts, sound, pages, results>>
  BY DEF AddHosts, get_json, worldVars, observedVars
<1>2. /\ current_page \in Nat /\ current_page + 1 \in Nat /\ baseuri \in StoredUris
      /\ results \in Seq(Text)
  BY <1>1 DEF TransferInv, RequestInv
<1>3. to \in StoredUris
  BY <1>2, AddsPage DEF RequestInv
<1>4. build(to) \in Text
  BY <1>3, BuildType
<1>. HIDE DEF to
<1>5. Waiting'
  BY <1>1, <1>4, TextsAre DEF Waiting
<1>6. ASSUME fits, OnePage(to.get_params)
      PROVE  /\ Shows(to.get_params, current_page + 1) /\ Paged(to.get_params)
             /\ SizeOf(to.get_params) = SizeOf(baseuri.get_params)
             /\ to.hostname = baseuri.hostname /\ (CanCopy(to) <=> CanCopy(baseuri))
             /\ OnePage(baseuri.get_params)
  <2>1. HasRoom(baseuri) \/ Paged(baseuri.get_params)
    BY <1>1, <1>6 DEF CollectInv, RoomInv, AtCall
  <2>. QED
    BY <1>2, <1>6, <2>1, SetPage DEF to
<1>7. ASSUME PageFits'
      PROVE  /\ PageFits /\ Size' = Size /\ Done' = current_page
             /\ Shows(baseuri.get_params, current_page)'
  <2>1. fits /\ OnePage(to.get_params) /\ to.hostname \in Without({":", "/"})
    BY <1>1, <1>7 DEF PageFits, OnePage
  <2>2. /\ Shows(to.get_params, current_page + 1)
        /\ SizeOf(to.get_params) = SizeOf(baseuri.get_params)
        /\ to.hostname = baseuri.hostname
        /\ OnePage(baseuri.get_params)
    BY <1>6, <2>1
  <2>3. PageFits
    BY <2>1, <2>2, FitsIs
  <2>4. Size' = Size
    BY <1>1, <2>2 DEF Size
  <2>5. Done' = current_page
    BY <1>1, <1>2 DEF Done
  <2>6. Shows(baseuri.get_params, current_page)' <=> Shows(to.get_params, current_page + 1)
    BY <1>1 DEF Shows
  <2>. QED
    BY <2>2, <2>3, <2>4, <2>5, <2>6
<1>8. RoomInv'
  <2>1. CanCopy(baseuri) /\ (fits => HasRoom(baseuri) \/ Paged(baseuri.get_params))
    BY <1>1 DEF CollectInv, RoomInv, AtCall
  <2>2. CanCopy(to) /\ (fits => Paged(to.get_params))
    BY <1>2, <2>1, SetParts DEF to
  <2>. QED
    BY <1>1, <2>2 DEF RoomInv
<1>9. PageInv'
  <2>1. asked \in Seq(Nat)
    BY DEF CollectInv, PageInv
  <2>2. ASSUME PageFits'
        PROVE  /\ PagesInOrder /\ Len(asked) = current_page
               /\ 1 <= current_page /\ current_page <= pages
    <3>1. PageFits /\ ~Waiting
      BY <1>1, <1>7, <2>2 DEF TransferInv, AtRequest
    <3>2. Done + 1 = current_page
      BY <1>1, <1>2 DEF Done
    <3>. QED
      BY <1>1, <3>1, <3>2 DEF CollectInv, PageInv, AtCall
  <2>3. PageFits' => PagesInOrder'
    BY <1>1, <1>7, <2>2 DEF PagesInOrder
  <2>4. ASSUME PageFits'
        PROVE  2 <= current_page' /\ current_page' <= pages' + 1
    <3>1. PICK p, q \in Nat : p = current_page /\ q = pages
      BY <1>2 DEF TransferInv
    <3>2. 1 <= p /\ p <= q
      BY <2>2, <2>4, <3>1
    <3>3. 2 <= p + 1 /\ p + 1 <= q + 1
      BY <3>1, <3>2
    <3>4. current_page' = p + 1 /\ pages' + 1 = q + 1
      BY <1>1, <3>1
    <3>. QED
      BY <3>3, <3>4, Zenon
  <2>. QED
    BY <1>1, <1>5, <1>7, <2>1, <2>2, <2>3, <2>4 DEF PageInv
<1>10. Found' = Found \o results
  BY <1>1, <1>2, FoundGrows DEF Found
<1>11. ASSUME PageFits'
       PROVE  FoundUpTo(Done)'
  <2>1. /\ IsInjective(Found \o results)
        /\ \A j \in DOMAIN hosts :
             j > current_page * Size => hosts[j] \notin ToSet(Found \o results)
        /\ sound => Found \o results = UpTo(current_page)
    BY <1>1, <1>7, <1>11, SizeIsNumber, FoundOneMore
  <2>2. UpTo(Done)' = UpTo(current_page)
    BY <1>1, <1>7, <1>11 DEF UpTo
  <2>. QED
    BY <1>1, <1>7, <1>10, <1>11, <2>1, <2>2 DEF FoundUpTo
<1>12. Coming' = {}
  BY <1>1 DEF Coming
<1>13. ASSUME PageFits'
       PROVE  Size' > 0 /\ (sound' => pages' * Size' >= Len(hosts'))
  <2>1. Size > 0 /\ (sound => pages * Size >= Len(hosts))
    BY <1>1, <1>7, <1>13 DEF CollectInv, HostsInv
  <2>. QED
    BY <1>1, <1>7, <1>13, <2>1
<1>14. HostsInv'
  BY <1>1, <1>5, <1>11, <1>12, <1>13 DEF HostsInv, EveryHostOnce
<1>. QED
  BY <1>8, <1>9, <1>14 DEF CollectInv

\* collect returns with every host found.
LEMMA CollectReturns ==
    ASSUME CollectInv, foreman' = "returned", UNCHANGED <<fits, baseuri, asked, pages>>,
           PageFits => IsInjective(Found') /\ (sound' => Found' = hosts')
    PROVE  CollectInv'
<1>1. PageFits' <=> PageFits
  BY DEF PageFits
<1>2. RoomInv'
  BY DEF RoomInv, AtCall
<1>3. PageInv'
  BY <1>1 DEF CollectInv, PageInv, PagesInOrder, AtCall
<1>4. HostsInv'
  BY <1>1 DEF HostsInv, EveryHostOnce, AtCall, AtRequest
<1>. QED
  BY <1>2, <1>3, <1>4 DEF CollectInv

\* The server has no hosts.
LEMMA CollectNone ==
    ASSUME RequestInv, TransferInv, CollectInv, NoResults
    PROVE  CollectInv'
<1>1. PICK json \in json_tokener_parse(chunk) :
            json = NoFields \/ (json.kind = "page" /\ json.subtotal = 0)
  BY DEF NoResults
<1>2. /\ Received /\ foreman = "first" /\ foreman' = "returned"
      /\ UNCHANGED <<baseuri, fits, asked, before, nodes, hosts, sound, pages>>
  BY DEF NoResults, Returns, worldVars, observedVars
<1>3. ASSUME PageFits
      PROVE  IsInjective(Found) /\ (sound => Found = hosts)
  <2>1. Done = 0
    BY <1>2 DEF Done
  <2>2. FoundUpTo(0)
    BY <1>2, <1>3, <2>1 DEF CollectInv, HostsInv, AtCall
  <2>3. AnswerFits(json, Done + 1)
    BY <1>2, <1>3, AnswerRead DEF CollectInv
  <2>4. ASSUME sound
        PROVE  Found = hosts
    <3>1. json \in PageAnswers /\ json.subtotal = Len(hosts)
      BY <2>3, <2>4 DEF AnswerFits
    <3>2. Len(hosts) = 0
      BY <1>1, <3>1, PageFields
    <3>3. hosts \in Seq(Text) /\ Size \in Nat
      BY SizeIsNumber DEF TransferInv
    <3>4. 0 * Size >= Len(hosts)
      BY <3>2, <3>3
    <3>5. UpTo(0) = hosts
      BY <3>3, <3>4, UpToEnds
    <3>. QED
      BY <2>2, <2>4, <3>5 DEF FoundUpTo
  <2>. QED
    BY <2>2, <2>4 DEF FoundUpTo
<1>4. Found' = Found
  BY <1>2 DEF Found
<1>. QED
  BY <1>2, <1>3, <1>4, CollectReturns

\* There is one page.
LEMMA CollectAddsOnly ==
    ASSUME RequestInv, TransferInv, CollectInv, AddOnlyPage
    PROVE  CollectInv'
<1>1. /\ foreman = "hosts" /\ foreman' = "returned" /\ results # NoText /\ pages = 1
      /\ nodes' = nodes \o results
      /\ UNCHANGED <<baseuri, fits, asked, before, hosts, sound, pages>>
  BY DEF AddOnlyPage, Returns, worldVars, observedVars
<1>2. results \in Seq(Text) /\ hosts \in Seq(Text) /\ Size \in Nat /\ current_page \in Nat
  BY <1>1, SizeIsNumber DEF TransferInv
<1>3. Found' = Found \o results
  BY <1>1, <1>2, FoundGrows DEF Found
<1>4. ASSUME PageFits
      PROVE  IsInjective(Found \o results) /\ (sound => Found \o results = hosts)
  <2>1. /\ IsInjective(Found \o results)
        /\ sound => Found \o results = UpTo(current_page)
    BY <1>1, <1>2, <1>4, FoundOneMore
  <2>2. 1 <= current_page /\ current_page <= pages
    BY <1>1, <1>4 DEF CollectInv, PageInv
  <2>3. current_page = 1
    BY <1>1, <1>2, <2>2
  <2>4. sound => 1 * Size >= Len(hosts)
    BY <1>1, <1>4 DEF CollectInv, HostsInv
  <2>5. sound => UpTo(1) = hosts
    BY <1>2, <2>4, UpToEnds
  <2>. QED
    BY <2>1, <2>3, <2>5
<1>. QED
  BY <1>1, <1>3, <1>4, CollectReturns

\* The page behind the last was read.
LEMMA CollectLeaves ==
    ASSUME RequestInv, TransferInv, CollectInv, NextPage, foreman' = "returned"
    PROVE  CollectInv'
<1>1. /\ foreman = "next" /\ ~(current_page <= pages)
      /\ UNCHANGED <<baseuri, fits, asked, before, nodes, hosts, sound, pages>>
  BY DEF NextPage, worldVars, observedVars
<1>2. hosts \in Seq(Text) /\ Size \in Nat /\ current_page \in Nat /\ pages \in Nat
  BY SizeIsNumber DEF TransferInv
<1>3. ASSUME PageFits
      PROVE  IsInjective(Found) /\ (sound => Found = hosts)
  <2>1. current_page <= pages + 1
    BY <1>1, <1>3 DEF CollectInv, PageInv
  <2>2. Done = pages
    BY <1>1, <1>2, <2>1 DEF Done
  <2>3. FoundUpTo(pages)
    BY <1>1, <1>3, <2>2 DEF CollectInv, HostsInv, AtCall
  <2>4. sound => pages * Size >= Len(hosts)
    BY <1>1, <1>3 DEF CollectInv, HostsInv
  <2>5. sound => UpTo(pages) = hosts
    BY <1>2, <2>4, UpToEnds
  <2>. QED
    BY <2>3, <2>5 DEF FoundUpTo
<1>4. Found' = Found
  BY <1>1 DEF Found
<1>. QED
  BY <1>1, <1>3, <1>4, CollectReturns

-----------------------------------------------------------------------------
(* Every host is found once *)

LEMMA CollectInit == Init => CollectInv
<1>. SUFFICES ASSUME Init PROVE CollectInv
  OBVIOUS
<1>1. PICK served : served \in Seq(Text) /\ IsInjective(served) /\ ForemanInit(served)
  BY ForemanStarts
<1>2. foreman = "idle" /\ asked = << >>
  BY <1>1 DEF ForemanInit
<1>3. asked \in Seq(Nat) /\ DOMAIN asked = {} /\ Len(asked) = 0
  BY <1>2
<1>. QED
  BY <1>2, <1>3 DEF CollectInv, RoomInv, PageInv, PagesInOrder, HostsInv, EveryHostOnce,
                    AtCall, AtRequest

\* main's own steps leave the call of collect alone.
LEMMA MainLeavesCollect ==
    ASSUME MainStep
    PROVE  CallForeman \/ CallDummy \/ ForemanStep \/ UNCHANGED CollectVars
<1>1. CASE \/ ParserEnds \/ RequireFails \/ LogOptionFails \/ HelpOrVersion \/ CallbackFails
           \/ SetKeyToNull \/ ConcurrentFails \/ CollectEnds \/ NoCommand \/ JoinCommand
  <2>1. \E how \in Ends : EndsWith(how)
    BY <1>1 DEF ParserEnds, RequireFails, LogOptionFails, HelpOrVersion, CallbackFails,
                SetKeyToNull, ConcurrentFails, CollectEnds, NoCommand, JoinCommand, Ends
  <2>2. UNCHANGED foremanVars
    BY <2>1 DEF EndsWith
  <2>. QED
    BY <2>2 DEF foremanVars, pluginVars, transferVars, worldVars, observedVars, CollectVars
<1>2. CASE ParseStep \/ BeginPlugins \/ ParseForKey \/ NextPlugin \/ BeginCollect
  <2>1. UNCHANGED foremanVars
    BY <1>2 DEF ParseStep, BeginPlugins, ParseForKey, NextPlugin, BeginCollect
  <2>. QED
    BY <2>1 DEF foremanVars, pluginVars, transferVars, worldVars, observedVars, CollectVars
<1>3. CASE LoadPlugin \/ SetKey
  BY <1>3 DEF LoadPlugin, SetKey, transferVars, worldVars, observedVars, CollectVars
<1>. QED
  BY <1>1, <1>2, <1>3 DEF MainStep

LEMMA ForemanCollects ==
    ASSUME RequestInv, TransferInv, CollectInv, ForemanNext
    PROVE  CollectInv'
<1>1. NextPage => foreman' \in {"hosts", "returned"}
  BY DEF NextPage, Returns
<1>. QED
  BY <1>1, CollectEndsEarly, CollectBegins, CollectRequests, CollectReceives, CollectNone,
     CollectReadsFirst, CollectReadsNext, CollectAdds, CollectAddsOnly, CollectLeaves
  DEF ForemanNext

LEMMA CollectStep ==
    ASSUME RequestInv, TransferInv, CollectInv, [Next]_vars
    PROVE  CollectInv'
<1>1. CASE MainStep
  <2>1. CASE CallForeman
    BY <2>1, CollectBegins DEF CallForeman
  <2>2. CASE CallDummy
    <3>1. foreman' = "idle" /\ UNCHANGED <<fits, baseuri, asked, pages>>
      BY <2>2 DEF CallDummy, pluginVars, observedVars
    <3>. QED
      BY <3>1, CollectGivesUp
  <2>3. CASE ForemanStep
    BY <2>3, ForemanCollects DEF ForemanStep
  <2>. QED
    BY <1>1, <2>1, <2>2, <2>3, MainLeavesCollect, CollectStays
<1>2. CASE ServerStep
  BY <1>2, CollectAnswered, CollectLoses DEF ServerStep, ServerNext
<1>3. CASE UriStep \/ PopenStep \/ UNCHANGED vars
  <2>1. UNCHANGED foremanVars
    BY <1>3 DEF UriStep, PopenStep, vars, commandVars
  <2>2. UNCHANGED CollectVars
    BY <2>1 DEF foremanVars, pluginVars, transferVars, worldVars, observedVars, CollectVars
  <2>. QED
    BY <2>2, CollectStays
<1>. QED
  BY <1>1, <1>2, <1>3 DEF Next, DistexecStep, AnswerStep, Terminated

LEMMA Collects == FairSpec => [](ProgramsInv /\ CollectInv)
<1>1. Init => ProgramsInv /\ CollectInv
  BY ProgramsInit, CollectInit
<1>2. ProgramsInv /\ CollectInv /\ [Next]_vars => (ProgramsInv /\ CollectInv)'
  <2>. SUFFICES ASSUME ProgramsInv, CollectInv, [Next]_vars
                PROVE  (ProgramsInv /\ CollectInv)'
    OBVIOUS
  <2>1. RequestInv /\ TransferInv
    BY DEF ProgramsInv, BufferInv
  <2>. QED
    BY <2>1, ProgramsStep, CollectStep
<1>. QED
  BY <1>1, <1>2, PTL DEF FairSpec

\* Through the parameters of the url, the text of the request and what the server reads
\* in it, the pages are asked for one after the other (foreman.c:213-232).
THEOREM PagesFollow == FairSpec => []PagesInOrder
<1>1. CollectInv => PagesInOrder
  BY DEF CollectInv, PageInv, PagesInOrder
<1>. QED
  BY <1>1, Collects, PTL

\* A call of collect that returns has added no host twice, even if one vanished or the
\* server failed, and every host without that (foreman.c:146-232).
THEOREM HostsOnce == FairSpec => []EveryHostOnce
<1>1. CollectInv => EveryHostOnce
  BY DEF CollectInv, HostsInv, EveryHostOnce
<1>. QED
  BY <1>1, Collects, PTL

-----------------------------------------------------------------------------
(* The types of what the programs hold *)

CopaTypes ==
    /\ opts \in Seq(Option)
    /\ x \in Nat
    /\ arguments \in Seq(Word)
    /\ parser \in {"words", "letters", "done", "exit", "overrun"}

SshKeyNames == {"username", "password", "known_hosts", "private_key", "public_key", "auth"}
CollectValues == {NULL, ForemanCollect, DummyCollect}

MainTypes ==
    /\ main \in {"parse", "load", "keys", "key", "collect"} \union Ends
    /\ command \in Seq(Word)
    /\ n <= Len(names) + 1
    /\ concurrent \in {"default", "given", "missing"}
    /\ collects \in Seq(CollectValues)
    /\ calls \in Seq(CollectValues \ {NULL})
    /\ ssh_cfg \in [SshKeyNames -> MaybeText]

UserTypes ==
    /\ test_uri \in {"params", "parsed", "aborted"}
    /\ program # "test-uri" => uri = uri_new
    /\ Len(uri1.get_params) <= URI_MAX_PARAMS
    /\ ops \in 0..MaxOps

-----------------------------------------------------------------------------

LEMMA StartTypes ==
    ASSUME NEW w, NEW o \in Seq(Option), CopaStart(w, o)
    PROVE  CopaTypes'
<1>1. PICK W : W = Word
  OBVIOUS
<1>2. << >> \in Seq(W)
  OBVIOUS
<1>. QED
  BY <1>1, <1>2 DEF CopaStart, CopaTypes

LEMMA ArgumentsAre ==
    ASSUME CopaInv, Reading, NEW a \in 1..(Len(argv) + 1), AddArguments(a)
    PROVE  arguments' \in Seq(Word)
<1>1. Len(argv) \in Nat /\ \A j \in a..Len(argv) : argv[j] \in Word
  BY DEF CopaInv
<1>2. SubSeq(argv, a, Len(argv)) \in Seq(Word)
  BY <1>1, SubSeqProperties
<1>. QED
  BY <1>2, AddedAre

LEMMA CopaTyped ==
    ASSUME CopaInv, CopaTypes, CopaNext
    PROVE  CopaTypes'
<1>1. CASE ShortWord \/ Chained \/ Letter \/ EndOfWords \/ Overrun
  BY <1>1 DEF ShortWord, Chained, Letter, StayInGroup, EndOfWords, Overrun, CopaTypes,
              inputVars, resultVars
<1>2. CASE LastLetter \/ UnknownLetter \/ LongWord \/ UnknownLongWord \/ OtherWord
  <2>1. opts' = opts /\ arguments' = arguments
    BY <1>2 DEF LastLetter, UnknownLetter, LongWord, UnknownLongWord, OtherWord, opt_given,
                inputVars
  <2>2. x' \in Nat /\ parser' \in {"words", "letters"}
    BY <1>2 DEF LastLetter, UnknownLetter, LongWord, UnknownLongWord, OtherWord, AtLongWord,
                AtOtherWord, AtWord, LeaveGroup, StayInGroup, CopaTypes
  <2>. QED
    BY <2>1, <2>2 DEF CopaTypes
<1>3. CASE EndOfOptions \/ TrailingWords
  <2>1. /\ Reading /\ i \in 1..(Len(argv) + 1) /\ i <= Len(argv) /\ Len(argv) \in Nat
        /\ opts' = opts /\ x' = x /\ parser' = "done"
    BY <1>3 DEF EndOfOptions, TrailingWords, AtOtherWord, AtWord, CopaInv, inputVars
  <2>2. i + 1 \in 1..(Len(argv) + 1)
    BY <2>1
  <2>3. AddArguments(i) \/ AddArguments(i + 1)
    BY <1>3 DEF EndOfOptions, TrailingWords
  <2>4. arguments' \in Seq(Word)
    BY <2>1, <2>2, <2>3, ArgumentsAre
  <2>. QED
    BY <2>1, <2>4 DEF CopaTypes
<1>. QED
  BY <1>1, <1>2, <1>3 DEF CopaNext

LEMMA CopaTypesStay == CopaTypes /\ UNCHANGED copaVars => CopaTypes'
  BY DEF CopaTypes, copaVars, inputVars, resultVars

\* A plugin's option is a text.
LEMMA KeyType ==
    ASSUME NEW name, NEW j \in 1..Len(Keys(name))
    PROVE  Keys(name)[j] \in Text
<1>1. name \in {<<"foreman">>, <<"ssh">>, <<"dummy">>}
  <2>1. ASSUME name \notin {<<"foreman">>, <<"ssh">>, <<"dummy">>} PROVE FALSE
    <3>1. Keys(name) = << >>
      BY <2>1 DEF Keys
    <3>. QED
      BY <3>1
  <2>. QED
    BY <2>1
<1>2. PICK T : T = Text
  OBVIOUS
<1>3. PICK keys : keys = Keys(name)
  OBVIOUS
<1>4. keys \in Seq(T)
  BY <1>1, <1>2, <1>3, CommandLineAssumption
<1>5. j \in 1..Len(keys)
  BY <1>3
<1>6. keys[j] \in T
  BY <1>4, <1>5
<1>. QED
  BY <1>2, <1>3, <1>6

\* The parsers that are started have options.
LEMMA MainAndOptions ==
    ASSUME ConfigInv, MainStep
    PROVE  \/ CopaNext
           \/ UNCHANGED copaVars
           \/ \E o \in Seq(Option) : \E w : CopaStart(w, o)
<1>1. << >> \in Seq(Option)
  <2>1. PICK O : O = Option
    OBVIOUS
  <2>. QED
    BY <2>1
<1>2. CASE ParseStep
  BY <1>2 DEF ParseStep
<1>3. CASE \/ ParserEnds \/ RequireFails \/ LogOptionFails \/ HelpOrVersion \/ CallbackFails
           \/ SetKeyToNull \/ ConcurrentFails \/ CollectEnds \/ NoCommand \/ JoinCommand
  BY <1>3 DEF ParserEnds, RequireFails, LogOptionFails, HelpOrVersion, CallbackFails,
              SetKeyToNull, ConcurrentFails, CollectEnds, NoCommand, JoinCommand, EndsWith
<1>4. CASE BeginPlugins \/ SetKey
  <2>1. CopaStart(<< >>, << >>)
    BY <1>4 DEF BeginPlugins, SetKey
  <2>. QED
    BY <1>1, <2>1
<1>5. CASE ParseForKey
  <2>1. PICK option : option = [short |-> NoText, long |-> Keys(names[n])[k], has_param |-> TRUE]
    OBVIOUS
  <2>2. CopaStart(left, <<option>>)
    BY <1>5, <2>1 DEF ParseForKey
  <2>3. option \in Option
    <3>1. k \in 1..Len(Keys(names[n]))
      <4>1. k \in Nat \ {0} /\ k <= Len(Keys(names[n]))
        BY <1>5 DEF ParseForKey, ConfigInv, MainInv, LoopInv
      <4>2. Len(Keys(names[n])) \in Nat
        BY KeyNames
      <4>. QED
        BY <4>1, <4>2
    <3>2. Keys(names[n])[k] \in Seq(Symbols)
      BY <3>1, KeyType DEF Text
    <3>. QED
      BY <2>1, <3>2 DEF Option
  <2>4. <<option>> \in Seq(Option)
    <3>1. PICK O : O = Option
      OBVIOUS
    <3>. QED
      BY <2>3, <3>1
  <2>. QED
    BY <2>2, <2>4
<1>6. CASE LoadPlugin \/ NextPlugin \/ BeginCollect \/ CallForeman \/ CallDummy \/ ForemanStep
  BY <1>6 DEF LoadPlugin, NextPlugin, BeginCollect, CallForeman, CallDummy, ForemanStep
<1>. QED
  BY <1>2, <1>3, <1>4, <1>5, <1>6 DEF MainStep

LEMMA CopaTypesStep ==
    ASSUME ConfigInv, CopaTypes, [Next]_vars
    PROVE  CopaTypes'
<1>1. CopaInv
  BY DEF ConfigInv, ParserInv
<1>2. CASE DistexecStep
  BY <1>1, <1>2, MainAndOptions, CopaTyped, CopaTypesStay, StartTypes DEF DistexecStep
<1>3. CASE AnswerStep \/ UriStep \/ PopenStep \/ UNCHANGED vars
  <2>1. UNCHANGED copaVars
    BY <1>3 DEF AnswerStep, ServerStep, UriStep, PopenStep, vars, commandVars
  <2>. QED
    BY <2>1, CopaTypesStay
<1>. QED
  BY <1>2, <1>3 DEF Next, Terminated

-----------------------------------------------------------------------------

LEMMA SshDefaults == SshUnconfigured \in [SshKeyNames -> MaybeText]
<1>1. NoText \in MaybeText
  BY DEF MaybeText
<1>2. <<"agent">> \in MaybeText
  <2>1. <<"agent">> \in Seq(Symbols)
    BY CommandLineAssumption
  <2>. QED
    BY <2>1 DEF MaybeText, Text
<1>. QED
  BY <1>1, <1>2 DEF SshUnconfigured, SshKeyNames

\* A callback in the list of collects, and a loop over it.
LEMMA CollectList ==
    ASSUME NEW l \in Seq(CollectValues)
    PROVE  /\ \A cb \in CollectValues :
                LL_APPEND(IF l = << >> THEN llist ELSE l, cb) \in Seq(CollectValues)
           /\ LL_EACH(l) \in Seq(CollectValues \ {NULL})
<1>1. PICK C : C = CollectValues /\ NULL \in C
  BY DEF CollectValues
<1>2. PICK first : first = IF l = << >> THEN llist ELSE l
  OBVIOUS
<1>3. first \in Seq(C)
  BY <1>1, <1>2 DEF llist
<1>4. ASSUME NEW cb \in C
      PROVE  LL_APPEND(first, cb) \in Seq(C)
  BY <1>3, <1>4 DEF LL_APPEND, llist_push, llist_append
<1>5. LL_EACH(l) \in Seq(C \ {NULL})
  <2>1. CASE l = << >>
    BY <2>1 DEF LL_EACH
  <2>2. CASE l # << >>
    <3>1. l \in Seq(C) /\ Len(l) \in Nat /\ Len(l) # 0
      BY <1>1, <2>2
    <3>2. PICK c : c = Len(l) - 1 /\ c \in 0..Len(l)
      BY <3>1
    <3>3. Passed(l)[c] \in Seq(C \ {NULL})
      BY <3>1, <3>2, PassedType
    <3>. QED
      BY <2>2, <3>2, <3>3 DEF LL_EACH
  <2>. QED
    BY <2>1, <2>2
<1>. QED
  BY <1>1, <1>2, <1>4, <1>5

LEMMA MainTypesStay ==
    ASSUME MainTypes, UNCHANGED <<command, names, n, concurrent, collects, calls, ssh_cfg>>,
           main' \in {"parse", "load", "keys", "key", "collect"} \union Ends
    PROVE  MainTypes'
  BY DEF MainTypes, CollectValues, SshKeyNames, MaybeText, Text

LEMMA MainTypesEnd ==
    ASSUME MainTypes, NEW how \in Ends, EndsWith(how)
    PROVE  MainTypes'
  BY MainTypesStay DEF EndsWith

LEMMA PluginsBegin ==
    ASSUME ConfigInv, CopaTypes, MainTypes, BeginPlugins
    PROVE  MainTypes'
<1>1. /\ main = "parse" /\ main' = "load" /\ command' = arguments
      /\ UNCHANGED <<n, collects, calls, ssh_cfg>>
      /\ names' = [m \in DOMAIN Values("plugin") |-> Values("plugin")[m].text]
      /\ concurrent' = CASE ~IsGiven("concurrent") -> "default"
                         [] Valueless("concurrent") -> "missing"
                         [] Values("concurrent") # << >> -> "given"
  BY DEF BeginPlugins, AtCallbacks, AtParsed
<1>2. n = 1 /\ Len(opts) = 14
  BY <1>1 DEF ConfigInv, MainInv, ParseInv
<1>3. Values("plugin") \in Seq(Word)
  <2>1. values \in [1..14 -> Seq(Word)]
    BY <1>2 DEF ConfigInv, ResultsInv
  <2>. QED
    BY <2>1, PluginOption DEF Values
<1>4. Len(names') \in Nat
  <2>1. PICK plugins : plugins = Values("plugin") /\ plugins \in Seq(Word)
    BY <1>3
  <2>2. DOMAIN plugins = 1..Len(plugins) /\ Len(plugins) \in Nat
    BY <2>1
  <2>3. names' = [m \in 1..Len(plugins) |-> plugins[m].text]
    BY <1>1, <2>1, <2>2
  <2>. QED
    BY <2>2, <2>3
<1>5. concurrent' \in {"default", "given", "missing"}
  BY <1>1 DEF Valueless
<1>6. 1 <= Len(names') + 1
  BY <1>4
<1>. QED
  BY <1>1, <1>2, <1>5, <1>6 DEF MainTypes, CopaTypes, CollectValues, SshKeyNames, MaybeText, Text

LEMMA PluginLoaded ==
    ASSUME MainTypes, LoadPlugin
    PROVE  MainTypes'
<1>1. /\ main' = "keys" /\ UNCHANGED <<command, names, n, concurrent, calls>>
      /\ collects' \in {collects, WithCollect(ForemanCollect), WithCollect(DummyCollect)}
      /\ ssh_cfg' \in {ssh_cfg, SshUnconfigured}
  BY DEF LoadPlugin
<1>2. collects' \in Seq(CollectValues)
  <2>1. /\ ForemanCollect \in CollectValues /\ DummyCollect \in CollectValues
        /\ collects \in Seq(CollectValues)
    BY DEF CollectValues, MainTypes
  <2>. QED
    BY <1>1, <2>1, CollectList DEF WithCollect
<1>3. ssh_cfg' \in [SshKeyNames -> MaybeText]
  BY <1>1, SshDefaults DEF MainTypes
<1>. QED
  BY <1>1, <1>2, <1>3 DEF MainTypes

LEMMA KeySet ==
    ASSUME ConfigInv, MainTypes, SetKey
    PROVE  MainTypes'
<1>1. /\ main = "key" /\ main' = "keys"
      /\ UNCHANGED <<command, names, n, concurrent, collects, calls>>
  BY DEF SetKey, AtKey
<1>2. ssh_cfg' \in [SshKeyNames -> MaybeText]
  <2>1. CASE given[1] /\ values[1] # << >>
    <3>. DEFINE text == Last(values[1]).text
                option == Keys(names[n])[k]
    <3>1. values[1] \in Seq(Word)
      <4>1. Len(opts) = 1
        BY <1>1 DEF ConfigInv, MainInv, KeyInv, KeyParser
      <4>2. values \in [1..Len(opts) -> Seq(Word)]
        BY DEF ConfigInv, ResultsInv
      <4>. QED
        BY <4>1, <4>2
    <3>2. Last(values[1]) \in Word
      BY <2>1, <3>1 DEF Last
    <3>3. text \in MaybeText
      BY <3>2 DEF Word, MaybeText, Text
    <3>4. ssh_cfg' = IF option[1] = "ssh" THEN [ssh_cfg EXCEPT ![option[2]] = text] ELSE ssh_cfg
      BY <2>1 DEF SetKey, Sets
    <3>. HIDE DEF text, option
    <3>. QED
      BY <3>3, <3>4 DEF MainTypes
  <2>2. CASE ~(given[1] /\ values[1] # << >>)
    BY <2>2 DEF SetKey, MainTypes
  <2>. QED
    BY <2>1, <2>2
<1>. QED
  BY <1>1, <1>2 DEF MainTypes

LEMMA MainTyped ==
    ASSUME ConfigInv, CopaTypes, MainTypes, MainStep
    PROVE  MainTypes'
<1>1. CASE \/ ParserEnds \/ RequireFails \/ LogOptionFails \/ HelpOrVersion \/ CallbackFails
           \/ SetKeyToNull \/ ConcurrentFails \/ CollectEnds \/ NoCommand \/ JoinCommand
  <2>1. \E how \in Ends : EndsWith(how)
    BY <1>1 DEF ParserEnds, RequireFails, LogOptionFails, HelpOrVersion, CallbackFails,
                SetKeyToNull, ConcurrentFails, CollectEnds, NoCommand, JoinCommand, Ends
  <2>. QED
    BY <2>1, MainTypesEnd
<1>2. CASE ParseStep \/ ForemanStep
  BY <1>2, MainTypesStay DEF ParseStep, ForemanStep, mainVars, MainTypes
<1>3. CASE ParseForKey
  BY <1>3, MainTypesStay DEF ParseForKey
<1>4. CASE NextPlugin
  <2>1. /\ main = "keys" /\ n' = n + 1 /\ main' = "load"
        /\ UNCHANGED <<command, names, concurrent, collects, calls, ssh_cfg>>
    BY <1>4 DEF NextPlugin
  <2>2. n \in 1..Len(names)
    BY <2>1 DEF ConfigInv, MainInv, LoopInv
  <2>3. n' <= Len(names') + 1
    BY <2>1, <2>2
  <2>. QED
    BY <2>1, <2>3 DEF MainTypes
<1>5. CASE BeginCollect
  <2>1. /\ main' = "collect" /\ calls' = LL_EACH(collects)
        /\ UNCHANGED <<command, names, n, concurrent, collects, ssh_cfg>>
    BY <1>5 DEF BeginCollect
  <2>2. calls' \in Seq(CollectValues \ {NULL})
    BY <2>1, CollectList DEF MainTypes
  <2>. QED
    BY <2>1, <2>2 DEF MainTypes
<1>6. CASE CallForeman \/ CallDummy
  <2>1. /\ main' = main /\ calls # << >> /\ calls' = Tail(calls)
        /\ UNCHANGED <<command, names, n, concurrent, collects, ssh_cfg>>
    BY <1>6 DEF CallForeman, CallDummy
  <2>2. PICK C : C = CollectValues \ {NULL}
    OBVIOUS
  <2>3. calls' \in Seq(C)
    BY <2>1, <2>2 DEF MainTypes
  <2>. QED
    BY <2>1, <2>2, <2>3 DEF MainTypes
<1>. QED
  BY <1>1, <1>2, <1>3, <1>4, <1>5, <1>6, PluginsBegin, PluginLoaded, KeySet DEF MainStep

LEMMA MainTypesStep ==
    ASSUME ConfigInv, CopaTypes, MainTypes, [Next]_vars
    PROVE  MainTypes'
<1>1. CASE AnswerStep \/ UriStep \/ PopenStep \/ UNCHANGED vars
  <2>1. UNCHANGED mainVars
    BY <1>1 DEF AnswerStep, ServerStep, UriStep, PopenStep, vars, commandVars
  <2>. QED
    BY <2>1, MainTypesStay DEF mainVars, MainTypes
<1>. QED
  BY <1>1, MainTyped DEF Next, Terminated, DistexecStep

-----------------------------------------------------------------------------

InPipe == {"this is a test", "teststr1", "nul"}
OutPipe == {"r1", "r3"}
ErrPipe == {"error", "stderr error"}

LEMMA PopenTypesStay == PopenTypeOK /\ UNCHANGED popenVars => PopenTypeOK'
  BY DEF PopenTypeOK, popenVars, pipeVars, InScript

LEMMA PopenTypesStart == PopenInit => PopenTypeOK
  BY DEF PopenInit, PopenTypeOK

LEMMA PopenWrites ==
    ASSUME PopenTypeOK, Write1 \/ Write2
    PROVE  PopenTypeOK'
<1>1. PICK written \in InPipe :
        /\ test' \in {"killed", "r1", "r3"}
        /\ in' \in {in, in \o <<written, "nul">>}
        /\ UNCHANGED <<answers, child, out, err>>
  BY DEF Write1, Write2, Writes, InPipe
<1>2. PICK T : T = InPipe
  OBVIOUS
<1>3. in \in Seq(T) /\ written \in T /\ "nul" \in T
  BY <1>2 DEF PopenTypeOK, InPipe
<1>4. in \o <<written, "nul">> \in Seq(T)
  <2>1. <<written, "nul">> \in Seq(T)
    BY <1>3
  <2>. QED
    BY <1>3, <2>1
<1>5. in' \in Seq(InPipe)
  BY <1>1, <1>2, <1>3, <1>4
<1>. QED
  BY <1>1, <1>5 DEF PopenTypeOK, InPipe, InScript

LEMMA LineRead ==
    ASSUME NEW T, NEW pipe \in Seq(T)
    PROVE  AfterLine(pipe) \in Seq(T)
  BY DEF AfterLine

LEMMA PopenReads ==
    ASSUME PopenTypeOK, ReadR1 \/ ReadR2 \/ ReadR3 \/ ReadErr
    PROVE  PopenTypeOK'
<1>1. out' \in Seq(OutPipe) /\ err' \in Seq(ErrPipe)
  BY LineRead DEF ReadR1, ReadR2, ReadR3, ReadsOut, ReadErr, PopenTypeOK, OutPipe, ErrPipe
<1>2. test' \in {"r2", "write 2", "stderr", "wait"} /\ UNCHANGED <<answers, child, in>>
  BY DEF ReadR1, ReadR2, ReadR3, ReadsOut, ReadErr
<1>. QED
  BY <1>1, <1>2 DEF PopenTypeOK, OutPipe, ErrPipe, InScript

LEMMA ScriptRead ==
    ASSUME PopenTypeOK, ReadLine \/ ReadSecond
    PROVE  PopenTypeOK'
<1>1. PICK c \in DOMAIN in : in' = SubSeq(in, c + 1, Len(in))
  BY DEF ReadLine, ReadSecond, ScriptReads
<1>2. in \in Seq(InPipe)
  BY DEF PopenTypeOK, InPipe
<1>3. Len(in) \in Nat /\ c \in Nat /\ \A j \in (c + 1)..Len(in) : in[j] \in InPipe
  BY <1>2
<1>4. in' \in Seq(InPipe)
  BY <1>1, <1>3, SubSeqProperties
<1>5. child' \in {"echo 1", "echo 2"} /\ UNCHANGED <<answers, test, out, err>>
  BY DEF ReadLine, ReadSecond, ScriptReads
<1>. QED
  BY <1>4, <1>5 DEF PopenTypeOK, InPipe, InScript

LEMMA ScriptEchoes ==
    ASSUME PopenTypeOK, ExecFails \/ Echo1 \/ EchoErr \/ Echo2
    PROVE  PopenTypeOK'
<1>1. out \in Seq(OutPipe) /\ err \in Seq(ErrPipe)
  BY Zenon DEF PopenTypeOK, OutPipe, ErrPipe
<1>2. out' \in Seq(OutPipe)
  <2>1. CASE Echo1
    <3>1. PICK more : more = [written \in 1..answers |-> "r1"]
      OBVIOUS
    <3>2. more \in Seq(OutPipe)
      <4>1. answers = InScript \/ answers = 2
        BY DEF PopenTypeOK
      <4>2. answers \in Nat
        BY <4>1 DEF InScript
      <4>3. "r1" \in OutPipe
        BY DEF OutPipe
      <4>4. PICK T, r : T = OutPipe /\ r = "r1"
        OBVIOUS
      <4>5. [m \in 1..answers |-> r] \in Seq(T)
        BY <4>2, <4>3, <4>4
      <4>. QED
        BY <3>1, <4>4, <4>5
    <3>3. out' = out \o more
      BY <2>1, <3>1 DEF Echo1
    <3>. QED
      BY <1>1, <3>2, <3>3
  <2>2. CASE Echo2
    <3>1. out' = Append(out, "r3") /\ "r3" \in OutPipe
      BY <2>2 DEF Echo2, OutPipe
    <3>. QED
      BY <1>1, <3>1
  <2>3. CASE ExecFails \/ EchoErr
    BY <1>1, <2>3 DEF ExecFails, EchoErr
  <2>. QED
    BY <2>1, <2>2, <2>3
<1>3. err' \in Seq(ErrPipe)
  <2>1. err' \in {err, Append(err, "error"), Append(err, "stderr error")}
    BY DEF ExecFails, Echo1, EchoErr, Echo2
  <2>2. "error" \in ErrPipe /\ "stderr error" \in ErrPipe
    BY DEF ErrPipe
  <2>3. \A e \in ErrPipe : Append(err, e) \in Seq(ErrPipe)
    <3>1. PICK T : T = ErrPipe
      OBVIOUS
    <3>2. err \in Seq(T)
      BY <1>1, <3>1
    <3>3. \A e \in T : Append(err, e) \in Seq(T)
      BY <3>2
    <3>. QED
      BY <3>1, <3>3
  <2>4. Append(err, "error") \in Seq(ErrPipe) /\ Append(err, "stderr error") \in Seq(ErrPipe)
    BY <2>2, <2>3, Zenon
  <2>. QED
    BY <1>1, <2>1, <2>4, Zenon
<1>4. child' \in {"ended", "echo err", "read 2"} /\ UNCHANGED <<answers, test, in>>
  BY DEF ExecFails, Echo1, EchoErr, Echo2
<1>. QED
  BY <1>2, <1>3, <1>4 DEF PopenTypeOK, OutPipe, ErrPipe, InScript

LEMMA PopenTyped ==
    ASSUME PopenTypeOK, PopenNext
    PROVE  PopenTypeOK'
<1>1. CASE PopenFails \/ Fork \/ FdopenFails \/ Wait \/ Exec \/ OrphanEnds
  BY <1>1 DEF PopenFails, Fork, FdopenFails, Wait, Exec, OrphanEnds, PopenTypeOK, pipeVars,
              InScript
<1>. QED
  BY <1>1, PopenWrites, PopenReads, ScriptRead, ScriptEchoes DEF PopenNext, TestNext, ChildNext

LEMMA PopenTypesStep ==
    ASSUME PopenTypeOK, [Next]_vars
    PROVE  PopenTypeOK'
<1>1. PopenNext \/ UNCHANGED popenVars
  BY DEF Next, DistexecStep, AnswerStep, UriStep, PopenStep, Terminated, vars
<1>. QED
  BY <1>1, PopenTyped, PopenTypesStay

-----------------------------------------------------------------------------

LEMMA UserTyped ==
    ASSUME BufferInv, UserTypes, UriStep
    PROVE  UserTypes'
<1>1. /\ program = "test-uri" /\ program' = program /\ UriNext
  BY DEF UriStep
<1>2. CASE AddParam \/ SetParam
  <2>1. Op
    BY <1>2 DEF AddParam, SetParam
  <2>2. ops' \in 0..MaxOps
    <3>1. ops \in 0..MaxOps /\ ops < MaxOps /\ ops' = ops + 1 /\ MaxOps \in Nat
      BY <2>1, UriUserAssumption DEF UserTypes, Op
    <3>. QED
      BY <3>1
  <2>. QED
    BY <1>1, <2>1, <2>2 DEF UserTypes, Op
<1>3. CASE ParseBack
  <2>1. uri \in StoredUris
    BY <1>1, UserUrisAre, StoredAndPlain DEF BufferInv, UriUserInv
  <2>2. build(uri) \in Text
    BY <2>1, BuildType
  <2>3. Len(parse(build(uri), uri_new).uri.get_params) <= URI_MAX_PARAMS
    BY <2>2, StoredAndPlain, ParseStores
  <2>4. /\ uri1' = parse(build(uri), uri_new).uri
        /\ test_uri' \in {"parsed", "aborted"} /\ ops' = ops
    BY <1>3 DEF ParseBack
  <2>. QED
    BY <1>1, <2>3, <2>4 DEF UserTypes
<1>. QED
  BY <1>1, <1>2, <1>3 DEF UriNext

LEMMA UserTypesStep ==
    ASSUME BufferInv, UserTypes, [Next]_vars
    PROVE  UserTypes'
<1>1. CASE DistexecStep \/ AnswerStep \/ PopenStep \/ UNCHANGED vars
  <2>1. UNCHANGED <<program, uriVars>>
    BY <1>1 DEF DistexecStep, AnswerStep, PopenStep, vars
  <2>. QED
    BY <2>1 DEF uriVars, UserTypes
<1>. QED
  BY <1>1, UserTyped DEF Next, Terminated

-----------------------------------------------------------------------------

TypeInv == CopaTypes /\ MainTypes /\ UserTypes /\ PopenTypeOK

LEMMA TypeInit == Init => TypeInv
<1>. SUFFICES ASSUME Init PROVE TypeInv
  OBVIOUS
<1>1. \E unset \in SUBSET Unset : \E w : MainInit(w, unset)
  BY DEF Init, Distexec, Mentioned, TestUri, TestPopen3, Idle
<1>2. PICK unset \in SUBSET Unset : \E w : MainInit(w, unset)
  BY <1>1
<1>3. PICK w : MainInit(w, unset)
  BY <1>2
<1>4. PICK W, V : W = Word /\ V = CollectValues
  OBVIOUS
<1>5. << >> \in Seq(W) /\ << >> \in Seq(V) /\ << >> \in Seq(V \ {NULL}) /\ Len(<< >>) = 0
  OBVIOUS
<1>6. CopaTypes
  <2>1. Options(unset) \in Seq(Option)
    BY CommandLineAssumption
  <2>. QED
    BY <1>3, <1>4, <1>5, <2>1 DEF MainInit, Parser, CopaTypes
<1>7. MainTypes
  <2>1. 1 <= Len(<< >>) + 1
    BY <1>5
  <2>. QED
    BY <1>3, <1>4, <1>5, <2>1, SshDefaults DEF MainInit, MainTypes
<1>8. UserTypes
  <2>1. test_uri = "params" /\ uri1 = uri_new /\ ops = 0 /\ (program # "test-uri" => uri = uri_new)
    BY DEF Init, Distexec, TestUri, TestPopen3, UriInit
  <2>2. Len(uri_new.get_params) <= URI_MAX_PARAMS /\ 0 \in 0..MaxOps
    BY StoredAndPlain, UriUserAssumption
  <2>. QED
    BY <2>1, <2>2 DEF UserTypes
<1>9. PopenTypeOK
  BY PopenTypesStart DEF Init, Distexec, TestUri, TestPopen3
<1>. QED
  BY <1>6, <1>7, <1>8, <1>9 DEF TypeInv

LEMMA TypeStep ==
    ASSUME ConfigInv, BufferInv, TypeInv, [Next]_vars
    PROVE  TypeInv'
  BY CopaTypesStep, MainTypesStep, UserTypesStep, PopenTypesStep DEF TypeInv

\* What foreman holds.
LEMMA ForemanTyped ==
    ASSUME RequestInv, TransferInv
    PROVE  ForemanTypeOK
<1>1. UriType(baseuri)
  <2>1. PICK Q : Q = Seq([key : PlainKeys, value : MaybeText])
    OBVIOUS
  <2>2. baseuri \in [scheme : Without({":"}) \union {NoText}, hostname : MaybeText,
                     port : Without({"/"}) \union {NoText},
                     path : Without({"?"}) \union {NoText}, get_params : Q]
    BY <2>1 DEF RequestInv, StoredUris, UriSet
  <2>3. Without({":"}) \subseteq Text /\ Without({"/"}) \subseteq Text
        /\ Without({"?"}) \subseteq Text
    BY SeqMonotonic DEF Without, Text
  <2>4. {baseuri.scheme, baseuri.hostname, baseuri.port, baseuri.path} \subseteq MaybeText
    BY <2>2, <2>3 DEF MaybeText
  <2>. QED
    BY <2>4 DEF UriType, RequestInv
<1>2. Len(chunk) <= 2
  <2>1. PICK B : B = BodyParts
    OBVIOUS
  <2>2. chunk \in Seq(B) /\ incoming \in Seq(B) /\ Len(chunk) + Len(incoming) <= 2
    BY <2>1 DEF TransferInv
  <2>3. Len(chunk) \in Nat /\ Len(incoming) \in Nat
    BY <2>2
  <2>. QED
    BY <2>2, <2>3
<1>3. \A key \in DOMAIN cfg : cfg[key] \in MaybeText
  BY DEF RequestInv
<1>. QED
  BY <1>1, <1>2, <1>3 DEF ForemanTypeOK, TransferInv, AtCall

LEMMA CopaIsTyped ==
    ASSUME ConfigInv, CopaTypes
    PROVE  CopaTypeOK
<1>1. parser = "letters" => InGroup
  BY DEF ConfigInv, ParserInv, CopaInv
<1>. QED
  BY <1>1 DEF ConfigInv, ParserInv, CopaInv, ResultsInv, CopaTypes, CopaTypeOK, InGroup

LEMMA CommandLineTyped ==
    ASSUME ConfigInv, RequestInv, TransferInv, CopaTypes, MainTypes
    PROVE  CommandLineTypeOK
<1>1. /\ line \in Seq(Word) /\ left \in Seq(Word) /\ names \in Seq(Text)
      /\ n \in Nat \ {0} /\ k \in Nat \ {0}
  BY DEF ConfigInv, ParserInv, MainInv, LoopInv, Text
<1>2. n \in 1..(Len(names) + 1)
  <2>1. PICK T : T = Text
    OBVIOUS
  <2>2. names \in Seq(T) /\ n <= Len(names) + 1
    BY <1>1, <2>1 DEF MainTypes
  <2>3. Len(names) \in Nat
    BY <2>2
  <2>. QED
    BY <1>1, <2>2, <2>3
<1>3. \A c \in DOMAIN collects : collects[c] \in CollectValues
  BY DEF MainTypes
<1>4. \A c \in DOMAIN calls : calls[c] \in CollectValues \ {NULL}
  BY DEF MainTypes
<1>5. \A key \in DOMAIN ssh_cfg : ssh_cfg[key] \in MaybeText
  BY DEF MainTypes
<1>. QED
  BY <1>1, <1>2, <1>3, <1>4, <1>5, ForemanTyped, CopaIsTyped
  DEF CommandLineTypeOK, MainTypes, CollectValues

LEMMA UserIsTyped ==
    ASSUME BufferInv, UserTypes
    PROVE  UriTypeOK
<1>1. Len(uri.get_params) <= URI_MAX_PARAMS
  <2>1. CASE program = "test-uri"
    BY <2>1 DEF BufferInv, UriUserInv
  <2>2. CASE program # "test-uri"
    BY <2>2, StoredAndPlain DEF UserTypes
  <2>. QED
    BY <2>1, <2>2
<1>. QED
  BY <1>1 DEF UserTypes, UriTypeOK

\* In every step of the three programs all variables keep their types: the parser that is
\* started again with a plugin's options (copa.c:91-244, main.c:158-234), the uri read from
\* a text of the command line, whose table is not overrun (uri.c:218-351), and the nodes,
\* all of which are hosts an answer named (foreman.c:193-211).
THEOREM Typing == FairSpec => []TypeOK
<1>1. Init => ProgramsInv /\ TypeInv
  BY ProgramsInit, TypeInit
<1>2. ProgramsInv /\ TypeInv /\ [Next]_vars => (ProgramsInv /\ TypeInv)'
  <2>. SUFFICES ASSUME ProgramsInv, TypeInv, [Next]_vars
                PROVE  (ProgramsInv /\ TypeInv)'
    OBVIOUS
  <2>. QED
    BY ProgramsStep, TypeStep DEF ProgramsInv
<1>3. ProgramsInv /\ TypeInv => TypeOK
  <2>. SUFFICES ASSUME ProgramsInv, TypeInv PROVE TypeOK
    OBVIOUS
  <2>1. ConfigInv /\ BufferInv /\ RequestInv /\ TransferInv
    BY DEF ProgramsInv, BufferInv
  <2>. QED
    BY <2>1, CommandLineTyped, UserIsTyped DEF TypeInv, TypeOK
<1>. QED
  BY <1>1, <1>2, <1>3, PTL DEF FairSpec
===============================================================================
