----------------------------- MODULE Transcript -----------------------------
(***************************************************************************)
(* The conversation of the standalone agent loop (daemon/agent-loop.ts,    *)
(* daemon/compact.ts): the messages the next request to the provider will  *)
(* carry, and the rows they are rebuilt from on a resume. Messages gain    *)
(* observations, the model's tool calls and their answers, the operator's  *)
(* words; screenshots are pruned, old turns compacted, and a pause may     *)
(* leave a call without an answer. A message is what kind it is and, for   *)
(* calls and answers, which calls.                                         *)
(***************************************************************************)
EXTENDS Integers, SequencesExt

CONSTANTS
    KeepAnswers,  \* DEFAULT_KEEP_TOOL_OBS: answers compaction leaves alone
    SaidBound, WordBound, SleepBound  \* bounds: calls made, operator messages, pauses

ASSUME TranscriptAssumption == KeepAnswers \in Nat \ {0} /\ {SaidBound, WordBound, SleepBound} \subseteq Nat

VARIABLES
    rows,      \* the stored steps of the task
    messages,  \* the conversation in memory
    phase,     \* where the loop is
    todo,      \* calls of this turn not reached yet
    said,      \* calls made so far; they are numbered
    words, sleeps  \* bounded counters

transcriptVars == <<rows, messages, phase, todo, said, words, sleeps>>

Screen == [is |-> "screen", image |-> TRUE]
Note == [is |-> "says", calls |-> {}]
Says(ids) == [is |-> "says", calls |-> ids]
Answer(id) == [is |-> "answer", of |-> id]
Words(heard) == [is |-> "words", heard |-> heard]

SaidIn(seq) == UNION {seq[i].calls : i \in {j \in DOMAIN seq : seq[j].is = "says"}}
AnsweredIn(seq) == {seq[i].of : i \in {j \in DOMAIN seq : seq[j].is = "answer"}}
Where(seq, kind) == {i \in DOMAIN seq : seq[i].is = kind}
Increasing(ids) == SetToSortSeq(ids, <)

TranscriptInit ==
    /\ rows = <<>> /\ messages = <<>> /\ phase = "top" /\ todo = <<>>
    /\ said = 0 /\ words = 0 /\ sleeps = 0
-----------------------------------------------------------------------------
\* append: into memory and into the store
Both(m) == messages' = Append(messages, m) /\ rows' = Append(rows, m)
\* finish(paused): the messages are gone with the loop
Sleeps == phase' = "asleep" /\ messages' = <<>> /\ todo' = <<>> /\ sleeps' = sleeps + 1

\* POST .../messages, while the task runs: a row to be delivered
Speaks ==
    /\ phase \notin {"asleep", "over"} /\ words < WordBound /\ words' = words + 1 /\ rows' = Append(rows, Words(FALSE))
    /\ UNCHANGED <<messages, phase, todo, said, sleeps>>

\* storedTranscript: the rows, then an answer for every call a pause left without one
TalkRebuilt(seq) ==
    seq \o [i \in 1..Len(Increasing(SaidIn(seq) \ AnsweredIn(seq))) |->
                Answer(Increasing(SaidIn(seq) \ AnsweredIn(seq))[i])]
WakesUp ==
    /\ phase = "asleep" /\ phase' = "top" /\ messages' = TalkRebuilt(rows)
    /\ UNCHANGED <<rows, todo, said, words, sleeps>>

\* The top of the loop: takeMessages hands over what was not delivered, and marks it
Pending(seq) == SelectSeq(seq, LAMBDA m : m = Words(FALSE))
Delivered(seq) == [i \in DOMAIN seq |-> IF seq[i] = Words(FALSE) THEN Words(TRUE) ELSE seq[i]]
TakesWords ==
    /\ phase = "top" /\ messages' = messages \o Delivered(Pending(rows)) /\ rows' = Delivered(rows)
    /\ phase' \in IF Pending(rows) # <<>> THEN {"observe", "chat"} ELSE {"observe"}
    /\ UNCHANGED <<todo, said, words, sleeps>>
\* Spoken to while a person has control: the model answers without tools
Chats ==
    /\ phase = "chat" /\ Both(Note) /\ phase' = "top"
    /\ UNCHANGED <<todo, said, words, sleeps>>

\* pruneScreenshots: all but the last two images go; the rows keep theirs
Pruned(seq) ==
    LET images == {i \in Where(seq, "screen") : seq[i].image}
        old == {i \in images : Cardinality({j \in images : j > i}) >= 2}
    IN  [i \in DOMAIN seq |-> IF i \in old THEN [seq[i] EXCEPT !.image = FALSE] ELSE seq[i]]
Observes ==
    /\ phase = "observe" /\ messages' = Pruned(Append(messages, Screen)) /\ rows' = Append(rows, Screen)
    /\ phase' = "ask"
    /\ UNCHANGED <<todo, said, words, sleeps>>
\* The provider answers: with calls, or without, which ends the run
Replies(n) ==
    /\ phase = "ask" /\ n > 0 /\ said + n <= SaidBound
    /\ Both(Says(said + 1 .. said + n)) /\ said' = said + n
    /\ todo' = [i \in 1..n |-> said + i] /\ phase' = "act"
    /\ UNCHANGED <<words, sleeps>>
OnlyTalks ==
    /\ phase = "ask" /\ sleeps < SleepBound /\ Sleeps /\ rows' = Append(rows, Note)
    /\ UNCHANGED <<said, words>>

\* One call: refused, executed, or overtaken by a person's control that was waited out
TalkAnswers ==
    /\ phase = "act" /\ todo # <<>> /\ Both(Answer(Head(todo))) /\ todo' = Tail(todo)
    /\ UNCHANGED <<phase, said, words, sleeps>>
\* Stalled, no approval, control not given back, a loop, no browser: the call stays open
TalkPauses ==
    /\ phase \in {"observe", "ask", "act"} /\ sleeps < SleepBound /\ Sleeps
    /\ UNCHANGED <<rows, said, words>>
IsDone == phase = "act" /\ todo # <<>> /\ phase' = "over" /\ UNCHANGED <<rows, messages, todo, said, words, sleeps>>

\* A bug: the cut falls between a call and its answer.
CutAtAnswer(seq) ==
    LET answers == Increasing(Where(seq, "answer"))
    IN  IF answers = <<>> THEN 1 ELSE answers[IF Len(answers) > KeepAnswers THEN Len(answers) - KeepAnswers + 1 ELSE 1]
\* compactTranscript: what comes before the calls of the last answers becomes one note
CutAt(seq) ==
    LET answers == Increasing(Where(seq, "answer"))
        first == answers[IF Len(answers) > KeepAnswers THEN Len(answers) - KeepAnswers + 1 ELSE 1]
        callers == {i \in Where(seq, "says") : i < first /\ seq[first].of \in seq[i].calls}
    IN  IF answers = <<>> THEN Len(seq) - KeepAnswers + 1
        ELSE IF callers = {} THEN first ELSE CHOOSE i \in callers : \A j \in callers : j <= i
Compacted(seq) == IF CutAt(seq) <= 1 THEN seq ELSE <<Note>> \o SubSeq(seq, CutAt(seq), Len(seq))
TurnEnds ==
    /\ phase = "act" /\ todo = <<>> /\ phase' = "top"
    /\ messages' \in {messages, Compacted(messages)}
    /\ UNCHANGED <<rows, todo, said, words, sleeps>>

TranscriptNext ==
    \/ Speaks \/ WakesUp \/ TakesWords \/ Chats \/ Observes \/ OnlyTalks \/ TalkAnswers \/ TalkPauses \/ IsDone \/ TurnEnds
    \/ \E n \in 1..2 : Replies(n)
TranscriptSpec == TranscriptInit /\ [][TranscriptNext]_transcriptVars
-----------------------------------------------------------------------------
\* Types: every variable holds a value of its type (AdapterMessage of types/contracts.ts).
TranscriptTypeOK ==
    /\ phase \in {"top", "observe", "chat", "ask", "act", "asleep", "over"}
    /\ \A seq \in {rows, messages} : \A i \in DOMAIN seq : seq[i].is \in {"screen", "says", "answer", "words"}
    /\ todo \in Seq(1..SaidBound) /\ {said, words, sleeps} \subseteq Nat

Requested == phase \in {"ask", "chat"}

\* No request leaves a call of the model without an answer, whatever paused the run, however
\* often, and whatever was compacted (storedTranscript: "a provider rejects a transcript that
\* leaves one open").
NoCallIsOpen == Requested => SaidIn(messages) \subseteq AnsweredIn(messages)

\* Every answer of a request has its call before it.
AnswerHasCall ==
    Requested => \A i \in Where(messages, "answer") :
        \E j \in Where(messages, "says") : j < i /\ messages[i].of \in messages[j].calls
\* So it is until a run that left a call open has been resumed twice (compactTranscript moves
\* its cut back to the calls of the first answer it keeps).
CompactionKeepsPairs == sleeps < 2 => AnswerHasCall

\* A request with tools carries at most the last two screenshots (pruneScreenshots).
TwoScreens == phase = "ask" => Cardinality({i \in Where(messages, "screen") : messages[i].image}) <= 2

\* A request to the model is one a provider accepts, after pauses and compactions.
TranscriptSafe == TranscriptTypeOK /\ NoCallIsOpen /\ CompactionKeepsPairs /\ TwoScreens

-----------------------------------------------------------------------------
\* What is written of the code and is not so; no run lists these.

\* An operator's message is in a request once. One sent to a run that then pauses is in the
\* stored rows and not delivered: a resume takes it from both.
HeardOnce == Requested => Len(SelectSeq(messages, LAMBDA m : m.is = "words")) <= words
=============================================================================
