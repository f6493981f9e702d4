---------------------------- MODULE P2PIdExtract ----------------------------
(***************************************************************************)
(* extractP2PID (src/test/e2e/evm_test_common.go, lines 186-245): the     *)
(* full-node test reads the sequencer's libp2p ID from the output the     *)
(* test harness captures, polling with require.Eventually every 200ms for *)
(* up to 10s.  The code expects the address line to be wrapped across    *)
(* several captured lines (its comments, lines 181 and 218) and the       *)
(* output of other processes (the local DA) to be captured alongside.     *)
(*                                                                         *)
(* Text is abstracted to tokens: "P1" is the start of the address line,  *)
(* "P2" its "/ip4/127.0.0.1/tcp/7676/p2p/" end, "i1" "i2" the characters *)
(* of the ID, "T" the text after it (space-separated).  A line of another *)
(* process is <<"o", "X">> when it starts with a letter or digit (a      *)
(* timestamp, a level) and <<"X">> otherwise.  A wrap cuts the line       *)
(* between two tokens.                                                     *)
(***************************************************************************)
EXTENDS Naturals, Sequences, SequencesExt, FiniteSets

CONSTANTS
  Cuts,       \* positions at which the address line may be wrapped
  MaxWraps,   \* how many times the address line may be wrapped
  MaxTicks,   \* ticks of require.Eventually before its timer (10s/200ms)
  MaxOther    \* lines other processes write while the test polls

(* The tokens [A-Za-z0-9] matches.                                         *)
IdChars == {"i1", "i2", "o"}
Msg == <<"P1", "P2", "i1", "i2", "T">>
SequencerId == <<"i1", "i2">>
OtherLines == {<<"o", "X">>, <<"X">>}

ASSUME /\ Cuts \subseteq 1..(Len(Msg) - 1)
       /\ MaxWraps \in Nat /\ MaxTicks \in Nat /\ MaxOther \in Nat

VARIABLES
  outBuff,    \* sut.outBuff: captured stdout lines
  errBuff,    \* sut.errBuff: captured stderr lines
  toLog,      \* lines of the address message the sequencer has yet to write
  stream,     \* the buffer the sequencer's logger writes to
  others,     \* lines other processes have written
  ticks,      \* ticks of Eventually so far
  p2pID,      \* the closure's captured variable, << >> for ""
  pc          \* "poll", "done" (returned p2pID) or "failed" (t.FailNow)

vars == <<outBuff, errBuff, toLog, stream, others, ticks, p2pID, pc>>

-----------------------------------------------------------------------------
(* The message cut into lines at the positions in cs.                     *)
Wrap(cs) ==
  LET ends == SetToSortSeq(cs \cup {Len(Msg)}, <)
      from(k) == IF k = 1 THEN 1 ELSE ends[k - 1] + 1
  IN [k \in 1..Len(ends) |-> SubSeq(Msg, from(k), ends[k])]

(* Mutation: the capture group ([A-Za-z0-9]) without its +.               *)
IdRunFirst(s, j) ==
  IF j <= Len(s) /\ s[j] \in IdChars THEN <<s[j]>> ELSE << >>

(* Mutation: the capture group (.+), the rest of the text.               *)
IdRunAnyChar(s, j) == IF j <= Len(s) THEN SubSeq(s, j, Len(s)) ELSE << >>

(* ([A-Za-z0-9]+) at position j: the longest run of ID characters.        *)
RECURSIVE IdRun(_, _)
IdRun(s, j) ==
  IF j <= Len(s) /\ s[j] \in IdChars THEN <<s[j]>> \o IdRun(s, j + 1) ELSE << >>

(* FindStringSubmatch: the group of the leftmost match, << >> for none.   *)
(* p2pRegex needs the whole address; p2pIDRegex only its /p2p/ part.      *)
Leftmost(s, starts) ==
  LET J == {j \in starts : IdRun(s, j) # << >>}
  IN IF J = {} THEN << >> ELSE IdRun(s, Min(J))

AddressMatch(s) ==
  Leftmost(s, {j \in 3..(Len(s) + 1) : s[j - 2] = "P1" /\ s[j - 1] = "P2"})

P2pMatch(s) == Leftmost(s, {j \in 2..(Len(s) + 1) : s[j - 1] = "P2"})

(* Mutation: only the stdout buffer collected.                            *)
LogLinesOutOnly == outBuff

(* allLogLines: the Do loops over outBuff, then errBuff.                  *)
LogLines == outBuff \o errBuff

(* The condition: a match in a line overwrites p2pID, the last one wins;  *)
(* only when p2pID is still "" are the lines joined and matched again.    *)
Condition ==
  LET perLine == FoldLeft(LAMBDA id, l : IF AddressMatch(l) # << >>
                                           THEN AddressMatch(l) ELSE id,
                          p2pID, LogLines)
      joined == FlattenSeq(LogLines)
  IN CASE perLine # << >>              -> perLine
       [] AddressMatch(joined) # << >> -> AddressMatch(joined)
       [] OTHER                        -> P2pMatch(joined)

-----------------------------------------------------------------------------
Init ==
  /\ outBuff = << >> /\ errBuff = << >>
  /\ \E cs \in SUBSET Cuts : Cardinality(cs) <= MaxWraps /\ toLog = Wrap(cs)
  /\ stream \in {"out", "err"}
  /\ others = 0
  /\ ticks = 0
  /\ p2pID = << >>
  /\ pc = "poll"

Write(s, line) ==
  IF s = "out" THEN outBuff' = Append(outBuff, line) /\ UNCHANGED errBuff
               ELSE errBuff' = Append(errBuff, line) /\ UNCHANGED outBuff

(* The sequencer's logger writes the next line of its address message.    *)
SequencerLogs ==
  /\ toLog # << >>
  /\ Write(stream, Head(toLog))
  /\ toLog' = Tail(toLog)
  /\ UNCHANGED <<stream, others, ticks, p2pID, pc>>

(* Another process writes a line to either buffer.                        *)
OtherLogs ==
  /\ others < MaxOther
  /\ \E s \in {"out", "err"}, line \in OtherLines : Write(s, line)
  /\ others' = others + 1
  /\ UNCHANGED <<toLog, stream, ticks, p2pID, pc>>

(* A tick: the condition runs (Eventually waits for its result before the *)
(* next tick); true ends Eventually and the function returns p2pID.       *)
Tick ==
  /\ pc = "poll"
  /\ ticks < MaxTicks
  /\ ticks' = ticks + 1
  /\ p2pID' = Condition
  /\ pc' = IF Condition # << >> THEN "done" ELSE "poll"
  /\ UNCHANGED <<outBuff, errBuff, toLog, stream, others>>

(* The 10s timer: Eventually fails and require calls t.FailNow, so the    *)
(* fallback ID after it (lines 238-244) is never returned.                *)
Timeout ==
  /\ pc = "poll"
  /\ ticks = MaxTicks
  /\ pc' = "failed"
  /\ UNCHANGED <<outBuff, errBuff, toLog, stream, others, ticks, p2pID>>

Next == SequencerLogs \/ OtherLogs \/ Tick \/ Timeout

(* The ticker and the timer of Eventually keep firing; nothing obliges    *)
(* the sequencer to log.                                                  *)
Spec == Init /\ [][Next]_vars /\ WF_vars(Tick) /\ WF_vars(Timeout)

-----------------------------------------------------------------------------
TypeOK ==
  /\ p2pID \in Seq(IdChars)
  /\ pc \in {"poll", "done", "failed"}
  /\ ticks \in 0..MaxTicks
  /\ others \in 0..MaxOther

(* The ID the function returns is the sequencer's whole ID, whatever the  *)
(* wrapping of its address line and the lines other processes put in      *)
(* between: a peer address built from anything else points the full node *)
(* at no peer.                                                             *)
ExtractedIsSequencerId ==
  pc = "done" => p2pID = SequencerId

(* Once the whole address message is captured, with time left before the  *)
(* deadline, the ID is found: on stdout or on stderr.                     *)
FoundOnceLogged ==
  (toLog = << >> /\ pc = "poll" /\ ticks < MaxTicks) ~> (pc = "done")

=============================================================================
