-------------------------------- MODULE Brain --------------------------------
(***************************************************************************)
(* POST /aegis/analyze (brain_router.py) on the history of one account     *)
(* (indicator_history_service.py).  Every call stores its frame under the  *)
(* capture time the phone sent, trims, renews the TTL, reads the history   *)
(* back and judges it: five commands that interleave with those of other   *)
(* calls.                                                                  *)
(*                                                                         *)
(* A screenshot is named by the time it was really taken (shot); Chart     *)
(* says what is found in it.  The server cannot see shot: it sorts by at.  *)
(***************************************************************************)
EXTENDS SignalRules

CONSTANTS
  Calls,      \* calls of the server that can be in progress at once
  Senders,    \* who waits for an answer
  Times,      \* capture times
  Chart,      \* Chart[s]: what is found in the screenshot taken at s
  MaxFrames   \* max_frames_kept

ASSUME BrainAssumption ==
  Times \subseteq Nat /\ MaxFrames \in Nat \ {0} /\ Chart \in [Times -> Frame]

VARIABLES
  hist,       \* the sorted set of the account, by rank
  call,       \* call[c]: a call in progress
  newest,     \* history: the MaxFrames newest capture times stored since the key last vanished
  stored      \* history: every capture time ever stored

brainVars == <<hist, call, newest, stored>>

Entry == [at : Times, shot : Times]
NoCall == [pc |-> "idle", from |-> None, at |-> None, shot |-> None,
           verdict |-> None, clean |-> FALSE]

BrainInit ==
  /\ hist = << >> /\ newest = << >> /\ stored = {}
  /\ call = [c \in Calls |-> NoCall]

-----------------------------------------------------------------------------
(* Redis: a sorted set, its ties in the order of the members' text         *)

\* Mutant of Placed: the history as a list, in the order of arrival.
PlacedLast(s, e) == {Append(s, e)}

\* ZADD.
Placed(s, e) ==
  { SubSeq(s, 1, k) \o <<e>> \o SubSeq(s, k + 1, Len(s)) :
      k \in { n \in 0 .. Len(s) : /\ \A i \in 1 .. n : s[i].at <= e.at
                                  /\ \A i \in n + 1 .. Len(s) : s[i].at >= e.at } }

\* Mutant of Trimmed: the range ends one rank too late.
TrimmedShort(s) == Latest(MaxFrames - 1, s)

\* ZREMRANGEBYRANK key 0 -(max_frames + 1).
Trimmed(s) == Latest(MaxFrames, s)

\* The times s, in order, with t after its equals.
PlacedTime(s, t) ==
  [i \in 1 .. Len(s) + 1 |->
     IF i <= Len(s) /\ s[i] <= t THEN s[i]
     ELSE IF i = 1 \/ s[i - 1] <= t THEN t
     ELSE s[i - 1]]

-----------------------------------------------------------------------------
(* The steps of a call                                                     *)

Flying(c) == call[c].pc # "idle"

\* A call is clean while no other one overlaps it, its frame is the newest
\* and the key does not vanish.
Arrives(c, s, at, shot) ==
  /\ ~Flying(c)
  /\ call' = [d \in Calls |->
                IF d = c
                THEN [NoCall EXCEPT !.pc = "arrived", !.from = s, !.at = at, !.shot = shot,
                        !.clean = /\ \A o \in Calls : ~Flying(o)
                                  /\ \A i \in DOMAIN newest : newest[i] < at]
                ELSE [call[d] EXCEPT !.clean = FALSE]]
  /\ UNCHANGED <<hist, newest, stored>>

\* append_frame: ZADD, then ZREMRANGEBYRANK.  (EXPIRE renews a TTL the model
\* has no clock for: KeyExpires may come at any time.)
Stores(c) ==
  /\ call[c].pc = "arrived"
  /\ LET e == [at |-> call[c].at, shot |-> call[c].shot] IN hist' \in Placed(hist, e)
  /\ newest' = Latest(MaxFrames, PlacedTime(newest, call[c].at))
  /\ stored' = stored \cup {call[c].at}
  /\ call' = [call EXCEPT ![c].pc = "stored"]

Trims(c) ==
  /\ call[c].pc = "stored"
  /\ hist' = Trimmed(hist)
  /\ call' = [call EXCEPT ![c].pc = "trimmed"]
  /\ UNCHANGED <<newest, stored>>

Verdict == Evaluate([i \in DOMAIN hist |-> Chart[hist[i].shot]])

\* get_history and evaluate.
Judges(c) ==
  /\ call[c].pc = "trimmed" /\ Verdict # "raises"
  /\ call' = [call EXCEPT ![c] = [@ EXCEPT !.pc = "judged", !.verdict = Verdict]]
  /\ UNCHANGED <<hist, newest, stored>>

\* 200: the row of signal_history is committed, the verdict returned.
Answers(c) ==
  /\ call[c].pc = "judged"
  /\ call' = [call EXCEPT ![c] = NoCall]
  /\ UNCHANGED <<hist, newest, stored>>

\* 400, 413 or 429 before anything is stored, 500 when a command or a rule
\* raises, or the process dies: what is done stays done.
Breaks(c) ==
  /\ Flying(c)
  /\ call' = [call EXCEPT ![c] = NoCall]
  /\ UNCHANGED <<hist, newest, stored>>

\* The sender no longer waits for the answer; the call goes on.
Abandons(c) ==
  /\ Flying(c)
  /\ call' = [call EXCEPT ![c].from = None]
  /\ UNCHANGED <<hist, newest, stored>>

\* ttl_seconds after the last EXPIRE.
KeyExpires ==
  /\ hist # << >>
  /\ hist' = << >> /\ newest' = << >>
  /\ call' = [c \in Calls |-> [call[c] EXCEPT !.clean = FALSE]]
  /\ UNCHANGED stored

-----------------------------------------------------------------------------
(* Properties                                                              *)

Signals == {"SELL", "BUY", "HOLD"}

\* Every variable of the server keeps its shape.
BrainTypeOK ==
  /\ hist \in Seq(Entry) /\ newest \in Seq(Times) /\ stored \subseteq Times
  /\ call \in [Calls -> [pc : {"idle", "arrived", "stored", "trimmed", "judged"},
                         from : Senders \cup {None}, at : Times \cup {None},
                         shot : Times \cup {None}, verdict : Signals \cup {None},
                         clean : BOOLEAN]]

\* indicator_history_service.py 20-26: whatever the order frames are sent and
\* stored in, the newest of the history are the newest by capture time of all
\* that were stored, and they come back in that order: no late frame, retry,
\* overlapping trim or broken call ever costs a newer frame its place.
HistoryIsLatest ==
  LET kept == Latest(MaxFrames, hist) IN [i \in DOMAIN kept |-> kept[i].at] = newest

\* brain_cv_service.py 209: what evaluate is about to read, for a frame that is
\* the newest and whose call no other overlaps, is this frame (current frame
\* last) after the capture before it.
InOrderIsJudged ==
  \A c \in Calls : call[c].pc = "trimmed" /\ call[c].clean =>
    LET seen == Latest(2, hist) IN
      /\ [i \in DOMAIN seen |-> seen[i].at] = Latest(2, newest)
      /\ seen[Len(seen)] = [at |-> call[c].at, shot |-> call[c].shot]

\* indicator_history_service.py 64: a frame is stored under the time its own
\* screenshot was taken at.
ShotUnderItsTime == \A i \in DOMAIN hist : hist[i].shot = hist[i].at
=============================================================================
