------------------------------- MODULE Capture -------------------------------
(***************************************************************************)
(* The phone's capture service (ScreenCaptureService.kt) and its offline   *)
(* cache (ScreenshotCacheManager.kt), sending to the server of module      *)
(* Brain.  Every capture runs in a coroutine of its own, and all of them   *)
(* write their screenshot to one file, live_capture_tmp.jpg, before they   *)
(* send that file.                                                         *)
(***************************************************************************)
EXTENDS Brain, FiniteSets

CONSTANTS
  Drains,       \* drainCache coroutines that can run at once
  MaxCached,    \* MAX_CACHED_FILES
  MaxDrained    \* MAX_DRAIN_PER_CYCLE

ASSUME CaptureAssumption ==
  /\ MaxCached \in Nat \ {0} /\ MaxDrained \in Nat \ {0}
  /\ Senders = Times \cup Drains /\ None \notin Senders /\ Times \cap Drains = {}

VARIABLES
  tmp,        \* the screenshot in live_capture_tmp.jpg, or None: no such file
  cache,      \* the cached files, by capture time
  sender,     \* sender[s]: the coroutine of capture s, or a drain
  dropped,    \* history: the files a full cache dropped
  cut         \* history: the captures cut off, or whose file could not be cached

phoneVars == <<tmp, cache, sender, dropped, cut>>
vars == <<brainVars, phoneVars>>

Asleep == [pc |-> "none", at |-> None, try |-> 0, rest |-> << >>]
Gone == [Asleep EXCEPT !.pc = "gone"]

Init ==
  /\ BrainInit
  /\ tmp = None /\ cache = {} /\ dropped = {} /\ cut = {}
  /\ sender = [s \in Senders |-> Asleep]

-----------------------------------------------------------------------------
(* trySend: two attempts                                                   *)

Live(s) == s \in Times

\* A coroutine that begins to send the file of capture t, with the rest of a batch.
Sending(t, rest) == [pc |-> "send", at |-> t, try |-> 1, rest |-> rest]

\* What is in the file it sends.
Content(s) ==
  IF Live(s) THEN tmp ELSE IF sender[s].at \in cache THEN sender[s].at ELSE None

\* Mutant of Missed: one failure counts as sent.
MissedIsSent(r) == [r EXCEPT !.pc = "sent"]

\* Mutant of Missed: the attempts are not counted out.
MissedForever(r) == [r EXCEPT !.pc = "send", !.try = @ + 1]

\* An attempt has failed: the first is repeated, the second reported.
Missed(r) == IF r.try = 1 THEN [r EXCEPT !.pc = "send", !.try = 2]
                          ELSE [r EXCEPT !.pc = "unsent"]

\* No file, no network.
SendFails(s) ==
  /\ sender[s].pc = "send"
  /\ sender' = [sender EXCEPT ![s] = Missed(@)]
  /\ UNCHANGED <<brainVars, tmp, cache, dropped, cut>>

SendReaches(s) ==
  /\ sender[s].pc = "send" /\ Content(s) # None
  /\ \E c \in Calls : Arrives(c, s, sender[s].at, Content(s))
  /\ sender' = [sender EXCEPT ![s].pc = "wait"]
  /\ UNCHANGED <<tmp, cache, dropped, cut>>

\* What the sender of call c makes of its end; one that has given up hears nothing.
Hears(c, ok) ==
  LET s == call[c].from IN
    /\ sender' = IF s = None THEN sender
                 ELSE [sender EXCEPT ![s] = IF ok THEN [@ EXCEPT !.pc = "sent"] ELSE Missed(@)]
    /\ UNCHANGED <<tmp, cache, dropped, cut>>

\* The connection breaks or times out before the answer comes.
GivesUp(s) ==
  /\ sender[s].pc = "wait"
  /\ \E c \in Calls : call[c].from = s /\ Abandons(c)
  /\ sender' = [sender EXCEPT ![s] = Missed(@)]
  /\ UNCHANGED <<tmp, cache, dropped, cut>>

-----------------------------------------------------------------------------
(* captureAndSend                                                          *)

\* A screenshot is taken at t, after all earlier ones, and its coroutine launched.
Captures(t) ==
  /\ sender[t].pc = "none" /\ \A u \in Times : u < t => sender[u].pc # "none"
  /\ sender' = [sender EXCEPT ![t].pc = "new"]
  /\ UNCHANGED <<brainVars, tmp, cache, dropped, cut>>

LiveWrites(t) ==
  /\ sender[t].pc = "new"
  /\ tmp' = t
  /\ sender' = [sender EXCEPT ![t] = Sending(t, << >>)]
  /\ UNCHANGED <<brainVars, cache, dropped, cut>>

LiveSent(t) ==
  /\ sender[t].pc = "sent"
  /\ tmp' = None
  /\ sender' = [sender EXCEPT ![t] = Gone]
  /\ UNCHANGED <<brainVars, cache, dropped, cut>>

\* The oldest n files.
Oldest(n, files) == { t \in files : Cardinality({ u \in files : u < t }) < n }

\* enforceCapBeforeInsert: what has to go for one more file.
OverCap(files) ==
  IF Cardinality(files) < MaxCached THEN {}
  ELSE Oldest(Cardinality(files) - MaxCached + 1, files)

\* cache(): room is made first; two captures may do so before either stores.
LiveMakesRoom(t) ==
  /\ sender[t].pc = "unsent"
  /\ cache' = cache \ OverCap(cache)
  /\ dropped' = dropped \cup OverCap(cache)
  /\ sender' = [sender EXCEPT ![t].pc = "room"]
  /\ UNCHANGED <<brainVars, tmp, cut>>

\* The bitmap, not the temporary file, goes to the cache.
LiveCaches(t) ==
  /\ sender[t].pc = "room"
  /\ cache' = cache \cup {t}
  /\ tmp' = None
  /\ sender' = [sender EXCEPT ![t] = Gone]
  /\ UNCHANGED <<brainVars, dropped, cut>>

\* cache() has caught an exception: the temporary file goes all the same, and what was
\* written of the other, if anything, stays.
LiveCacheFails(t) ==
  /\ sender[t].pc = "room"
  /\ cache' \in {cache, cache \cup {t}}
  /\ tmp' = None
  /\ cut' = cut \cup {t}
  /\ sender' = [sender EXCEPT ![t] = Gone]
  /\ UNCHANGED <<brainVars, dropped>>

\* Of a sender that ends while it waits, the call goes on.
LeavesItsCall(s) ==
  IF sender[s].pc = "wait" THEN \E c \in Calls : call[c].from = s /\ Abandons(c)
                           ELSE UNCHANGED brainVars

\* The temporary file cannot be written, the service is destroyed (scope.cancel) or the
\* process dies: the coroutine ends where it is, and leaves the file it was writing.
LiveCutOff(t) ==
  /\ sender[t].pc \notin {"none", "gone"}
  /\ LeavesItsCall(t)
  /\ tmp' \in IF sender[t].pc = "new" THEN {tmp, t} ELSE {tmp}
  /\ cache' \in IF sender[t].pc = "room" THEN {cache, cache \cup {t}} ELSE {cache}
  /\ cut' = cut \cup {t}
  /\ sender' = [sender EXCEPT ![t] = Gone]
  /\ UNCHANGED dropped

-----------------------------------------------------------------------------
(* drainCache                                                              *)

\* listPendingOldestFirst.
Listed(files) ==
  { list \in [1 .. Cardinality(files) -> files] :
      \A i, j \in DOMAIN list : i < j => list[i] < list[j] }

\* list[2 .. n]
Rest(list, n) == SubSeq(list, 2, IF n < Len(list) THEN n ELSE Len(list))

\* A cycle lists the oldest files; an earlier one may still be sending them.
DrainStarts(d) ==
  /\ sender[d].pc = "none"
  /\ \E pending \in Listed(cache) :
       /\ pending # << >>
       /\ sender' = [sender EXCEPT ![d] = Sending(Head(pending), Rest(pending, MaxDrained))]
  /\ UNCHANGED <<brainVars, tmp, cache, dropped, cut>>

\* A file that was sent is removed, and the next one's turn comes.
DrainSent(d) ==
  /\ sender[d].pc = "sent"
  /\ cache' = cache \ {sender[d].at}
  /\ LET rest == sender[d].rest IN
       sender' = [sender EXCEPT ![d] = IF rest = << >> THEN Asleep
                                       ELSE Sending(Head(rest), Tail(rest))]
  /\ UNCHANGED <<brainVars, tmp, dropped, cut>>

\* The first file that fails ends the cycle.
DrainBreaks(d) ==
  /\ sender[d].pc = "unsent"
  /\ sender' = [sender EXCEPT ![d] = Asleep]
  /\ UNCHANGED <<brainVars, tmp, cache, dropped, cut>>

\* The service is destroyed or the process dies.
DrainCutOff(d) ==
  /\ sender[d].pc # "none"
  /\ LeavesItsCall(d)
  /\ sender' = [sender EXCEPT ![d] = Asleep]
  /\ UNCHANGED <<tmp, cache, dropped, cut>>

-----------------------------------------------------------------------------

Server(c) ==
  \/ (Stores(c) \/ Trims(c) \/ Judges(c)) /\ UNCHANGED phoneVars
  \/ Answers(c) /\ Hears(c, TRUE)
  \/ Breaks(c) /\ Hears(c, FALSE)

Expires == KeyExpires /\ UNCHANGED phoneVars

Next ==
  \/ \E t \in Times : \/ Captures(t) \/ LiveWrites(t) \/ LiveSent(t)
                      \/ LiveMakesRoom(t) \/ LiveCaches(t)
                      \/ LiveCacheFails(t) \/ LiveCutOff(t)
  \/ \E s \in Senders : SendFails(s) \/ SendReaches(s) \/ GivesUp(s)
  \/ \E d \in Drains : DrainStarts(d) \/ DrainSent(d) \/ DrainBreaks(d) \/ DrainCutOff(d)
  \/ \E c \in Calls : Server(c)
  \/ Expires

Spec == Init /\ [][Next]_vars

-----------------------------------------------------------------------------
(* Properties                                                              *)

\* Every variable of the phone keeps its shape, and those of the server theirs.
CaptureTypeOK ==
  /\ BrainTypeOK
  /\ tmp \in Times \cup {None} /\ cache \subseteq Times /\ dropped \subseteq Times /\ cut \subseteq Times
  /\ sender \in [Senders -> [pc : {"none", "new", "send", "wait", "sent", "unsent", "room", "gone"},
                             at : Times \cup {None}, try : 0 .. 2, rest : Seq(Times)]]

\* ScreenCaptureService.kt 337-340, "queue it instead of losing it": until the
\* server has stored a frame under its capture time, the capture is with its
\* coroutine or in the cache, unless the full cache has dropped it, the coroutine
\* was cut off or its file could not be written -- whatever is lost, retried,
\* answered late or drained twice.  (Which screenshot is stored under that time
\* is the matter of ShotUnderItsTime.)
NoCaptureLost ==
  \A t \in Times : sender[t].pc = "gone" => t \in stored \cup cache \cup dropped \cup cut
=============================================================================
