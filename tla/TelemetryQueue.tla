--------------------------- MODULE TelemetryQueue ---------------------------
(***************************************************************************)
(* The durable retransmission buffer between the control loop and the      *)
(* ground link (onboard/src/telemetry_queue.cpp): the frames in memory,    *)
(* the maximal runs of consecutive pending indices that order the replay,  *)
(* the (session, seq) -> index map used by an exact acknowledgement, and   *)
(* pending.queue, which is appended to, compacted, lost to a crash and     *)
(* loaded again.                                                           *)
(*                                                                         *)
(* A frame is its key <<session, seq>> and what is left of its text:       *)
(* within one process every DATA and EVT frame takes a fresh seq, and every*)
(* process has a fresh session, so the key stands for the whole text.  A   *)
(* line that was cut may still parse (ParseLine); then it is a frame with  *)
(* less text, of which a reader may or may not make out the key.  Every    *)
(* line counts for one byte.  The age of a frame is abstracted to the set  *)
(* "expired" of the keys that are past retention.                          *)
(***************************************************************************)
EXTENDS Integers, FiniteSets

CONSTANTS
  MaxBytes,     (* max_bytes_, in lines; 0: no limit                          *)
  MinDead,      (* compact_min_dead_bytes_                                    *)
  MaxLive,      (* compact_max_live_bytes_                                    *)
  CheapLive,    (* compact_cheap_live_bytes_                                  *)
  EventSeqs,    (* the seqs whose frame is an EVT line                        *)
  MaxSeq,       (* bound: frames produced per process                         *)
  MaxSession,   (* bound: the last process is session MaxSession              *)
  MaxFaults     (* bound: disk operations that fail                           *)

ASSUME QueueAssumption ==
  /\ MaxBytes \in Nat /\ MinDead \in Nat /\ MaxLive \in Nat /\ CheapLive \in Nat
  /\ EventSeqs \subseteq Nat
  /\ MaxSeq \in Nat /\ MaxSession \in Nat /\ MaxFaults \in Nat

VARIABLES
  up,           (* a process runs and Initialize has returned                 *)
  session,      (* session_id_: a fresh one for every process                 *)
  seq,          (* the last seq given to a frame by this process              *)
  frames,       (* frames_: index -> frame                                    *)
  next_index,   (* next_index_                                                *)
  runs,         (* runs_ (and runs_by_length_): the pairs <<start, end>>      *)
  by_key,       (* by_key_: key -> index                                      *)
  disk,         (* persistence_enabled_, pending.queue, dead_bytes_           *)
  expired,      (* keys whose frame is older than retention_hours_            *)
  owed          (* history: frames taken, neither acknowledged nor dropped    *)

queue == <<frames, next_index, runs, by_key>>
vars == <<up, session, seq, queue, disk, expired, owed>>

Key == (0 .. MaxSession) \X (1 .. MaxSeq)

(* The text of a frame: whole; cut after its key ("known") or before the end *)
(* of it ("lost").  MadeUp is what two halves of lines may read as together: *)
(* a frame under a key that nobody gave out.  Torn is a line that does not   *)
(* parse: the cut is before the third separator.                             *)
Text == {"whole", "known", "lost"}
MadeUp == <<<<MaxSession + 1, 0>>, "lost">>
Frame == (Key \X Text) \cup {MadeUp}
Torn == <<<<0, 0>>, "torn">>
Line == Frame \cup {Torn}
Whole(k) == <<k, "whole">>
IsEvent(f) == f[1][2] \in EventSeqs

(* What a write that stops in the middle of a frame's line leaves of it, the *)
(* newline missing in any case.                                              *)
Cut(f) == {Torn, f} \cup
          {<<f[1], t>> : t \in IF f[2] = "lost" THEN {"lost"} ELSE {"known", "lost"}}

(* What the next line makes of a last line a that has no newline: b behind   *)
(* less than three separators may be read as b, as nothing or as a made-up   *)
(* frame; behind a text it is more text.                                     *)
Merged(a, b) ==
  IF a = Torn THEN {Torn, MadeUp, b}
  ELSE {<<a[1], t>> : t \in IF a[2] = "whole" THEN {"known"}
                            ELSE IF a[2] = "known" THEN {"known", "lost"} ELSE {"lost"}}

Values(f) == {f[x] : x \in DOMAIN f}
Keys(f) == {f[x][1] : x \in DOMAIN f}
Held(f) == {k \in Key : Whole(k) \in Values(f)}
Without(f, S) == [x \in DOMAIN f \ S |-> f[x]]

(* The j-th smallest element of D, from 0; f with its domain renumbered      *)
(* 0, 1, 2, ... in order: a file rewritten from frames_, a file loaded.      *)
Nth(D, j) == CHOOSE x \in D : Cardinality({y \in D : y < x}) = j
Squeeze_NewestFirst(f) ==      \* mutant: rewritten in the opposite order
  LET n == Cardinality(DOMAIN f)
  IN  [j \in 0 .. n - 1 |-> f[Nth(DOMAIN f, n - 1 - j)]]
Squeeze(f) == [j \in 0 .. Cardinality(DOMAIN f) - 1 |-> f[Nth(DOMAIN f, j)]]

AppendLine(file, line) ==
  [p \in 0 .. Cardinality(DOMAIN file) |->
     IF p \in DOMAIN file THEN file[p] ELSE line]

Empty == [x \in {} |-> Torn]

-----------------------------------------------------------------------------
(* Runs: InsertLocked gives the newest run its new end or starts a run;      *)
(* RemoveLocked, for each index of a set in turn, splits the run that holds  *)
(* it around it.                                                             *)
InsertRun(rs, n) ==
  LET last == {r \in rs : r[2] + 1 = n}
  IN  (rs \ last) \cup
      (IF last = {} THEN {<<n, n>>} ELSE {<<r[1], n>> : r \in last})

Split(r, S) ==
  {q \in (r[1] .. r[2]) \X (r[1] .. r[2]) :
     /\ q[1] <= q[2] /\ q[1] .. q[2] \cap S = {}
     /\ q[1] = r[1] \/ q[1] - 1 \in S
     /\ q[2] = r[2] \/ q[2] + 1 \in S}
RemoveRun(rs, S) == UNION {Split(r, S) : r \in rs}

(* NextReplay: the middle of the longest run, the oldest of them on a tie.   *)
RunLength(r) == r[2] - r[1] + 1
Middle(r) == r[1] + (r[2] - r[1]) \div 2
LongestRun(rs) ==
  CHOOSE r \in rs : \A q \in rs :
    \/ RunLength(q) < RunLength(r)
    \/ RunLength(q) = RunLength(r) /\ r[1] <= q[1]
ReplayIndex == Middle(LongestRun(runs))

PendingEvents == {i \in DOMAIN frames : IsEvent(frames[i])}

-----------------------------------------------------------------------------
(* The file.  Each operator gives the set of values disk may take: a disk    *)
(* operation that fails uses one of the MaxFaults.  Beside the lines it has  *)
(* "open", the last line has no newline, and the history "lost": frames that *)
(* a rewrite which failed unnoticed left out or cut, and what was appended   *)
(* to its last line, until the file is rewritten.                            *)
Fails(d) == d.faults < MaxFaults
Off(d) == [d EXCEPT !.on = FALSE, !.faults = @ + 1]

(* The unchecked close of the temporary file writes the end of what the      *)
(* stream has buffered: lines are missing and the last one may be cut.       *)
Prefix(file, n) == [p \in 0 .. n - 1 |-> file[p]]
Short(file) ==
  {[file |-> Prefix(file, n), open |-> FALSE] : n \in DOMAIN file} \cup
  UNION {{[file |-> AppendLine(Prefix(file, n), line), open |-> TRUE] :
            line \in Cut(file[n])} : n \in DOMAIN file}

(* CompactLocked, and the caller switching persistence off when it fails:    *)
(* the temporary file cannot be written, or neither rename succeeds and the  *)
(* old file is already removed.  A close that fails is not noticed, and the  *)
(* short file takes the place of the old one.                                *)
Rewritten(d, fr) ==
  [d EXCEPT !.file = Squeeze(fr), !.open = FALSE, !.dead = 0, !.lost = {}]
Compact(d, fr) ==
  {Rewritten(d, fr)} \cup
  (IF ~Fails(d) THEN {}
   ELSE {Off(d), [Off(d) EXCEPT !.file = Empty, !.open = FALSE]} \cup
        {[Rewritten(d, fr) EXCEPT !.file = s.file, !.open = s.open, !.faults = @ + 1,
                                  !.lost = Values(fr) \ Values(s.file)] :
           s \in Short(Squeeze(fr))})

MaybeCompact(d, fr) ==
  LET live == Cardinality(DOMAIN fr)
      worth == \/ live <= CheapLive
               \/ d.dead >= MinDead /\ live <= MaxLive
  IN  IF d.on /\ d.dead # 0 /\ worth THEN Compact(d, fr) ELSE {d}

(* RetryPersistenceLocked: while persistence is off, either the five seconds *)
(* since the last attempt have not passed (or the directory cannot be made), *)
(* or the file is rewritten.                                                 *)
RetryPersistence_NoRewrite(d, fr) ==   \* mutant: what was kept in memory only
  {d, [d EXCEPT !.on = TRUE]}
RetryPersistence(d, fr) ==
  {d} \cup (IF d.on THEN {} ELSE Compact([d EXCEPT !.on = TRUE], fr))

(* AppendToFileLocked writes a line behind the last one, or onto it.         *)
AppendTo(d, line) ==
  LET last == Cardinality(DOMAIN d.file) - 1
      a == d.file[last]
  IN  IF ~d.open THEN {[d EXCEPT !.file = AppendLine(@, line)]}
      ELSE {[d EXCEPT !.file = [@ EXCEPT ![last] = m], !.open = FALSE,
                      !.lost = @ \cup ({a, line} \ {m})] : m \in Merged(a, line)}

(* An append that was cut: the process died in it, or it failed.             *)
AppendCut(d, f) ==
  UNION {{[e EXCEPT !.open = TRUE] : e \in AppendTo(d, line)} : line \in Cut(f)}

(* The tail of Enqueue once persistence is on: AppendToFileLocked, which may *)
(* fail with part of the line written, then MaybeCompactLocked.              *)
AppendFrame(d, f, fr) ==
  IF ~d.on THEN {d}
  ELSE (UNION {MaybeCompact(e, fr) : e \in AppendTo(d, f)}) \cup
       (IF Fails(d) THEN {Off(d)} \cup AppendCut(Off(d), f) ELSE {})

-----------------------------------------------------------------------------
(* PruneLocked: the oldest frames while they are past retention, then the    *)
(* oldest while the live frames exceed MaxBytes.  Both drop a prefix, so     *)
(* what is kept is everything from an index on.                              *)
Kept(fr) ==
  {i \in DOMAIN fr :
     /\ \E j \in DOMAIN fr : j <= i /\ fr[j][1] \notin expired
     /\ MaxBytes # 0 => Cardinality({j \in DOMAIN fr : i <= j}) <= MaxBytes}
IsCut(cut, fr, end) ==
  /\ \A i \in Kept(fr) : cut <= i
  /\ cut \in Kept(fr) \/ (Kept(fr) = {} /\ cut = end)

(* RemoveLocked on a set of indices, the file apart: the key map keeps a key *)
(* that now points at another index.                                         *)
Unindex_Keeps(bk, S) == bk             \* mutant: the key stays in the map
Unindex_OneMore(bk, S) ==              \* mutant: off by one
  [k \in {q \in DOMAIN bk : bk[q] \notin S /\ bk[q] - 1 \notin S} |-> bk[k]]
Unindex(bk, S) == [k \in {q \in DOMAIN bk : bk[q] \notin S} |-> bk[k]]
Remove(fr, bk, rs, S) ==
  /\ frames' = Without(fr, S)
  /\ by_key' = Unindex(bk, S)
  /\ runs' = RemoveRun(rs, S)
Discharged(fr, S) == {k \in Key : \E i \in DOMAIN fr \cap S : fr[i] = Whole(k)}
Bury(fr, S) == [disk EXCEPT !.dead = @ + Cardinality(DOMAIN fr \cap S)]

Enqueue ==
  LET k == <<session, seq + 1>>
      grown == [i \in DOMAIN frames \cup {next_index} |->
                  IF i = next_index THEN Whole(k) ELSE frames[i]]
      keyed == [q \in DOMAIN by_key \cup {k} |->
                  IF q = k THEN next_index ELSE by_key[q]]
  IN  /\ up
      /\ seq < MaxSeq
      /\ seq' = seq + 1
      /\ next_index' = next_index + 1
      /\ \E cut \in 0 .. next_index + 1 :
           /\ IsCut(cut, grown, next_index + 1)
           /\ Remove(grown, keyed, InsertRun(runs, next_index), 0 .. cut - 1)
           /\ \E d \in RetryPersistence(Bury(grown, 0 .. cut - 1), frames') :
                disk' \in AppendFrame(d, Whole(k), frames')
           /\ owed' = (owed \cup {k}) \ Discharged(grown, 0 .. cut - 1)
      /\ UNCHANGED <<up, session, expired>>

(* The tail shared by both acknowledgements: RetryPersistenceLocked, then    *)
(* MaybeCompactLocked.                                                       *)
Settle(d, fr) == UNION {MaybeCompact(d1, fr) : d1 \in RetryPersistence(d, fr)}

RemoveAcked(S) ==
  /\ Remove(frames, by_key, runs, S)
  /\ disk' \in Settle(Bury(frames, S), frames')
  /\ UNCHANGED next_index

(* AcknowledgeExact of a frame that was pending when it was sent: the frame  *)
(* its key maps to, if the map still has the key and the text is the same.   *)
Acked(f) == {i \in DOMAIN frames : f[1] \in DOMAIN by_key /\ i = by_key[f[1]] /\ frames[i] = f}
AcknowledgeExact(f) ==
  /\ up
  /\ f \in Values(frames)
  /\ owed' = owed \ {k \in Key : f = Whole(k)}
  /\ \/ Acked(f) # {} /\ RemoveAcked(Acked(f))
     \/ Acked(f) = {} /\ UNCHANGED <<queue, disk>>
  /\ UNCHANGED <<up, session, seq, expired>>

(* Acknowledge, the cumulative form: every pending frame of the session up   *)
(* to that seq.                                                              *)
Acknowledge(s, n) ==
  LET acked == {i \in DOMAIN frames : frames[i][1][1] = s /\ frames[i][1][2] <= n}
  IN  /\ up
      /\ acked # {}
      /\ RemoveAcked(acked)
      /\ owed' = owed \ Discharged(frames, acked)
      /\ UNCHANGED <<up, session, seq, expired>>

-----------------------------------------------------------------------------
(* A frame gets older than retention_hours_.                                 *)
Expire(k) ==
  /\ k \in owed \ expired
  /\ expired' = expired \cup {k}
  /\ UNCHANGED <<up, session, seq, queue, disk, owed>>

(* The process dies (watchdog abort, kill).  Its memory is gone; inside an   *)
(* append the line of the new frame may be whole or torn on the disk.  The   *)
(* next process has its own session.                                         *)
Crash ==
  /\ session < MaxSession
  /\ session' = session + 1
  /\ seq' = 0
  /\ up' = FALSE
  /\ frames' = Empty
  /\ next_index' = 0
  /\ runs' = {}
  /\ by_key' = Empty
  /\ LET f == Whole(<<session, seq + 1>>)
         dying == {disk} \cup
                  (IF up /\ disk.on /\ seq < MaxSeq
                   THEN AppendTo(disk, f) \cup AppendCut(disk, f) ELSE {})
     IN  \E d \in dying : disk' = [d EXCEPT !.on = TRUE, !.dead = 0]
  /\ UNCHANGED <<expired, owed>>

(* Initialize: the lines that parse and are within retention, renumbered;    *)
(* the key map keeps the last line of a key; one compaction.                 *)
Initialize ==
  LET good == {p \in DOMAIN disk.file :
                 disk.file[p] # Torn /\ disk.file[p][1] \notin expired}
      load == Squeeze([p \in good |-> disk.file[p]])
      n == Cardinality(good)
  IN  /\ ~up
      /\ up' = TRUE
      /\ frames' = load
      /\ next_index' = n
      /\ runs' = IF n = 0 THEN {} ELSE {<<0, n - 1>>}
      /\ by_key' = [k \in Keys(load) |->
                      CHOOSE i \in DOMAIN load :
                        /\ load[i][1] = k
                        /\ \A j \in DOMAIN load : load[j][1] = k => j <= i]
      /\ disk' \in Compact(disk, load)
      /\ owed' = owed \ (Keys(disk.file) \cap expired)
      /\ UNCHANGED <<session, seq, expired>>

(* Initialize when the queue directory or the file cannot be created: the    *)
(* queue starts empty, in memory only.                                       *)
InitializeInMemory ==
  /\ ~up
  /\ Fails(disk)
  /\ up' = TRUE
  /\ disk' = Off(disk)
  /\ UNCHANGED <<session, seq, queue, expired, owed>>

Init ==
  /\ up = FALSE
  /\ session = 0
  /\ seq = 0
  /\ frames = Empty
  /\ next_index = 0
  /\ runs = {}
  /\ by_key = Empty
  /\ disk = [on |-> TRUE, file |-> Empty, open |-> FALSE, dead |-> 0, faults |-> 0,
             lost |-> {}]
  /\ expired = {}
  /\ owed = {}

Next ==
  \/ Enqueue
  \/ \E f \in Frame : AcknowledgeExact(f)
  \/ \E s \in 0 .. MaxSession, n \in 1 .. MaxSeq : Acknowledge(s, n)
  \/ \E k \in Key : Expire(k)
  \/ Crash
  \/ Initialize
  \/ InitializeInMemory

Spec == Init /\ [][Next]_vars

-----------------------------------------------------------------------------
TypeOK ==
  /\ up \in BOOLEAN
  /\ session \in 0 .. MaxSession
  /\ seq \in 0 .. MaxSeq
  /\ next_index \in Nat
  /\ DOMAIN frames \subseteq 0 .. next_index - 1
  /\ \A i \in DOMAIN frames : frames[i] \in Frame
  /\ runs \subseteq (0 .. next_index - 1) \X (0 .. next_index - 1)
  /\ DOMAIN by_key \subseteq Key \cup {MadeUp[1]}
  /\ \A k \in DOMAIN by_key : by_key[k] \in Nat
  /\ disk.on \in BOOLEAN /\ disk.open \in BOOLEAN
  /\ disk.dead \in Nat /\ disk.faults \in 0 .. MaxFaults
  /\ IsFiniteSet(DOMAIN disk.file)
  /\ disk.file \in [0 .. Cardinality(DOMAIN disk.file) - 1 -> Line]
  /\ disk.lost \subseteq Line
  /\ expired \subseteq Key
  /\ owed \subseteq Key

(* The runs are the maximal runs of consecutive pending indices, whatever    *)
(* order the acknowledgements, prunings and restarts came in: each pending   *)
(* index is in one, they hold nothing else, and two of them never touch.     *)
RunsExact ==
  /\ \A r \in runs : r[1] <= r[2] /\ r[1] .. r[2] \subseteq DOMAIN frames
  /\ \A i \in DOMAIN frames : \E r \in runs : i \in r[1] .. r[2]
  /\ \A r, q \in runs : r # q => r[2] + 1 < q[1] \/ q[2] + 1 < r[1]

(* The key map points at a pending frame with that key.                      *)
KeysPoint ==
  \A k \in DOMAIN by_key : by_key[k] \in DOMAIN frames /\ frames[by_key[k]][1] = k

(* The representation invariant of the class: well typed, the tree of runs   *)
(* and the key map in step with the frames (telemetry_queue.hpp keeps the    *)
(* three beside each other and updates them by hand).                        *)
Representation == TypeOK /\ RunsExact /\ KeysPoint

(* Frames are kept in the order they were produced, across restarts too:     *)
(* pruning really drops the oldest, replay really starts with the oldest.    *)
Older(f, g) == f[1][1] < g[1][1] \/ (f[1][1] = g[1][1] /\ f[1][2] <= g[1][2])
ProductionOrder ==
  \A i, j \in DOMAIN frames :
    i <= j => Older(frames[i], frames[j]) \/ MadeUp \in {frames[i], frames[j]}

(* While persistence is on, a kill at any moment loses no pending frame: the *)
(* appends and rewrites leave each of them on the disk.                      *)
DiskCoversMemory == up /\ disk.on => Values(frames) \subseteq Values(disk.file)

(* ... but for those a rewrite that ran out of disk at its close lost:       *)
(* CompactLocked reports such a file as good.  It lost no others, and they   *)
(* are missing no longer than until the next whole rewrite.                  *)
DiskCovers == up /\ disk.on => Values(frames) \subseteq Values(disk.file) \cup disk.lost

(* The healthy steady state leaves nothing acknowledged on disk              *)
(* (telemetry_queue.hpp, "Whenever the live set is small enough ...").       *)
SteadyDiskClean ==
  up /\ disk.on /\ Cardinality(DOMAIN frames) <= CheapLive =>
    Keys(disk.file) \subseteq Keys(frames) \cup {Torn[1], MadeUp[1]}

(* Memory and file agree in both directions, whichever steps of appends and  *)
(* compactions failed and whether that was noticed or not                    *)
(* (AppendToFileLocked, CompactLocked).                                      *)
FileAgrees == DiskCovers /\ SteadyDiskClean

(* Without a disk fault every frame taken and neither acknowledged nor       *)
(* dropped is pending, or on the disk for the next process to load; no two   *)
(* pending frames are the same, and each can be acknowledged.                *)
Durable ==
  disk.faults = 0 =>
    /\ owed \subseteq Held(disk.file)
    /\ up => owed \subseteq Held(frames)
    /\ \A i \in DOMAIN frames :
         frames[i][1] \in DOMAIN by_key /\ by_key[frames[i][1]] = i

(* An acknowledged frame is no longer pending: telemetry_queue.hpp says that *)
(* each frame is acknowledged exactly.                                       *)
AckRemoves ==
  [][\A f \in Frame : AcknowledgeExact(f) => f \notin Values(frames')]_vars
=============================================================================
