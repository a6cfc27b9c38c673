---------------------------- MODULE ReviewProofs ----------------------------
(***************************************************************************)
(* Proofs about Review: its types, the constraints of merge_candidates,    *)
(* that a merge destroys no note and no star it has read, that the line a  *)
(* sitting alone shows is the pair as it is stored, and that merges and    *)
(* requests never all wait, for any companies, jobs and pairs, and any     *)
(* number of sittings and requests at once.                                *)
(***************************************************************************)
EXTENDS Review, TLAPS

\* What a sitting goes by is about two companies, and no merge has moved a note
\* before it deletes.
SittingOK(r) ==
    /\ \A l \in r.page : l.a # l.b
    /\ r.pc = "shown" => r.line \in Line /\ r.line.a # r.line.b
    /\ r.pc \in {"lock"} \cup Merging =>
        r.keep \in Company /\ r.drop \in Company /\ r.keep # r.drop
    /\ r.pc # "delete" => r.carried = FALSE

Reading == {"readkeep", "wipe", "carry", "delete"}

\* What a merge has read of the two notes still holds of those that no request
\* has saved since.
NotesRead(r) ==
    /\ r.pc \in Reading /\ r.drop \notin r.late => note[r.drop] = r.told
    /\ r.pc \in {"wipe", "carry"} /\ r.keep \notin r.late => note[r.keep] \notin Text
    /\ r.pc = "delete" /\ r.carried = TRUE /\ r.keep \notin r.late => note[r.keep] \notin Text

\* The companies of a merge exist, and no other merge has one of them.
MergeApart(s, r) ==
    r.pc \in Merging =>
        /\ r.keep \in live /\ r.drop \in live
        /\ \A o \in Sitting \ {s} : sit[o].pc \in Merging =>
            {sit[o].keep, sit[o].drop} \cap {r.keep, r.drop} = {}

\* A request is about a company or a job.
RequestsAddressed == \A w \in Request : req[w].pc # "idle" => req[w].on \in Company \cup Job

ReviewInv ==
    /\ TypeOK
    /\ PairsWellFormed
    /\ RequestsAddressed
    /\ \A s \in Sitting : SittingOK(sit[s]) /\ NotesRead(sit[s]) /\ MergeApart(s, sit[s])

-----------------------------------------------------------------------------

LEMMA AwayTyped ==
    /\ Away \in SitType /\ SittingOK(Away) /\ Away.pc = "away"
    /\ Gone \in SitType /\ SittingOK(Gone) /\ Gone.pc = "gone"
    /\ NoRequest \in ReqType
<1>1. Away \in SitType /\ SittingOK(Away) /\ Away.pc = "away"
  BY DEF Away, SitType, SittingOK, Steps, Merging
<1>2. Gone \in SitType /\ SittingOK(Gone) /\ Gone.pc = "gone"
  BY DEF Away, Gone, SitType, SittingOK, Steps, Merging
<1>3. NoRequest \in ReqType
  BY DEF NoRequest, ReqType
<1> QED BY <1>1, <1>2, <1>3

\* A sitting back at its page.
LEMMA AtQueueTyped ==
    ASSUME NEW s \in Sitting, sit[s] \in SitType, SittingOK(sit[s])
    PROVE  /\ AtQueue(s) \in SitType /\ SittingOK(AtQueue(s)) /\ AtQueue(s).pc = "page"
           /\ AtQueue(s).page = sit[s].page /\ AtQueue(s).stale = sit[s].stale
           /\ AtQueue(s).carried = FALSE
<1> DEFINE q == AtQueue(s)
<1>1. /\ q \in SitType /\ q.pc = "page" /\ q.page = sit[s].page /\ q.stale = sit[s].stale
      /\ q.carried = FALSE
  BY DEF AtQueue, Away, SitType, Steps
<1>2. SittingOK(q)
  BY <1>1 DEF SittingOK, Merging
<1> QED BY <1>1, <1>2

\* The step of one sitting that writes nothing.
Turn(s, r) == sit' = [sit EXCEPT ![s] = r] /\ Elsewhere

LEMMA TurnKeeps ==
    ASSUME ReviewInv, NEW s \in Sitting, NEW r, Turn(s, r),
           r \in SitType, SittingOK(r), NotesRead(r), MergeApart(s, r)
    PROVE  ReviewInv'
<1> USE DEF Turn, Elsewhere, stored
<1>1. sit' \in [Sitting -> SitType]
  BY DEF ReviewInv, TypeOK
<1>2. TypeOK'
  BY <1>1 DEF ReviewInv, TypeOK
<1>3. PairsWellFormed' /\ RequestsAddressed'
  BY DEF ReviewInv, PairsWellFormed, RequestsAddressed
<1>4. ASSUME NEW o \in Sitting PROVE sit'[o] = IF o = s THEN r ELSE sit[o]
  BY DEF ReviewInv, TypeOK
<1>5. ASSUME NEW o \in Sitting PROVE SittingOK(sit[o])' /\ NotesRead(sit[o])'
  <2>1. SittingOK(sit'[o])
    BY <1>4 DEF ReviewInv
  <2>2. NotesRead(sit'[o])
    BY <1>4 DEF ReviewInv
  <2>3. NotesRead(sit[o])'
    BY <2>2 DEF NotesRead
  <2>4. SittingOK(sit[o])'
    BY <2>1 DEF SittingOK
  <2> QED BY <2>3, <2>4
<1>6. ASSUME NEW o \in Sitting PROVE MergeApart(o, sit[o])'
  <2>1. CASE o = s
    BY <1>4, <2>1 DEF MergeApart
  <2>2. CASE o # s
    <3>1. sit'[o] = sit[o] /\ sit'[s] = r
      BY <1>4, <2>2
    <3>2. MergeApart(o, sit[o])
      BY DEF ReviewInv
    <3> SUFFICES ASSUME sit[o].pc \in Merging, NEW p \in Sitting \ {o}, sit'[p].pc \in Merging
                 PROVE  {sit'[p].keep, sit'[p].drop} \cap {sit[o].keep, sit[o].drop} = {}
      BY <3>1, <3>2 DEF MergeApart
    <3>3. CASE p = s
      BY <3>1, <3>3, <2>2 DEF MergeApart
    <3>4. CASE p # s
      BY <3>2, <3>4, <1>4 DEF MergeApart
    <3> QED BY <3>3, <3>4
  <2> QED BY <2>1, <2>2
<1> QED BY <1>2, <1>3, <1>5, <1>6 DEF ReviewInv

\* The step of a sitting that is not in a merge afterwards.
LEMMA TurnOutside ==
    ASSUME ReviewInv, NEW s \in Sitting, NEW r, Turn(s, r),
           r \in SitType, SittingOK(r), r.pc \notin Merging
    PROVE  ReviewInv'
<1>1. NotesRead(r) /\ MergeApart(s, r)
  BY DEF NotesRead, MergeApart, Merging, Reading
<1> QED BY <1>1, TurnKeeps

-----------------------------------------------------------------------------
(* The queue *)

LEMMA QueueKeeps ==
    ASSUME ReviewInv, NEW s \in Sitting, Open(s) \/ Offer(s) \/ Leave(s) \/ Skip(s) \/ Duplicate(s)
    PROVE  ReviewInv'
<1>1. sit[s] \in SitType /\ SittingOK(sit[s])
  BY DEF ReviewInv, TypeOK
<1>2. CASE Open(s)
  <2> DEFINE lines == {LineOf(i) : i \in {k \in PairId : pair[k] # Null /\ pair[k].open}}
             r == [sit[s] EXCEPT !.pc = "page", !.page = lines]
  <2>1. ASSUME NEW i \in PairId, pair[i] # Null
        PROVE  LineOf(i) \in Line /\ LineOf(i).a # LineOf(i).b
    <3>1. pair[i] \in [a: Company, b: Company, open: BOOLEAN]
      BY <2>1 DEF ReviewInv, TypeOK
    <3>2. pair[i].a < pair[i].b
      BY <2>1 DEF ReviewInv, PairsWellFormed
    <3>3. pair[i].a \in Nat /\ pair[i].b \in Nat
      BY <3>1, ReviewAssumption
    <3>4. pair[i].a # pair[i].b
      BY <3>2, <3>3
    <3> QED BY <3>1, <3>4 DEF LineOf, Line, JobsOf
  <2>2. lines \in SUBSET Line /\ \A l \in lines : l.a # l.b
    BY <2>1
  <2> HIDE DEF lines
  <2>3. r \in SitType /\ r.pc = "page" /\ r.page = lines /\ r.carried = sit[s].carried
    BY <1>1, <2>2 DEF SitType, Steps
  <2>4. SittingOK(r)
    BY <1>1, <1>2, <2>2, <2>3 DEF SittingOK, Open, Merging
  <2>5. Turn(s, r)
    BY <1>2 DEF Open, Turn, lines
  <2> HIDE DEF r
  <2> QED BY <2>3, <2>4, <2>5, TurnOutside DEF Merging
<1>3. CASE Offer(s)
  <2>1. PICK l \in sit[s].page :
          LET current == CandidateIsOpen(l) /\ {l.a, l.b} \cap sit[s].stale = {} IN
          sit' = [sit EXCEPT ![s].page = @ \ {l},
                             ![s].line = IF current THEN l ELSE @,
                             ![s].pc = IF current THEN "shown" ELSE @]
    BY <1>3 DEF Offer
  <2> DEFINE current == CandidateIsOpen(l) /\ {l.a, l.b} \cap sit[s].stale = {}
             r == [sit[s] EXCEPT !.page = @ \ {l}, !.line = IF current THEN l ELSE @,
                                 !.pc = IF current THEN "shown" ELSE @]
  <2>2. l \in Line /\ l.a # l.b /\ sit[s].pc = "page"
    BY <1>1, <1>3 DEF SitType, SittingOK, Offer
  <2>3. Turn(s, r)
    BY <1>3, <2>1 DEF Offer, Turn
  <2> HIDE DEF current
  <2>4. /\ r \in SitType /\ r.page = sit[s].page \ {l} /\ r.pc \in {"page", "shown"}
        /\ r.pc = "shown" => r.line = l
        /\ r.carried = sit[s].carried
    BY <1>1, <2>2 DEF SitType, Steps
  <2>5. SittingOK(r)
    BY <1>1, <2>2, <2>4 DEF SittingOK, Merging
  <2> HIDE DEF r
  <2> QED BY <2>3, <2>4, <2>5, TurnOutside DEF Merging
<1>4. CASE Leave(s)
  BY <1>4, AwayTyped, TurnOutside DEF Leave, Turn, Merging
<1>5. CASE Skip(s)
  BY <1>1, <1>5, AtQueueTyped, TurnOutside DEF Skip, Turn, Merging
<1>6. CASE Duplicate(s)
  <2> DEFINE l == sit[s].line
  <2>1. PICK keep \in {l.a, l.b} :
          sit' = [sit EXCEPT ![s] = [AtQueue(s) EXCEPT !.pc = "lock", !.keep = keep,
                                        !.drop = IF keep = l.a THEN l.b ELSE l.a]]
    BY <1>6 DEF Duplicate
  <2>2. l \in Line /\ l.a # l.b /\ Elsewhere
    BY <1>1, <1>6 DEF SittingOK, Duplicate
  <2> DEFINE drop == IF keep = l.a THEN l.b ELSE l.a
             r == [AtQueue(s) EXCEPT !.pc = "lock", !.keep = keep, !.drop = drop]
  <2>3. keep \in Company /\ drop \in Company /\ keep # drop
    BY <2>2 DEF Line
  <2>4. Turn(s, r)
    BY <2>1, <2>2 DEF Turn
  <2> HIDE DEF drop
  <2>5. /\ r \in SitType /\ r.pc = "lock" /\ r.keep = keep /\ r.drop = drop
        /\ r.page = sit[s].page /\ r.carried = FALSE
    BY <1>1, <2>3, AtQueueTyped DEF SitType, Steps
  <2>6. SittingOK(r)
    BY <1>1, <2>3, <2>5 DEF SittingOK, Merging
  <2> HIDE DEF r
  <2> QED BY <2>4, <2>5, <2>6, TurnOutside DEF Merging
<1> QED BY <1>2, <1>3, <1>4, <1>5, <1>6

-----------------------------------------------------------------------------
(* A merge *)

LEMMA AbortKeeps ==
    ASSUME ReviewInv, NEW s \in Sitting,
           \/ NoSuchCompany(s) \/ RescueCollides(s) \/ MergeIsVictim(s) \/ Report(s) \/ Kill(s)
    PROVE  ReviewInv'
<1>1. sit[s] \in SitType /\ SittingOK(sit[s])
  BY DEF ReviewInv, TypeOK
<1>2. CASE Kill(s)
  BY <1>2, AwayTyped, TurnOutside DEF Kill, Turn, Merging
<1>3. CASE NoSuchCompany(s) \/ RescueCollides(s) \/ MergeIsVictim(s) \/ Report(s)
  <2>1. Turn(s, AtQueue(s))
    BY <1>3 DEF NoSuchCompany, RescueCollides, MergeIsVictim, Report, Turn
  <2> QED BY <1>1, <2>1, AtQueueTyped, TurnOutside DEF Merging
<1> QED BY <1>2, <1>3

\* A step from one statement of a merge to the next.
LEMMA StatementKeeps ==
    ASSUME ReviewInv, NEW s \in Sitting, NEW r, Turn(s, r), r \in SitType,
           sit[s].pc \in Merging, r.pc \in Merging, r.page = sit[s].page,
           r.keep = sit[s].keep, r.drop = sit[s].drop,
           r.pc # "delete" => r.carried = FALSE,
           NotesRead(r)
    PROVE  ReviewInv'
<1>1. SittingOK(sit[s]) /\ MergeApart(s, sit[s])
  BY DEF ReviewInv
<1>2. SittingOK(r)
  BY <1>1 DEF SittingOK, Merging
<1>3. MergeApart(s, r)
  BY <1>1 DEF MergeApart
<1> QED BY <1>2, <1>3, TurnKeeps

LEMMA LockKeeps ==
    ASSUME ReviewInv, NEW s \in Sitting, Lock(s)
    PROVE  ReviewInv'
<1> DEFINE r == [sit[s] EXCEPT !.pc = "rescue"]
<1>1. sit[s] \in SitType /\ SittingOK(sit[s])
  BY DEF ReviewInv, TypeOK
<1>2. Turn(s, r)
  BY DEF Lock, Turn
<1>3. /\ r \in SitType /\ r.pc = "rescue" /\ r.page = sit[s].page
      /\ r.keep = sit[s].keep /\ r.drop = sit[s].drop /\ r.carried = sit[s].carried
  BY <1>1 DEF SitType, Steps, Merging
<1> HIDE DEF r
<1>4. SittingOK(r)
  BY <1>1, <1>3 DEF SittingOK, Lock, Merging
<1>5. NotesRead(r)
  BY <1>3 DEF NotesRead, Reading
<1>6. MergeApart(s, r)
  <2>1. r.keep \in live /\ r.drop \in live
    BY <1>3 DEF Lock
  <2>2. ASSUME NEW o \in Sitting, sit[o].pc \in Merging
        PROVE  {sit[o].keep, sit[o].drop} \cap {r.keep, r.drop} = {}
    BY <1>3, <2>2 DEF Lock, Holds
  <2> QED BY <2>1, <2>2 DEF MergeApart
<1> QED BY <1>2, <1>3, <1>4, <1>5, <1>6, TurnKeeps

LEMMA JobsKeep ==
    ASSUME ReviewInv, NEW s \in Sitting, Rescue(s) \/ MoveJobs(s)
    PROVE  ReviewInv'
<1>1. sit[s] \in SitType /\ SittingOK(sit[s])
  BY DEF ReviewInv, TypeOK
<1>2. CASE Rescue(s)
  <2> DEFINE r == [sit[s] EXCEPT !.pc = "move", !.rescued = Rescuable(s)]
  <2>1. Rescuable(s) \subseteq Job
    BY DEF Rescuable, JobsOf
  <2>2. Turn(s, r) /\ sit[s].pc = "rescue"
    BY <1>2 DEF Rescue, Turn
  <2>3. /\ r \in SitType /\ r.pc = "move" /\ r.page = sit[s].page
        /\ r.keep = sit[s].keep /\ r.drop = sit[s].drop /\ r.carried = sit[s].carried
    BY <1>1, <2>1 DEF SitType, Steps, Merging
  <2> HIDE DEF r
  <2>4. NotesRead(r) /\ r.carried = FALSE
    BY <1>1, <2>2, <2>3 DEF NotesRead, Reading, SittingOK
  <2> QED BY <2>2, <2>3, <2>4, StatementKeeps DEF Merging
<1>3. CASE MoveJobs(s)
  <2> DEFINE free == {j \in JobsOf(sit[s].drop) : Twins(j, sit[s].keep) = {}}
             r == [sit[s] EXCEPT !.pc = "readdrop", !.moved = free]
  <2>1. free \in SUBSET Job
    BY DEF JobsOf
  <2>2. Turn(s, r) /\ sit[s].pc = "move"
    BY <1>3 DEF MoveJobs, Turn
  <2> HIDE DEF free
  <2>3. /\ r \in SitType /\ r.pc = "readdrop" /\ r.page = sit[s].page
        /\ r.keep = sit[s].keep /\ r.drop = sit[s].drop /\ r.carried = sit[s].carried
    BY <1>1, <2>1 DEF SitType, Steps, Merging
  <2> HIDE DEF r
  <2>4. NotesRead(r) /\ r.carried = FALSE
    BY <1>1, <2>2, <2>3 DEF NotesRead, Reading, SittingOK
  <2> QED BY <2>2, <2>3, <2>4, StatementKeeps DEF Merging
<1> QED BY <1>2, <1>3

LEMMA NotesKeep ==
    ASSUME ReviewInv, NEW s \in Sitting,
           ReadDropNote(s) \/ ReadKeepNote(s) \/ WipeNote(s) \/ CarryNote(s)
    PROVE  ReviewInv'
<1>1. /\ sit[s] \in SitType /\ SittingOK(sit[s]) /\ NotesRead(sit[s])
      /\ note \in [Company -> {Null} \cup Note]
  BY DEF ReviewInv, TypeOK
<1>2. CASE ReadDropNote(s)
  <2> DEFINE n == note[sit[s].drop]
             pc == IF n = Null THEN "delete" ELSE "readkeep"
             r == [sit[s] EXCEPT !.pc = pc, !.told = n]
  <2>1. n \in Note \cup {Null}
    BY <1>1, <1>2 DEF SittingOK, ReadDropNote, Merging
  <2>2. Turn(s, r) /\ sit[s].pc = "readdrop"
    BY <1>2 DEF ReadDropNote, Turn
  <2>3. pc \in {"delete", "readkeep"}
    OBVIOUS
  <2> HIDE DEF pc
  <2>4. /\ r \in SitType /\ r.pc = pc /\ r.page = sit[s].page /\ r.told = n
        /\ r.keep = sit[s].keep /\ r.drop = sit[s].drop /\ r.carried = sit[s].carried
    BY <1>1, <2>1, <2>3 DEF SitType, Steps, Merging
  <2> HIDE DEF r
  <2>5. NotesRead(r) /\ r.carried = FALSE
    BY <1>1, <2>2, <2>3, <2>4 DEF NotesRead, Reading, SittingOK
  <2> QED BY <2>2, <2>3, <2>4, <2>5, StatementKeeps DEF Merging
<1>3. CASE ReadKeepNote(s)
  <2> DEFINE pc == IF note[sit[s].keep] \in Text THEN "delete" ELSE "wipe"
             r == [sit[s] EXCEPT !.pc = pc]
  <2>1. Turn(s, r) /\ sit[s].pc = "readkeep"
    BY <1>3 DEF ReadKeepNote, Turn
  <2>2. pc \in {"delete", "wipe"} /\ (pc = "wipe" => note[sit[s].keep] \notin Text)
    OBVIOUS
  <2> HIDE DEF pc
  <2>3. /\ r \in SitType /\ r.pc = pc /\ r.page = sit[s].page /\ r.told = sit[s].told
        /\ r.keep = sit[s].keep /\ r.drop = sit[s].drop /\ r.carried = sit[s].carried
        /\ r.late = sit[s].late
    BY <1>1, <2>2 DEF SitType, Steps, Merging
  <2> HIDE DEF r
  <2>4. NotesRead(r) /\ r.carried = FALSE
    BY <1>1, <2>1, <2>2, <2>3 DEF NotesRead, Reading, SittingOK
  <2> QED BY <2>1, <2>2, <2>3, <2>4, StatementKeeps DEF Merging
<1>4. CASE WipeNote(s)
  <2> DEFINE stub == (note[sit[s].keep] # Null)
             r == [sit[s] EXCEPT !.pc = "carry", !.wiped = stub]
  <2>1. Turn(s, r) /\ sit[s].pc = "wipe"
    BY <1>4 DEF WipeNote, Turn
  <2>2. stub \in BOOLEAN
    OBVIOUS
  <2> HIDE DEF stub
  <2>3. /\ r \in SitType /\ r.pc = "carry" /\ r.page = sit[s].page /\ r.told = sit[s].told
        /\ r.keep = sit[s].keep /\ r.drop = sit[s].drop /\ r.carried = sit[s].carried
        /\ r.late = sit[s].late
    BY <1>1, <2>2 DEF SitType, Steps, Merging
  <2> HIDE DEF r
  <2>4. NotesRead(r) /\ r.carried = FALSE
    BY <1>1, <2>1, <2>3 DEF NotesRead, Reading, SittingOK
  <2> QED BY <2>1, <2>3, <2>4, StatementKeeps DEF Merging
<1>5. CASE CarryNote(s)
  <2> DEFINE r == [sit[s] EXCEPT !.pc = "delete", !.carried = TRUE]
  <2>1. Turn(s, r) /\ sit[s].pc = "carry"
    BY <1>5 DEF CarryNote, Turn
  <2>2. /\ r \in SitType /\ r.pc = "delete" /\ r.page = sit[s].page /\ r.told = sit[s].told
        /\ r.keep = sit[s].keep /\ r.drop = sit[s].drop /\ r.late = sit[s].late
    BY <1>1 DEF SitType, Steps, Merging
  <2> HIDE DEF r
  <2>3. NotesRead(r)
    BY <1>1, <2>1, <2>2 DEF NotesRead, Reading
  <2> QED BY <2>1, <2>2, <2>3, StatementKeeps DEF Merging
<1> QED BY <1>2, <1>3, <1>4, <1>5

-----------------------------------------------------------------------------
(* The steps that write candidates *)

\* The sittings after a step of s that leaves it outside a merge, if the notes
\* and the companies of the other merges stay.
LEMMA OthersKept ==
    ASSUME ReviewInv, NEW s \in Sitting, NEW r, sit' = [sit EXCEPT ![s] = r],
           r \in SitType, SittingOK(r), r.pc \notin Merging,
           \A o \in Sitting \ {s} : sit[o].pc \in Merging =>
                \A c \in {sit[o].keep, sit[o].drop} : note'[c] = note[c] /\ c \in live'
    PROVE  /\ sit' \in [Sitting -> SitType]
           /\ \A o \in Sitting : SittingOK(sit[o])' /\ NotesRead(sit[o])' /\ MergeApart(o, sit[o])'
<1>1. sit \in [Sitting -> SitType]
  BY DEF ReviewInv, TypeOK
<1>2. \A o \in Sitting : sit'[o] = IF o = s THEN r ELSE sit[o]
  BY <1>1
<1>3. sit' \in [Sitting -> SitType]
  BY <1>1
<1>4. ASSUME NEW o \in Sitting
      PROVE  SittingOK(sit[o])' /\ NotesRead(sit[o])' /\ MergeApart(o, sit[o])'
  <2>1. CASE o = s
    <3>1. sit'[o] = r
      BY <1>2, <2>1
    <3>2. SittingOK(sit[o])'
      BY <3>1 DEF SittingOK
    <3>3. NotesRead(sit[o])' /\ MergeApart(o, sit[o])'
      BY <3>1 DEF NotesRead, MergeApart, Merging, Reading
    <3> QED BY <3>2, <3>3
  <2>2. CASE o # s
    <3>1. sit'[o] = sit[o] /\ sit'[s] = r
      BY <1>2, <2>2
    <3>2. SittingOK(sit[o]) /\ NotesRead(sit[o]) /\ MergeApart(o, sit[o])
      BY DEF ReviewInv
    <3>3. SittingOK(sit[o])'
      BY <3>1, <3>2 DEF SittingOK
    <3>4. CASE sit[o].pc \notin Merging
      <4>1. sit'[o].pc \notin Merging
        BY <3>1, <3>4
      <4>2. NotesRead(sit[o])' /\ MergeApart(o, sit[o])'
        BY <4>1 DEF NotesRead, MergeApart, Merging, Reading
      <4> QED BY <3>3, <4>2
    <3>5. CASE sit[o].pc \in Merging
      <4>1. \A c \in {sit[o].keep, sit[o].drop} : note'[c] = note[c] /\ c \in live'
        BY <2>2, <3>5
      <4>2. NotesRead(sit[o])'
        BY <3>1, <3>2, <4>1 DEF NotesRead
      <4>3. MergeApart(o, sit[o])'
        <5> SUFFICES ASSUME NEW p \in Sitting \ {o}, sit'[p].pc \in Merging
                     PROVE  {sit'[p].keep, sit'[p].drop} \cap {sit[o].keep, sit[o].drop} = {}
          BY <3>1, <4>1 DEF MergeApart
        <5>1. p # s /\ sit'[p] = sit[p]
          BY <1>2, <3>1
        <5> QED BY <3>2, <3>5, <5>1 DEF MergeApart
      <4> QED BY <3>3, <4>2, <4>3
    <3> QED BY <3>3, <3>4, <3>5
  <2> QED BY <2>1, <2>2
<1> QED BY <1>3, <1>4

LEMMA VerdictKeeps ==
    ASSUME ReviewInv, NEW s \in Sitting, NotDuplicate(s)
    PROVE  ReviewInv'
<1> DEFINE i == sit[s].line.id
<1>1. sit[s] \in SitType /\ SittingOK(sit[s])
  BY DEF ReviewInv, TypeOK
<1>2. i \in PairId
  BY <1>1 DEF SittingOK, NotDuplicate, Line
<1>3. pair \in [PairId -> {Null} \cup [a: Company, b: Company, open: BOOLEAN]]
  BY DEF ReviewInv, TypeOK
<1>4. pair' = IF pair[i] = Null THEN pair ELSE [pair EXCEPT ![i].open = FALSE]
  BY DEF NotDuplicate
<1>5. UNCHANGED <<live, jobOf, mark, note, req, posts, unused>>
  BY DEF NotDuplicate
<1>6. sit' = [sit EXCEPT ![s] = AtQueue(s)]
  BY DEF NotDuplicate
<1> HIDE DEF i
<1>7. pair' \in [PairId -> {Null} \cup [a: Company, b: Company, open: BOOLEAN]]
  BY <1>2, <1>3, <1>4
<1>8. ASSUME NEW k \in PairId, pair'[k] # Null
      PROVE  pair[k] # Null /\ pair'[k].a = pair[k].a /\ pair'[k].b = pair[k].b
  BY <1>2, <1>3, <1>4, <1>8
<1>9. PairsWellFormed'
  BY <1>5, <1>8 DEF ReviewInv, PairsWellFormed
<1>10. ASSUME NEW o \in Sitting, sit[o].pc \in Merging, NEW c \in {sit[o].keep, sit[o].drop}
       PROVE  note'[c] = note[c] /\ c \in live'
  BY <1>5, <1>10 DEF ReviewInv, MergeApart
<1>11. /\ sit' \in [Sitting -> SitType]
       /\ \A o \in Sitting : SittingOK(sit[o])' /\ NotesRead(sit[o])' /\ MergeApart(o, sit[o])'
  BY <1>1, <1>6, <1>10, AtQueueTyped, OthersKept DEF Merging
<1>12. TypeOK' /\ RequestsAddressed'
  BY <1>5, <1>7, <1>11 DEF ReviewInv, TypeOK, RequestsAddressed
<1> QED BY <1>9, <1>11, <1>12 DEF ReviewInv

Pairs == {Null} \cup [a: Company, b: Company, open: BOOLEAN]

\* Of a company that goes, the candidates that stay are about the survivor.
LEMMA RepointedPairs ==
    ASSUME ReviewInv, NEW keep \in live, NEW drop \in live, keep # drop
    PROVE  LET p == Repointed(keep, drop) IN
           /\ p \in [PairId -> Pairs]
           /\ \A i \in PairId : p[i] # Null =>
                /\ p[i].a < p[i].b
                /\ {p[i].a, p[i].b} \subseteq live \ {drop}
                /\ \A k \in PairId : p[k] # Null /\ p[k].a = p[i].a /\ p[k].b = p[i].b => k = i
<1> DEFINE p == Repointed(keep, drop)
           other(i) == IF pair[i].a = drop THEN pair[i].b ELSE pair[i].a
           about(i) == drop \in {pair[i].a, pair[i].b}
<1>1. /\ pair \in [PairId -> Pairs] /\ live \subseteq Company /\ Company \subseteq Nat
  BY ReviewAssumption DEF ReviewInv, TypeOK, Pairs
<1>2. ASSUME NEW i \in PairId, pair[i] # Null
      PROVE  /\ pair[i] \in [a: Company, b: Company, open: BOOLEAN]
             /\ pair[i].a \in Nat /\ pair[i].b \in Nat /\ pair[i].a < pair[i].b
             /\ pair[i].a \in live /\ pair[i].b \in live
  BY <1>1, <1>2 DEF ReviewInv, PairsWellFormed, Pairs
<1>3. ASSUME NEW i \in PairId, p[i] # Null
      PROVE  /\ pair[i] # Null
             /\ p[i] \in [a: Company, b: Company, open: BOOLEAN]
             /\ ~ about(i) => p[i] = pair[i]
             /\ about(i) =>
                  /\ keep # other(i) /\ other(i) \in live \ {drop}
                  /\ keep < other(i) => p[i].a = keep /\ p[i].b = other(i)
                  /\ ~ keep < other(i) => p[i].a = other(i) /\ p[i].b = keep
                  /\ ~ \E k \in PairId : pair[k] # Null /\ pair[k].a = p[i].a /\ pair[k].b = p[i].b
  <2>1. pair[i] # Null
    BY <1>3 DEF Repointed
  <2>2. CASE ~ about(i)
    BY <1>2, <2>1, <2>2 DEF Repointed
  <2>3. CASE about(i)
    <3> DEFINE q == IF keep < other(i) THEN [pair[i] EXCEPT !.a = keep, !.b = other(i)]
                    ELSE [pair[i] EXCEPT !.a = other(i), !.b = keep]
    <3>1. /\ p[i] = q /\ keep \notin {pair[i].a, pair[i].b}
          /\ ~ \E k \in PairId : pair[k] # Null /\ pair[k].a = q.a /\ pair[k].b = q.b
      BY <1>3, <2>1, <2>3 DEF Repointed
    <3>2. other(i) \in live \ {drop} /\ keep # other(i)
      BY <1>2, <2>1, <2>3, <3>1
    <3>3. /\ q \in [a: Company, b: Company, open: BOOLEAN]
          /\ keep < other(i) => q.a = keep /\ q.b = other(i)
          /\ ~ keep < other(i) => q.a = other(i) /\ q.b = keep
      BY <1>1, <1>2, <2>1, <3>2
    <3> HIDE DEF q, p
    <3> QED BY <2>1, <2>3, <3>1, <3>2, <3>3
  <2> QED BY <2>1, <2>2, <2>3
<1>4. p \in [PairId -> Pairs]
  <2>1. p = [i \in PairId |-> p[i]]
    BY DEF Repointed
  <2>2. \A i \in PairId : p[i] \in Pairs
    BY <1>3 DEF Pairs
  <2> HIDE DEF p
  <2> QED BY <2>1, <2>2
<1> HIDE DEF p
<1>5. ASSUME NEW i \in PairId, p[i] # Null
      PROVE  p[i].a < p[i].b /\ {p[i].a, p[i].b} \subseteq live \ {drop}
  <2>1. CASE ~ about(i)
    BY <1>2, <1>3, <1>5, <2>1
  <2>2. CASE about(i)
    <3>1. other(i) \in Nat /\ keep \in Nat /\ keep # other(i) /\ other(i) \in live \ {drop}
      BY <1>1, <1>3, <1>5, <2>2
    <3> HIDE DEF other
    <3> QED BY <1>3, <1>5, <2>2, <3>1
  <2> QED BY <2>1, <2>2
<1>6. ASSUME NEW i \in PairId, NEW k \in PairId, p[i] # Null, p[k] # Null,
             p[k].a = p[i].a, p[k].b = p[i].b
      PROVE  k = i
  <2>1. pair[i] # Null /\ pair[k] # Null
    BY <1>3, <1>6
  <2>2. pair[i].a = pair[k].a /\ pair[i].b = pair[k].b => k = i
    BY <2>1 DEF ReviewInv, PairsWellFormed
  <2>3. CASE ~ about(i) /\ ~ about(k)
    BY <1>3, <1>6, <2>2, <2>3
  <2>4. CASE about(i) /\ ~ about(k)
    BY <1>3, <1>6, <2>1, <2>4
  <2>5. CASE ~ about(i) /\ about(k)
    BY <1>3, <1>6, <2>1, <2>5
  <2>6. CASE about(i) /\ about(k)
    <3>1. other(i) \in Nat /\ other(k) \in Nat /\ keep \in Nat
      BY <1>1, <1>2, <2>1
    <3>2. other(i) = other(k)
      <4> HIDE DEF other
      <4> QED BY <1>3, <1>6, <2>6, <3>1
    <3>3. pair[i].a = pair[k].a /\ pair[i].b = pair[k].b
      BY <1>2, <2>1, <2>6, <3>2
    <3> QED BY <2>2, <3>3
  <2> QED BY <2>3, <2>4, <2>5, <2>6
<1>7. /\ p \in [PairId -> Pairs]
      /\ \A i \in PairId : p[i] # Null =>
            /\ p[i].a < p[i].b
            /\ {p[i].a, p[i].b} \subseteq live \ {drop}
            /\ \A k \in PairId : p[k] # Null /\ p[k].a = p[i].a /\ p[k].b = p[i].b => k = i
  BY <1>4, <1>5, <1>6
<1> QED BY <1>7 DEF p

LEMMA DeleteKeeps ==
    ASSUME ReviewInv, NEW s \in Sitting, Delete(s)
    PROVE  ReviewInv'
<1> DEFINE keep == sit[s].keep
           drop == sit[s].drop
           moved == sit[s].moved
           told == IF sit[s].carried THEN Null ELSE sit[s].told
           stale == IF moved # {} THEN sit[s].stale \cup {keep} ELSE sit[s].stale
           r == [AtQueue(s) EXCEPT !.pc = "report", !.told = told,
                                   !.stale = IF moved # {} THEN @ \cup {keep} ELSE @]
<1>1. /\ sit[s] \in SitType /\ SittingOK(sit[s]) /\ MergeApart(s, sit[s])
      /\ sit[s].pc = "delete"
  BY DEF ReviewInv, TypeOK, Delete
<1>2. /\ keep \in live /\ drop \in live /\ keep # drop /\ moved \subseteq Job
      /\ keep \in Company /\ drop \in Company
  BY <1>1 DEF SittingOK, MergeApart, Merging, SitType
<1>3. /\ live' = live \ {drop} /\ pair' = Repointed(keep, drop)
      /\ UNCHANGED <<req, posts, unused>>
  BY DEF Delete
<1>4. sit' = [sit EXCEPT ![s] = r]
  BY DEF Delete
<1>5. /\ note \in [Company -> {Null} \cup Note] /\ jobOf \in [Job -> {Null} \cup Company]
      /\ live \subseteq Company /\ \A j \in Job : jobOf[j] \in live \cup {Null}
      /\ mark \in [Job -> {Null, TRUE, FALSE}]
  BY DEF ReviewInv, TypeOK
<1>6. r \in SitType /\ r.pc = "report" /\ r.page = sit[s].page /\ r.carried = FALSE
  <2>1. told \in Note \cup {Null}
    BY <1>1 DEF SitType
  <2>2. AtQueue(s).stale \cup {keep} \in SUBSET Company
    BY <1>1, <1>2, AtQueueTyped DEF SitType
  <2> HIDE DEF told, keep, moved
  <2> QED BY <1>1, <2>1, <2>2, AtQueueTyped DEF SitType, Steps
<1> HIDE DEF r
<1>7. SittingOK(r) /\ r.pc \notin Merging
  BY <1>1, <1>6 DEF SittingOK, Merging
<1>8. note' = [note EXCEPT ![keep] = IF sit[s].carried THEN note[drop] ELSE @, ![drop] = Null]
  BY DEF Delete
<1>9. note' \in [Company -> {Null} \cup Note]
  BY <1>2, <1>5, <1>8
<1>10. ASSUME NEW o \in Sitting \ {s}, sit[o].pc \in Merging,
              NEW c \in {sit[o].keep, sit[o].drop}
       PROVE  note'[c] = note[c] /\ c \in live'
  <2>1. c \notin {keep, drop} /\ c \in live
    <3>1. {sit[o].keep, sit[o].drop} \cap {keep, drop} = {}
      BY <1>1, <1>10 DEF MergeApart, Merging
    <3>2. c \in live
      BY <1>10 DEF ReviewInv, MergeApart
    <3> QED BY <1>10, <3>1, <3>2
  <2> QED BY <1>3, <1>5, <1>8, <2>1
<1>11. /\ sit' \in [Sitting -> SitType]
       /\ \A o \in Sitting : SittingOK(sit[o])' /\ NotesRead(sit[o])' /\ MergeApart(o, sit[o])'
  BY <1>4, <1>6, <1>7, <1>10, OthersKept
<1>12. jobOf' \in [Job -> {Null} \cup Company] /\ \A j \in Job : jobOf'[j] \in live' \cup {Null}
  <2>1. jobOf' = [j \in Job |-> IF j \in moved THEN keep
                                ELSE IF j \in JobsOf(drop) \ moved THEN Null ELSE jobOf[j]]
    BY DEF Delete
  <2> HIDE DEF keep, drop, moved
  <2> QED BY <1>2, <1>3, <1>5, <2>1 DEF JobsOf
<1>13. mark' \in [Job -> {Null, TRUE, FALSE}]
  <2> DEFINE twin(j) == CHOOSE i \in sit[s].rescued : j \in Twins(i, keep)
  <2>1. mark' = [j \in Job |->
            IF j \in JobsOf(drop) \ moved THEN Null
            ELSE IF \E i \in sit[s].rescued : j \in Twins(i, keep) THEN mark[twin(j)]
            ELSE mark[j]]
    BY DEF Delete
  <2>2. ASSUME NEW j \in Job, \E i \in sit[s].rescued : j \in Twins(i, keep)
        PROVE  twin(j) \in Job
    BY <1>1, <2>2 DEF SitType
  <2> HIDE DEF twin, keep, drop, moved
  <2> QED BY <1>5, <2>1, <2>2
<1>14. pair' \in [PairId -> Pairs] /\ PairsWellFormed'
  BY <1>2, <1>3, RepointedPairs DEF PairsWellFormed
<1>15. TypeOK' /\ RequestsAddressed'
  BY <1>3, <1>5, <1>9, <1>11, <1>12, <1>13, <1>14
  DEF ReviewInv, TypeOK, RequestsAddressed, Pairs
<1> QED BY <1>11, <1>14, <1>15 DEF ReviewInv

-----------------------------------------------------------------------------
(* Requests *)

\* The step of a request that is not answered yet.
LEMMA RequestStep ==
    ASSUME ReviewInv, NEW w \in Request, NEW q \in ReqType,
           q.pc # "idle" => q.on \in Company \cup Job,
           req' = [req EXCEPT ![w] = q], posts' \in 0 .. MaxPosts, unused' \subseteq Text,
           UNCHANGED <<stored, sit>>
    PROVE  ReviewInv'
<1>1. TypeOK' /\ PairsWellFormed'
  BY DEF ReviewInv, TypeOK, PairsWellFormed, stored
<1>2. RequestsAddressed'
  BY DEF ReviewInv, RequestsAddressed, TypeOK
<1>3. ASSUME NEW s \in Sitting
      PROVE  SittingOK(sit[s])' /\ NotesRead(sit[s])' /\ MergeApart(s, sit[s])'
  BY DEF ReviewInv, SittingOK, NotesRead, MergeApart, stored
<1> QED BY <1>1, <1>2, <1>3 DEF ReviewInv

LEMMA RequestKeeps ==
    ASSUME ReviewInv, NEW w \in Request,
           Post(w) \/ Write(w) \/ Refer(w) \/ ReferFails(w) \/ RequestIsVictim(w)
    PROVE  ReviewInv'
<1>1. /\ req \in [Request -> ReqType] /\ posts \in 0 .. MaxPosts /\ unused \subseteq Text
      /\ live \subseteq Company /\ req[w] \in ReqType
      /\ req[w].pc # "idle" => req[w].on \in Company \cup Job
  BY DEF ReviewInv, TypeOK, RequestsAddressed
<1>2. CASE Post(w)
  <2>1. posts' \in 0 .. MaxPosts /\ UNCHANGED <<stored, sit>>
    BY <1>1, <1>2, ReviewAssumption DEF Post
  <2>2. CASE \E c \in live, t \in NextText \cup {Blank} :
              /\ req' = [req EXCEPT ![w] = [pc |-> "found", on |-> c, text |-> t]]
              /\ unused' = unused \ {t}
    <3>1. PICK c \in live, t \in NextText \cup {Blank} :
              /\ req' = [req EXCEPT ![w] = [pc |-> "found", on |-> c, text |-> t]]
              /\ unused' = unused \ {t}
      BY <2>2
    <3> DEFINE q == [pc |-> "found", on |-> c, text |-> t]
    <3>2. t \in Note
      BY <1>1 DEF NextText, Note
    <3>3. q \in ReqType /\ q.on \in Company \cup Job
      BY <1>1, <3>2 DEF ReqType
    <3>4. req' = [req EXCEPT ![w] = q] /\ unused' \subseteq Text
      BY <1>1, <3>1
    <3> HIDE DEF q
    <3> QED BY <2>1, <3>3, <3>4, RequestStep
  <2>3. CASE \E j \in Job :
              /\ jobOf[j] # Null
              /\ req' = [req EXCEPT ![w] = [pc |-> "found", on |-> j, text |-> Null]]
              /\ UNCHANGED unused
    <3>1. PICK j \in Job :
              /\ req' = [req EXCEPT ![w] = [pc |-> "found", on |-> j, text |-> Null]]
              /\ UNCHANGED unused
      BY <2>3
    <3> DEFINE q == [pc |-> "found", on |-> j, text |-> Null]
    <3>2. q \in ReqType /\ q.on \in Company \cup Job
      BY DEF ReqType
    <3>3. req' = [req EXCEPT ![w] = q] /\ unused' \subseteq Text
      BY <1>1, <3>1
    <3> HIDE DEF q
    <3> QED BY <2>1, <3>2, <3>3, RequestStep
  <2> QED BY <1>2, <2>2, <2>3 DEF Post
<1>3. CASE Write(w)
  <2> DEFINE pc == IF Row(req[w].on) = Null THEN "inserted" ELSE "written"
             q == [req[w] EXCEPT !.pc = pc]
  <2>1. /\ req' = [req EXCEPT ![w] = q] /\ req[w].pc = "found"
        /\ UNCHANGED <<stored, sit, posts, unused>>
    BY <1>3 DEF Write
  <2>2. pc \in {"inserted", "written"}
    OBVIOUS
  <2> HIDE DEF pc
  <2>3. q \in ReqType /\ q.on = req[w].on
    BY <1>1, <2>2 DEF ReqType
  <2> HIDE DEF q
  <2> QED BY <1>1, <2>1, <2>3, RequestStep
<1>4. CASE Refer(w)
  <2> DEFINE q == [req[w] EXCEPT !.pc = "written"]
  <2>1. /\ req' = [req EXCEPT ![w] = q] /\ req[w].pc = "inserted"
        /\ UNCHANGED <<stored, sit, posts, unused>>
    BY <1>4 DEF Refer
  <2>2. q \in ReqType /\ q.on = req[w].on
    BY <1>1 DEF ReqType
  <2> HIDE DEF q
  <2> QED BY <1>1, <2>1, <2>2, RequestStep
<1>5. CASE ReferFails(w) \/ RequestIsVictim(w)
  <2>1. req' = [req EXCEPT ![w] = NoRequest] /\ UNCHANGED <<stored, sit, posts, unused>>
    BY <1>5 DEF ReferFails, RequestIsVictim
  <2>2. NoRequest.pc = "idle"
    BY DEF NoRequest
  <2> QED BY <1>1, <2>1, <2>2, AwayTyped, RequestStep
<1> QED BY <1>2, <1>3, <1>4, <1>5

\* What is saved under a merge that has read it is remembered in late.
LEMMA AnswerKeeps ==
    ASSUME ReviewInv, NEW w \in Request, Answer(w)
    PROVE  ReviewInv'
<1> DEFINE x == req[w].on
<1>1. /\ req \in [Request -> ReqType] /\ sit \in [Sitting -> SitType] /\ req[w] \in ReqType
      /\ note \in [Company -> {Null} \cup Note] /\ mark \in [Job -> {Null, TRUE, FALSE}]
  BY DEF ReviewInv, TypeOK
<1>2. x \in Company \cup Job /\ Job \cap Company = {}
  BY ReviewAssumption DEF ReviewInv, RequestsAddressed, Answer
<1>3. /\ UNCHANGED <<live, pair, jobOf, posts, unused>>
      /\ req' = [req EXCEPT ![w] = NoRequest]
      /\ sit' = [s \in Sitting |-> IF HasRead(s, x) THEN [sit[s] EXCEPT !.late = @ \cup {x}]
                                 ELSE sit[s]]
  BY DEF Answer
<1>4. /\ x \in Company => note' = [note EXCEPT ![x] = req[w].text] /\ mark' = mark
      /\ x \notin Company => /\ mark' = [mark EXCEPT ![x] = IF @ = Null THEN TRUE ELSE ~ @]
                            /\ note' = note
  BY DEF Answer
<1> HIDE DEF x
<1>5. note' \in [Company -> {Null} \cup Note] /\ mark' \in [Job -> {Null, TRUE, FALSE}]
  <2>1. CASE x \in Company
    BY <1>1, <1>4, <2>1 DEF ReqType
  <2>2. CASE x \notin Company
    <3>1. x \in Job /\ mark[x] \in {Null, TRUE, FALSE}
      BY <1>1, <1>2, <2>2
    <3> DEFINE m == IF mark[x] = Null THEN TRUE ELSE ~ mark[x]
    <3>2. m \in {TRUE, FALSE}
      BY <3>1
    <3>3. mark' = [mark EXCEPT ![x] = m]
      BY <1>4, <2>2
    <3> HIDE DEF m
    <3> QED BY <1>1, <1>4, <2>2, <3>1, <3>2, <3>3
  <2> QED BY <2>1, <2>2
<1>6. ASSUME NEW s \in Sitting
      PROVE  /\ sit'[s] \in SitType
             /\ sit'[s].pc = sit[s].pc /\ sit'[s].page = sit[s].page
             /\ sit'[s].line = sit[s].line /\ sit'[s].told = sit[s].told
             /\ sit'[s].keep = sit[s].keep /\ sit'[s].drop = sit[s].drop
             /\ sit'[s].carried = sit[s].carried
             /\ sit[s].late \subseteq sit'[s].late
             /\ HasRead(s, x) => x \in sit'[s].late
  <2>1. sit[s] \in SitType
    BY <1>1
  <2> DEFINE q == [sit[s] EXCEPT !.late = @ \cup {x}]
  <2>2. sit[s].late \cup {x} \in SUBSET (Company \cup Job)
    BY <1>2, <2>1 DEF SitType
  <2>3. /\ q \in SitType
        /\ q.pc = sit[s].pc /\ q.page = sit[s].page /\ q.line = sit[s].line
        /\ q.told = sit[s].told /\ q.keep = sit[s].keep /\ q.drop = sit[s].drop
        /\ q.carried = sit[s].carried /\ q.late = sit[s].late \cup {x}
    BY <2>1, <2>2 DEF SitType
  <2>4. sit'[s] = IF HasRead(s, x) THEN q ELSE sit[s]
    BY <1>3
  <2> HIDE DEF q
  <2> QED BY <2>1, <2>3, <2>4
<1>7. sit' \in [Sitting -> SitType]
  BY <1>3, <1>6
<1>8. ASSUME NEW s \in Sitting
      PROVE  SittingOK(sit[s])' /\ NotesRead(sit[s])' /\ MergeApart(s, sit[s])'
  <2>1. SittingOK(sit[s]) /\ NotesRead(sit[s]) /\ MergeApart(s, sit[s])
    BY DEF ReviewInv
  <2>2. SittingOK(sit'[s])
    BY <1>6, <2>1 DEF SittingOK
  <2>3. SittingOK(sit[s])'
    BY <2>2 DEF SittingOK
  <2>4. ASSUME sit[s].pc \in Reading, NEW c \in Company, c \notin sit'[s].late
        PROVE  note'[c] = note[c] /\ c \notin sit[s].late
    <3>1. c # x
      BY <1>2, <1>6, <2>4 DEF HasRead, Reading
    <3> QED BY <1>1, <1>4, <1>6, <2>4, <3>1
  <2>5. NotesRead(sit[s])'
    <3>1. sit[s].pc \in Reading => sit[s].keep \in Company /\ sit[s].drop \in Company
      BY <2>1 DEF SittingOK, Reading, Merging
    <3>2. sit[s].pc \in Reading /\ sit'[s].drop \notin sit'[s].late
            => note'[sit'[s].drop] = sit'[s].told
      BY <1>6, <2>1, <2>4, <3>1 DEF NotesRead
    <3>3. sit[s].pc \in {"wipe", "carry"} /\ sit'[s].keep \notin sit'[s].late
            => note'[sit'[s].keep] \notin Text
      BY <1>6, <2>1, <2>4, <3>1 DEF NotesRead, Reading
    <3>4. sit[s].pc = "delete" /\ sit[s].carried = TRUE /\ sit'[s].keep \notin sit'[s].late
            => note'[sit'[s].keep] \notin Text
      BY <1>6, <2>1, <2>4, <3>1 DEF NotesRead, Reading
    <3> QED BY <1>6, <3>2, <3>3, <3>4 DEF NotesRead
  <2>6. MergeApart(s, sit[s])'
    BY <1>3, <1>6, <2>1 DEF MergeApart
  <2> QED BY <2>3, <2>5, <2>6
<1>9. req' \in [Request -> ReqType] /\ RequestsAddressed'
  <2>1. NoRequest \in ReqType /\ NoRequest.pc = "idle"
    BY AwayTyped DEF NoRequest
  <2> QED BY <1>1, <1>3, <2>1 DEF ReviewInv, RequestsAddressed
<1>10. TypeOK' /\ PairsWellFormed'
  BY <1>3, <1>5, <1>7, <1>9 DEF ReviewInv, TypeOK, PairsWellFormed
<1> QED BY <1>8, <1>9, <1>10 DEF ReviewInv

-----------------------------------------------------------------------------
(* The theorems *)

LEMMA InitReview == Init => ReviewInv
<1> SUFFICES ASSUME Init PROVE ReviewInv
  OBVIOUS
<1>1. PICK raised \in SUBSET PairId :
        pair = [i \in PairId |-> IF i \in raised
                                 THEN [a |-> Suspected[i][1], b |-> Suspected[i][2], open |-> TRUE]
                                 ELSE Null]
  BY DEF Init
<1>2. ASSUME NEW i \in PairId
      PROVE  /\ Suspected[i][1] \in Company /\ Suspected[i][2] \in Company
             /\ Suspected[i][1] < Suspected[i][2]
             /\ Suspected[i] = <<Suspected[i][1], Suspected[i][2]>>
  BY ReviewAssumption
<1>3. pair \in [PairId -> {Null} \cup [a: Company, b: Company, open: BOOLEAN]]
  BY <1>1, <1>2
<1>4. ASSUME NEW i \in PairId, pair[i] # Null
      PROVE  pair[i].a = Suspected[i][1] /\ pair[i].b = Suspected[i][2]
  BY <1>1, <1>4
<1>5. PairsWellFormed
  <2>1. live = Company
    BY DEF Init
  <2>2. ASSUME NEW i \in PairId, NEW k \in PairId, pair[i] # Null, pair[k] # Null,
               pair[k].a = pair[i].a, pair[k].b = pair[i].b
        PROVE  k = i
    <3>1. Suspected[i] = Suspected[k]
      BY <1>2, <1>4, <2>2
    <3> QED BY <3>1, ReviewAssumption
  <2> QED BY <1>2, <1>4, <2>1, <2>2 DEF PairsWellFormed
<1>6. /\ sit = [s \in Sitting |-> Away] /\ req = [w \in Request |-> NoRequest]
      /\ live = Company /\ jobOf = Lister /\ posts = 0
      /\ mark \in [Job -> {Null, TRUE, FALSE}] /\ note \in [Company -> {Null} \cup Note]
      /\ unused \subseteq Text
  BY DEF Init
<1>7. TypeOK
  <2>1. sit \in [Sitting -> SitType] /\ req \in [Request -> ReqType]
    BY <1>6, AwayTyped
  <2>2. jobOf \in [Job -> {Null} \cup Company] /\ \A j \in Job : jobOf[j] \in live \cup {Null}
    BY <1>6, ReviewAssumption
  <2>3. live \subseteq Company /\ posts \in 0..MaxPosts
    BY <1>6, ReviewAssumption
  <2> QED BY <1>3, <1>6, <2>1, <2>2, <2>3 DEF TypeOK
<1>8. ASSUME NEW s \in Sitting
      PROVE  SittingOK(sit[s]) /\ NotesRead(sit[s]) /\ MergeApart(s, sit[s])
  <2>1. sit[s] = Away
    BY <1>6
  <2>2. NotesRead(sit[s]) /\ MergeApart(s, sit[s])
    BY <2>1, AwayTyped DEF NotesRead, MergeApart, Merging, Reading
  <2> QED BY <2>1, <2>2, AwayTyped
<1>9. RequestsAddressed
  BY <1>6 DEF RequestsAddressed, NoRequest
<1> QED BY <1>5, <1>7, <1>8, <1>9 DEF ReviewInv

LEMMA NextKeeps == ReviewInv /\ [Next]_vars => ReviewInv'
<1> SUFFICES ASSUME ReviewInv, [Next]_vars PROVE ReviewInv'
  OBVIOUS
<1>1. ASSUME NEW w \in Request, Post(w) \/ Serve(w) \/ RequestIsVictim(w)
      PROVE  ReviewInv'
  BY <1>1, RequestKeeps, AnswerKeeps DEF Serve
<1>2. ASSUME NEW s \in Sitting, Review(s)
      PROVE  ReviewInv'
  BY <1>2, QueueKeeps, VerdictKeeps DEF Review
<1>3. ASSUME NEW s \in Sitting, Merge(s) \/ Kill(s)
      PROVE  ReviewInv'
  BY <1>3, AbortKeeps, LockKeeps, JobsKeep, NotesKeep, DeleteKeeps DEF Merge
<1>4. CASE UNCHANGED vars
  BY <1>4 DEF vars, ReviewInv, TypeOK, PairsWellFormed, RequestsAddressed, SittingOK,
              NotesRead, MergeApart
<1> QED BY <1>1, <1>2, <1>3, <1>4 DEF Next

\* The types of the variables are kept, and a stored job belongs to a company that
\* exists, whatever is merged at once.
THEOREM ReviewTypeCorrect == Spec => []TypeOK
<1>1. ReviewInv => TypeOK
  BY DEF ReviewInv
<1> QED BY <1>1, InitReview, NextKeeps, PTL DEF Spec

\* uq_merge_candidates, its order and its foreign keys hold after any sequence of
\* merges and verdicts (_repoint_merge_candidates).
THEOREM PairsStayWellFormed == Spec => []PairsWellFormed
<1>1. ReviewInv => PairsWellFormed
  BY DEF ReviewInv
<1> QED BY <1>1, InitReview, NextKeeps, PTL DEF Spec

\* The step of a merge that commits.
LEMMA OnlyDeleteCommits ==
    ASSUME ReviewInv, NEW s \in Sitting, Commits(s), Next
    PROVE  Delete(s)
<1>1. sit \in [Sitting -> SitType] /\ sit[s].pc = "delete" /\ sit'[s].pc = "report"
  BY DEF ReviewInv, TypeOK, Commits
<1>2. sit' # sit
  BY <1>1
<1>3. ASSUME NEW w \in Request, Post(w) \/ Serve(w) \/ RequestIsVictim(w)
      PROVE  FALSE
  <2>1. CASE Answer(w)
    <3>1. sit'[s].pc = sit[s].pc
      <4> DEFINE q == [sit[s] EXCEPT !.late = @ \cup {req[w].on}]
      <4>1. sit'[s] = IF HasRead(s, req[w].on) THEN q ELSE sit[s]
        BY <2>1 DEF Answer
      <4>2. q.pc = sit[s].pc
        BY <1>1 DEF SitType
      <4> QED BY <4>1, <4>2
    <3> QED BY <1>1, <3>1
  <2>2. CASE Post(w) \/ Write(w) \/ Refer(w) \/ ReferFails(w) \/ RequestIsVictim(w)
    BY <1>2, <2>2 DEF Post, Write, Refer, ReferFails, RequestIsVictim
  <2> QED BY <1>3, <2>1, <2>2 DEF Serve
<1>4. ASSUME NEW o \in Sitting, o # s, Review(o) \/ Merge(o) \/ Kill(o)
      PROVE  FALSE
  <2>1. sit'[s] = sit[s]
    <3>1. CASE Review(o)
      BY <1>1, <1>4, <3>1 DEF Review, Open, Offer, Leave, Skip, NotDuplicate, Duplicate
    <3>2. CASE Merge(o)
      BY <1>1, <1>4, <3>2 DEF Merge, Lock, NoSuchCompany, Rescue, RescueCollides, MoveJobs,
            ReadDropNote, ReadKeepNote, WipeNote, CarryNote, MergeIsVictim, Delete, Report
    <3>3. CASE Kill(o)
      BY <1>1, <1>4, <3>3 DEF Kill
    <3> QED BY <1>4, <3>1, <3>2, <3>3
  <2> QED BY <1>1, <2>1
<1>5. CASE Review(s) \/ Kill(s)
  <2>1. ~ Review(s)
    BY <1>1 DEF Review, Open, Offer, Leave, Skip, NotDuplicate, Duplicate
  <2>2. Kill(s) => sit'[s].pc = "gone"
    BY <1>1, AwayTyped DEF Kill
  <2> QED BY <1>1, <1>5, <2>1, <2>2
<1>6. CASE Merge(s)
  <2>1. ~ (MergeIsVictim(s) \/ Lock(s) \/ NoSuchCompany(s) \/ Rescue(s) \/ RescueCollides(s)
           \/ MoveJobs(s) \/ ReadDropNote(s) \/ ReadKeepNote(s) \/ WipeNote(s)
           \/ CarryNote(s) \/ Report(s))
    BY <1>1 DEF Lock, NoSuchCompany, Rescue, RescueCollides, MoveJobs, ReadDropNote,
                ReadKeepNote, WipeNote, CarryNote, MergeIsVictim, Deadlocked, Report
  <2> QED BY <1>6, <2>1 DEF Merge
<1> QED BY <1>3, <1>4, <1>5, <1>6 DEF Next

LEMMA CommitKeepsNotes ==
    ASSUME ReviewInv, NEW s \in Sitting, Delete(s),
           {sit[s].keep, sit[s].drop} \cap sit[s].late = {}
    PROVE  {note[sit[s].keep], note[sit[s].drop]} \cap Text
             \subseteq {note'[sit[s].keep], sit'[s].told}
<1> DEFINE keep == sit[s].keep
           drop == sit[s].drop
           told == IF sit[s].carried THEN Null ELSE sit[s].told
           r == [AtQueue(s) EXCEPT !.pc = "report", !.told = told,
                                   !.stale = IF sit[s].moved # {} THEN @ \cup {keep} ELSE @]
<1>1. /\ sit[s] \in SitType /\ SittingOK(sit[s]) /\ NotesRead(sit[s])
      /\ sit \in [Sitting -> SitType] /\ note \in [Company -> {Null} \cup Note]
  BY DEF ReviewInv, TypeOK
<1>2. /\ sit[s].pc = "delete" /\ sit' = [sit EXCEPT ![s] = r]
      /\ note' = [note EXCEPT ![keep] = IF sit[s].carried THEN note[drop] ELSE @, ![drop] = Null]
  BY DEF Delete
<1>3. keep \in Company /\ drop \in Company /\ keep # drop /\ sit[s].carried \in BOOLEAN
  BY <1>1, <1>2 DEF SittingOK, Merging, SitType
<1>4. note[drop] = sit[s].told /\ (sit[s].carried = TRUE => note[keep] \notin Text)
  BY <1>1, <1>2 DEF NotesRead, Reading
<1>5. note'[keep] = IF sit[s].carried THEN note[drop] ELSE note[keep]
  BY <1>1, <1>2, <1>3
<1>6. sit'[s].told = told
  <2>1. AtQueue(s) \in SitType
    BY <1>1, AtQueueTyped
  <2> HIDE DEF told
  <2>2. r.told = told
    BY <2>1 DEF SitType
  <2> HIDE DEF r
  <2> QED BY <1>1, <1>2, <2>2
<1> QED BY <1>3, <1>4, <1>5, <1>6

\* A merge destroys no text of the two notes it has read, for any number of
\* sittings that merge and requests that save at once (_merge_user_notes).
THEOREM NotesAreNotLost == Spec => NotesSurvive
<1> DEFINE Kept ==
      \A s \in Sitting :
        LET keep == sit[s].keep
            drop == sit[s].drop
        IN  Commits(s) /\ {keep, drop} \cap sit[s].late = {}
            => {note[keep], note[drop]} \cap Text \subseteq {note'[keep], sit'[s].told}
<1>1. ReviewInv /\ [Next]_vars => [Kept]_vars
  <2> SUFFICES ASSUME ReviewInv, Next PROVE Kept
    OBVIOUS
  <2> QED BY OnlyDeleteCommits, CommitKeepsNotes
<1>2. Spec => [][Kept]_vars
  <2> HIDE DEF Kept
  <2> QED BY <1>1, InitReview, NextKeeps, PTL DEF Spec
<1> QED BY <1>2 DEF NotesSurvive
-----------------------------------------------------------------------------
(***************************************************************************)
(* The stars.                                                              *)
(***************************************************************************)

\* No company has a posting twice.
PostingsOnce ==
    \A i, j \in Job : jobOf[i] # Null /\ jobOf[i] = jobOf[j] /\ Posting[i] = Posting[j] => i = j

\* What a merge has rescued of the bookmarks of its two companies, and left alone,
\* is what is there to rescue of those that no request has toggled since; what it
\* has moved is what the survivor does not have.
StarsRead(r) ==
    /\ r.pc \in Merging \ {"rescue"} =>
        /\ r.rescued \subseteq JobsOf(r.drop)
        /\ \A j \in JobsOf(r.drop) : \A i \in Twins(j, r.keep) :
            /\ mark[j] # Null /\ mark[i] = Null /\ {i, j} \cap r.late = {} => j \in r.rescued
            /\ j \in r.rescued /\ i \notin r.late => mark[i] = Null
    /\ r.pc \in Merging \ {"rescue", "move"} =>
        r.moved = {j \in JobsOf(r.drop) : Twins(j, r.keep) = {}}

StarsInv == PostingsOnce /\ \A s \in Sitting : StarsRead(sit[s])

\* Of a step that writes no bookmark and moves no job, only the sittings matter.
LEMMA StarsFrame ==
    ASSUME StarsInv, UNCHANGED <<jobOf, mark>>, \A s \in Sitting : StarsRead(sit'[s])
    PROVE  StarsInv'
<1>1. \A s \in Sitting : StarsRead(sit[s])'
  BY DEF StarsRead, JobsOf, Twins
<1> QED BY <1>1 DEF StarsInv, PostingsOnce

\* The steps of a sitting, but the one that commits.
LEMMA SittingStep ==
    ASSUME ReviewInv, NEW s \in Sitting, Review(s) \/ Merge(s) \/ Kill(s), ~ Delete(s)
    PROVE  /\ UNCHANGED <<live, jobOf, mark, note>>
           /\ \A o \in Sitting \ {s} : sit'[o] = sit[o]
           /\ \/ sit'[s].pc \notin Merging \ {"rescue"}
              \/ Rescue(s)
              \/ MoveJobs(s)
              \/ /\ sit[s].pc \in Merging \ {"rescue", "move"}
                 /\ sit'[s].keep = sit[s].keep /\ sit'[s].drop = sit[s].drop
                 /\ sit'[s].rescued = sit[s].rescued /\ sit'[s].moved = sit[s].moved
                 /\ sit'[s].late = sit[s].late
<1>1. sit \in [Sitting -> SitType] /\ sit[s] \in SitType /\ SittingOK(sit[s])
  BY DEF ReviewInv, TypeOK
<1>2. CASE Review(s)
  <2>1. UNCHANGED <<live, jobOf, mark, note>> /\ \A o \in Sitting \ {s} : sit'[o] = sit[o]
    BY <1>1, <1>2 DEF Review, Open, Offer, Leave, Skip, NotDuplicate, Duplicate, Elsewhere,
                      stored
  <2>2. sit'[s].pc \notin Merging
    <3>1. CASE Open(s)
      BY <1>1, <3>1 DEF Open, Merging, SitType
    <3>2. CASE Offer(s)
      <4>1. PICK l \in sit[s].page :
              LET current == CandidateIsOpen(l) /\ {l.a, l.b} \cap sit[s].stale = {} IN
              sit' = [sit EXCEPT ![s].page = @ \ {l},
                                 ![s].line = IF current THEN l ELSE @,
                                 ![s].pc = IF current THEN "shown" ELSE @]
        BY <3>2 DEF Offer
      <4>2. sit[s].pc = "page"
        BY <3>2 DEF Offer
      <4> DEFINE current == CandidateIsOpen(l) /\ {l.a, l.b} \cap sit[s].stale = {}
      <4> HIDE DEF current
      <4>3. sit'[s].pc = IF current THEN "shown" ELSE sit[s].pc
        BY <1>1, <4>1 DEF current, SitType
      <4> QED BY <4>2, <4>3 DEF Merging
    <3>3. CASE Leave(s)
      BY <1>1, <3>3, AwayTyped DEF Leave, Merging
    <3>4. CASE Skip(s) \/ NotDuplicate(s)
      BY <1>1, <3>4, AtQueueTyped DEF Skip, NotDuplicate, Merging
    <3>5. CASE Duplicate(s)
      <4>1. PICK keep, drop :
              sit' = [sit EXCEPT ![s] = [AtQueue(s) EXCEPT !.pc = "lock", !.keep = keep,
                                                           !.drop = drop]]
        BY <3>5 DEF Duplicate
      <4>2. AtQueue(s) \in SitType
        BY <1>1, AtQueueTyped
      <4>3. sit'[s].pc = "lock"
        BY <1>1, <4>1, <4>2 DEF SitType
      <4> QED BY <4>3 DEF Merging
    <3> QED BY <1>2, <3>1, <3>2, <3>3, <3>4, <3>5 DEF Review
  <2> QED BY <2>1, <2>2
<1>3. CASE Kill(s) \/ NoSuchCompany(s) \/ RescueCollides(s) \/ MergeIsVictim(s) \/ Report(s)
  <2>1. UNCHANGED <<live, jobOf, mark, note>> /\ \A o \in Sitting \ {s} : sit'[o] = sit[o]
    BY <1>1, <1>3 DEF Kill, NoSuchCompany, RescueCollides, MergeIsVictim, Report, Elsewhere,
                      stored
  <2>2. sit'[s] = AtQueue(s) \/ sit'[s] = Gone
    BY <1>1, <1>3 DEF Kill, NoSuchCompany, RescueCollides, MergeIsVictim, Report
  <2>3. sit'[s].pc \notin Merging
    BY <1>1, <2>2, AtQueueTyped, AwayTyped DEF Merging
  <2> QED BY <2>1, <2>3
<1>4. CASE Lock(s) \/ Rescue(s) \/ MoveJobs(s)
  <2>1. UNCHANGED <<live, jobOf, mark, note>> /\ \A o \in Sitting \ {s} : sit'[o] = sit[o]
    BY <1>1, <1>4 DEF Lock, Rescue, MoveJobs, Elsewhere, stored
  <2>2. Lock(s) => sit'[s].pc = "rescue"
    BY <1>1 DEF Lock, SitType
  <2> QED BY <1>4, <2>1, <2>2
<1>5. CASE ReadDropNote(s) \/ ReadKeepNote(s) \/ WipeNote(s) \/ CarryNote(s)
  <2>1. UNCHANGED <<live, jobOf, mark, note>> /\ \A o \in Sitting \ {s} : sit'[o] = sit[o]
    BY <1>1, <1>5 DEF ReadDropNote, ReadKeepNote, WipeNote, CarryNote, Elsewhere, stored
  <2>2. sit[s].pc \in Merging \ {"rescue", "move"}
    BY <1>5 DEF ReadDropNote, ReadKeepNote, WipeNote, CarryNote, Merging
  <2>3. /\ sit'[s].keep = sit[s].keep /\ sit'[s].drop = sit[s].drop
        /\ sit'[s].rescued = sit[s].rescued /\ sit'[s].moved = sit[s].moved
        /\ sit'[s].late = sit[s].late
    BY <1>1, <1>5 DEF ReadDropNote, ReadKeepNote, WipeNote, CarryNote, SitType
  <2> QED BY <2>1, <2>2, <2>3
<1> QED BY <1>2, <1>3, <1>4, <1>5 DEF Merge
LEMMA SittingKeepsStars ==
    ASSUME ReviewInv, StarsInv, NEW s \in Sitting, Review(s) \/ Merge(s) \/ Kill(s), ~ Delete(s)
    PROVE  StarsInv'
<1>1. /\ UNCHANGED <<jobOf, mark>>
      /\ \A o \in Sitting \ {s} : sit'[o] = sit[o]
  BY SittingStep
<1>2. sit \in [Sitting -> SitType] /\ sit[s] \in SitType /\ StarsRead(sit[s])
  BY DEF ReviewInv, TypeOK, StarsInv
<1>3. StarsRead(sit'[s])
  <2>1. CASE sit'[s].pc \notin Merging \ {"rescue"}
    BY <2>1 DEF StarsRead
  <2>2. CASE Rescue(s)
    <3>1. /\ sit'[s].pc = "move" /\ sit'[s].rescued = Rescuable(s)
          /\ sit'[s].keep = sit[s].keep /\ sit'[s].drop = sit[s].drop
      BY <1>2, <2>2 DEF Rescue, SitType
    <3>2. Rescuable(s) \subseteq JobsOf(sit[s].drop)
      BY DEF Rescuable
    <3>3. ASSUME NEW j \in JobsOf(sit[s].drop), NEW i \in Twins(j, sit[s].keep)
          PROVE  /\ mark[j] # Null /\ mark[i] = Null => j \in Rescuable(s)
                 /\ j \in Rescuable(s) => mark[i] = Null
      <4>1. \A k \in Twins(j, sit[s].keep) : k = i
        <5>1. ASSUME NEW k \in Twins(j, sit[s].keep) PROVE k = i
          <6>1. /\ k \in Job /\ i \in Job /\ jobOf[k] = jobOf[i] /\ jobOf[i] = sit[s].keep
                /\ Posting[k] = Posting[i]
            BY DEF Twins, JobsOf
          <6>2. sit[s].keep # Null
            BY <2>2, ReviewAssumption DEF ReviewInv, SittingOK, Rescue, Merging
          <6> QED BY <6>1, <6>2 DEF StarsInv, PostingsOnce
        <5> QED BY <5>1
      <4> QED BY <4>1 DEF Rescuable
    <3> QED BY <3>1, <3>2, <3>3 DEF StarsRead
  <2>3. CASE MoveJobs(s)
    <3> DEFINE free == {j \in JobsOf(sit[s].drop) : Twins(j, sit[s].keep) = {}}
    <3>1. /\ sit'[s].pc = "readdrop" /\ sit'[s].moved = free
          /\ sit'[s].keep = sit[s].keep /\ sit'[s].drop = sit[s].drop
          /\ sit'[s].rescued = sit[s].rescued /\ sit'[s].late = sit[s].late
      BY <1>2, <2>3 DEF MoveJobs, SitType
    <3>2. sit[s].pc \in Merging \ {"rescue"}
      BY <2>3 DEF MoveJobs, Merging
    <3> QED BY <1>2, <3>1, <3>2 DEF StarsRead
  <2>4. CASE /\ sit[s].pc \in Merging \ {"rescue", "move"}
             /\ sit'[s].keep = sit[s].keep /\ sit'[s].drop = sit[s].drop
             /\ sit'[s].rescued = sit[s].rescued /\ sit'[s].moved = sit[s].moved
             /\ sit'[s].late = sit[s].late
    BY <1>2, <2>4 DEF StarsRead
  <2> QED BY <2>1, <2>2, <2>3, <2>4, SittingStep
<1>4. \A o \in Sitting : StarsRead(sit'[o])
  BY <1>1, <1>3 DEF StarsInv
<1> QED BY <1>1, <1>4, StarsFrame

\* A star toggled under a merge that has passed the bookmarks is one it does not
\* answer for.
LEMMA AnswerKeepsStars ==
    ASSUME ReviewInv, StarsInv, NEW w \in Request, Answer(w)
    PROVE  StarsInv'
<1> DEFINE x == req[w].on
<1>1. sit \in [Sitting -> SitType] /\ mark \in [Job -> {Null, TRUE, FALSE}]
  BY DEF ReviewInv, TypeOK
<1>2. /\ jobOf' = jobOf
      /\ \A j \in Job : j # x => mark'[j] = mark[j]
  <2>1. x \in Company \cup Job
    BY DEF ReviewInv, RequestsAddressed, Answer
  <2> QED BY <1>1, <2>1 DEF Answer
<1>3. ASSUME NEW s \in Sitting
      PROVE  /\ sit'[s].pc = sit[s].pc /\ sit'[s].keep = sit[s].keep
             /\ sit'[s].drop = sit[s].drop /\ sit'[s].rescued = sit[s].rescued
             /\ sit'[s].moved = sit[s].moved
             /\ sit[s].late \subseteq sit'[s].late
             /\ HasRead(s, x) => x \in sit'[s].late
  <2>1. sit[s] \in SitType
    BY <1>1
  <2> DEFINE q == [sit[s] EXCEPT !.late = @ \cup {x}]
  <2>2. /\ q.pc = sit[s].pc /\ q.keep = sit[s].keep /\ q.drop = sit[s].drop
        /\ q.rescued = sit[s].rescued /\ q.moved = sit[s].moved
        /\ q.late = sit[s].late \cup {x}
    BY <2>1 DEF SitType
  <2>3. sit'[s] = IF HasRead(s, x) THEN q ELSE sit[s]
    BY DEF Answer
  <2> HIDE DEF q
  <2> QED BY <2>1, <2>2, <2>3
<1> HIDE DEF x
<1>4. ASSUME NEW s \in Sitting
      PROVE  StarsRead(sit[s])'
  <2>1. StarsRead(sit[s])
    BY DEF StarsInv
  <2>2. ASSUME sit[s].pc \in Merging \ {"rescue"}, NEW j \in Job, j \notin sit'[s].late
        PROVE  mark'[j] = mark[j] /\ j \notin sit[s].late
    <3>1. j # x
      BY <1>3, <2>2 DEF HasRead
    <3> QED BY <1>2, <1>3, <2>2, <3>1
  <2>3. ASSUME sit[s].pc \in Merging \ {"rescue"}
        PROVE  /\ sit[s].rescued \subseteq JobsOf(sit[s].drop)
               /\ \A j \in JobsOf(sit[s].drop) : \A i \in Twins(j, sit[s].keep) :
                    /\ mark'[j] # Null /\ mark'[i] = Null /\ {i, j} \cap sit'[s].late = {}
                        => j \in sit[s].rescued
                    /\ j \in sit[s].rescued /\ i \notin sit'[s].late => mark'[i] = Null
    <3>1. sit[s].rescued \subseteq JobsOf(sit[s].drop)
      BY <2>1, <2>3 DEF StarsRead
    <3>2. ASSUME NEW j \in JobsOf(sit[s].drop), NEW i \in Twins(j, sit[s].keep)
          PROVE  /\ mark'[j] # Null /\ mark'[i] = Null /\ {i, j} \cap sit'[s].late = {}
                    => j \in sit[s].rescued
                 /\ j \in sit[s].rescued /\ i \notin sit'[s].late => mark'[i] = Null
      <4>1. i \in Job /\ j \in Job
        BY DEF Twins, JobsOf
      <4>2. /\ mark[j] # Null /\ mark[i] = Null /\ {i, j} \cap sit[s].late = {}
                    => j \in sit[s].rescued
            /\ j \in sit[s].rescued /\ i \notin sit[s].late => mark[i] = Null
        BY <2>1, <2>3 DEF StarsRead
      <4> QED BY <2>2, <2>3, <4>1, <4>2
    <3> QED BY <3>1, <3>2
  <2>4. /\ JobsOf(sit[s].drop) = JobsOf(sit[s].drop)'
        /\ \A j \in Job : Twins(j, sit[s].keep) = Twins(j, sit[s].keep)'
    BY <1>2, <1>3 DEF JobsOf, Twins
  <2>5. sit[s].pc \in Merging \ {"rescue", "move"} =>
            sit'[s].moved = {j \in JobsOf(sit[s].drop)' : Twins(j, sit[s].keep)' = {}}
    <3>1. sit[s].pc \in Merging \ {"rescue", "move"} =>
            sit'[s].moved = {j \in JobsOf(sit[s].drop) : Twins(j, sit[s].keep) = {}}
      BY <1>3, <2>1 DEF StarsRead
    <3>2. JobsOf(sit[s].drop) \subseteq Job
      BY DEF JobsOf
    <3> QED BY <2>4, <3>1, <3>2
  <2>6. JobsOf(sit[s].drop) \subseteq Job
    BY DEF JobsOf
  <2> QED BY <1>3, <2>3, <2>4, <2>5, <2>6 DEF StarsRead
<1> QED BY <1>2, <1>4 DEF StarsInv, PostingsOnce

LEMMA RequestKeepsStars ==
    ASSUME ReviewInv, StarsInv, NEW w \in Request, Post(w) \/ Serve(w) \/ RequestIsVictim(w)
    PROVE  StarsInv'
<1>1. CASE Answer(w)
  BY <1>1, AnswerKeepsStars
<1>2. CASE Post(w) \/ Write(w) \/ Refer(w) \/ ReferFails(w) \/ RequestIsVictim(w)
  <2>1. UNCHANGED <<jobOf, mark, sit>>
    BY <1>2 DEF Post, Write, Refer, ReferFails, RequestIsVictim, stored
  <2> QED BY <2>1, StarsFrame DEF StarsInv
<1> QED BY <1>1, <1>2 DEF Serve
\* What a merge that commits does to the jobs: those it moves are the survivor's,
\* the discarded company has none, and of the jobs of no other is anything changed.
LEMMA DeleteEffect ==
    ASSUME ReviewInv, StarsInv, NEW s \in Sitting, Delete(s)
    PROVE  LET keep == sit[s].keep
               drop == sit[s].drop
           IN  /\ keep \in live /\ drop \in live /\ keep # drop /\ {keep, drop} \subseteq Company
               /\ sit[s].moved = {j \in JobsOf(drop) : Twins(j, keep) = {}}
               /\ \A j \in Job :
                    jobOf'[j] = IF j \in sit[s].moved THEN keep
                                ELSE IF jobOf[j] = drop THEN Null ELSE jobOf[j]
               /\ \A j \in Job : jobOf[j] \notin {keep, drop} => mark'[j] = mark[j]
               /\ \A o \in Sitting \ {s} : sit'[o] = sit[o]
               /\ sit'[s].pc = "report"
               /\ sit'[s].page = sit[s].page
               /\ sit'[s].stale = IF sit[s].moved # {} THEN sit[s].stale \cup {keep}
                                  ELSE sit[s].stale
<1> DEFINE keep == sit[s].keep
           drop == sit[s].drop
           moved == sit[s].moved
           told == IF sit[s].carried THEN Null ELSE sit[s].told
           stale == IF moved # {} THEN sit[s].stale \cup {keep} ELSE sit[s].stale
           r == [AtQueue(s) EXCEPT !.pc = "report", !.told = told,
                                   !.stale = IF moved # {} THEN @ \cup {keep} ELSE @]
<1>1. /\ sit[s] \in SitType /\ SittingOK(sit[s]) /\ MergeApart(s, sit[s]) /\ StarsRead(sit[s])
      /\ sit[s].pc = "delete" /\ sit \in [Sitting -> SitType]
  BY DEF ReviewInv, TypeOK, Delete, StarsInv
<1>2. keep \in live /\ drop \in live /\ keep # drop /\ {keep, drop} \subseteq Company
  BY <1>1 DEF SittingOK, MergeApart, Merging
<1>3. moved = {j \in JobsOf(drop) : Twins(j, keep) = {}}
  BY <1>1 DEF StarsRead, Merging
<1>4. \A j \in Job : jobOf'[j] = IF j \in moved THEN keep
                                 ELSE IF jobOf[j] = drop THEN Null ELSE jobOf[j]
  <2>1. jobOf' = [j \in Job |-> IF j \in moved THEN keep
                                ELSE IF j \in JobsOf(drop) \ moved THEN Null ELSE jobOf[j]]
    BY DEF Delete
  <2> HIDE DEF keep, drop, moved
  <2> QED BY <2>1 DEF JobsOf
<1>5. \A j \in Job : jobOf[j] \notin {keep, drop} => mark'[j] = mark[j]
  <2> DEFINE twin(j) == CHOOSE i \in sit[s].rescued : j \in Twins(i, keep)
  <2>1. mark' = [j \in Job |->
            IF j \in JobsOf(drop) \ moved THEN Null
            ELSE IF \E i \in sit[s].rescued : j \in Twins(i, keep) THEN mark[twin(j)]
            ELSE mark[j]]
    BY DEF Delete
  <2> HIDE DEF twin, keep, drop, moved
  <2> QED BY <2>1 DEF Twins, JobsOf
<1>6. r.pc = "report" /\ r.page = sit[s].page /\ r.stale = stale
  <2>1. AtQueue(s) \in SitType /\ AtQueue(s).page = sit[s].page /\ AtQueue(s).stale = sit[s].stale
    BY <1>1, AtQueueTyped
  <2> HIDE DEF told, keep, moved
  <2> QED BY <2>1 DEF SitType
<1>7. sit' = [sit EXCEPT ![s] = r]
  BY DEF Delete
<1> HIDE DEF r
<1>8. sit'[s] = r /\ \A o \in Sitting \ {s} : sit'[o] = sit[o]
  BY <1>1, <1>7
<1> QED BY <1>2, <1>3, <1>4, <1>5, <1>6, <1>8

LEMMA DeleteKeepsStars ==
    ASSUME ReviewInv, StarsInv, NEW s \in Sitting, Delete(s)
    PROVE  StarsInv'
<1>1. PICK keep, drop, moved : keep = sit[s].keep /\ drop = sit[s].drop /\ moved = sit[s].moved
  OBVIOUS
<1>2. /\ keep \in Company /\ drop \in Company /\ keep # drop
      /\ moved = {j \in JobsOf(drop) : Twins(j, keep) = {}}
      /\ \A j \in Job : jobOf'[j] = IF j \in moved THEN keep
                                    ELSE IF jobOf[j] = drop THEN Null ELSE jobOf[j]
      /\ \A j \in Job : jobOf[j] \notin {keep, drop} => mark'[j] = mark[j]
      /\ \A o \in Sitting \ {s} : sit'[o] = sit[o]
      /\ sit'[s].pc = "report"
  BY <1>1, DeleteEffect
<1>3. PostingsOnce'
  <2> SUFFICES ASSUME NEW i \in Job, NEW j \in Job, jobOf'[i] # Null, jobOf'[i] = jobOf'[j],
                      Posting[i] = Posting[j]
               PROVE  i = j
    BY DEF PostingsOnce
  <2>1. drop # Null
    BY <1>2, ReviewAssumption
  <2>2. CASE i \in moved /\ j \in moved
    BY <1>2, <2>1, <2>2 DEF StarsInv, PostingsOnce, JobsOf
  <2>3. ASSUME NEW k \in moved, NEW l \in Job \ moved, jobOf'[l] = keep,
               Posting[k] = Posting[l]
        PROVE  FALSE
    <3>1. jobOf[l] = keep
      BY <1>2, <2>3, ReviewAssumption
    <3>2. l \in Twins(k, keep)
      BY <2>3, <3>1 DEF Twins, JobsOf
    <3> QED BY <1>2, <3>2
  <2>4. CASE i \in moved /\ j \notin moved
    BY <1>2, <2>3, <2>4
  <2>5. CASE i \notin moved /\ j \in moved
    BY <1>2, <2>3, <2>5
  <2>6. CASE i \notin moved /\ j \notin moved
    BY <1>2, <2>6 DEF StarsInv, PostingsOnce
  <2> QED BY <2>2, <2>4, <2>5, <2>6
<1>4. ASSUME NEW c, c \notin {keep, drop, Null}
      PROVE  /\ JobsOf(c)' = JobsOf(c)
             /\ \A j \in Job : Twins(j, c)' = Twins(j, c)
             /\ \A j \in JobsOf(c) : mark'[j] = mark[j]
  <2>1. \A j \in Job : jobOf'[j] = c <=> jobOf[j] = c
    BY <1>2, <1>4 DEF JobsOf
  <2> QED BY <1>2, <1>4, <2>1 DEF JobsOf, Twins
<1>5. ASSUME NEW o \in Sitting
      PROVE  StarsRead(sit[o])'
  <2>1. CASE o = s
    BY <1>2, <2>1 DEF StarsRead, Merging
  <2>2. CASE o # s /\ sit[o].pc \notin Merging
    BY <1>2, <2>2 DEF StarsRead
  <2>3. CASE o # s /\ sit[o].pc \in Merging
    <3>1. PICK k, d : k = sit[o].keep /\ d = sit[o].drop
      OBVIOUS
    <3>2. k \notin {keep, drop, Null} /\ d \notin {keep, drop, Null}
      <4>1. MergeApart(o, sit[o]) /\ SittingOK(sit[o])
        BY DEF ReviewInv
      <4>2. sit[s].pc \in Merging
        BY DEF Delete, Merging
      <4> QED BY <1>1, <2>3, <3>1, <4>1, <4>2, ReviewAssumption DEF MergeApart, SittingOK
    <3>3. /\ JobsOf(d)' = JobsOf(d) /\ \A j \in Job : Twins(j, k)' = Twins(j, k)
          /\ \A j \in JobsOf(d) : mark'[j] = mark[j]
          /\ \A j \in JobsOf(k) : mark'[j] = mark[j]
      BY <1>4, <3>2
    <3>4. sit'[o] = sit[o] /\ StarsRead(sit[o])
      BY <1>2, <2>3 DEF StarsInv
    <3>5. JobsOf(d) \subseteq Job /\ \A j \in Job : Twins(j, k) \subseteq JobsOf(k)
      BY DEF JobsOf, Twins
    <3>6. sit[o].pc \in Merging \ {"rescue"} =>
            /\ sit'[o].rescued \subseteq JobsOf(d)'
            /\ \A j \in JobsOf(d)' : \A i \in Twins(j, k)' :
                /\ mark'[j] # Null /\ mark'[i] = Null /\ {i, j} \cap sit'[o].late = {}
                     => j \in sit'[o].rescued
                /\ j \in sit'[o].rescued /\ i \notin sit'[o].late => mark'[i] = Null
      <4> SUFFICES ASSUME sit[o].pc \in Merging \ {"rescue"}
                   PROVE  /\ sit[o].rescued \subseteq JobsOf(d)
                          /\ \A j \in JobsOf(d) : \A i \in Twins(j, k) :
                              /\ mark'[j] # Null /\ mark'[i] = Null /\ {i, j} \cap sit[o].late = {}
                                   => j \in sit[o].rescued
                              /\ j \in sit[o].rescued /\ i \notin sit[o].late => mark'[i] = Null
        BY <3>3, <3>4, <3>5
      <4>1. /\ sit[o].rescued \subseteq JobsOf(d)
            /\ \A j \in JobsOf(d) : \A i \in Twins(j, k) :
                  /\ mark[j] # Null /\ mark[i] = Null /\ {i, j} \cap sit[o].late = {}
                       => j \in sit[o].rescued
                  /\ j \in sit[o].rescued /\ i \notin sit[o].late => mark[i] = Null
        BY <3>1, <3>4 DEF StarsRead
      <4> QED BY <3>3, <3>5, <4>1
    <3>7. sit[o].pc \in Merging \ {"rescue", "move"} =>
            sit'[o].moved = {j \in JobsOf(d)' : Twins(j, k)' = {}}
      <4>1. sit[o].pc \in Merging \ {"rescue", "move"} =>
              sit[o].moved = {j \in JobsOf(d) : Twins(j, k) = {}}
        BY <3>1, <3>4 DEF StarsRead
      <4> QED BY <3>3, <3>4, <3>5, <4>1
    <3> QED BY <3>1, <3>4, <3>6, <3>7 DEF StarsRead
  <2> QED BY <2>1, <2>2, <2>3
<1> QED BY <1>3, <1>5 DEF StarsInv

LEMMA InitStars == Init => StarsInv
<1> SUFFICES ASSUME Init PROVE StarsInv
  OBVIOUS
<1>1. PostingsOnce
  BY ReviewAssumption DEF Init, PostingsOnce
<1>2. \A s \in Sitting : sit[s].pc = "away"
  BY AwayTyped DEF Init
<1> QED BY <1>1, <1>2 DEF StarsInv, StarsRead, Merging

LEMMA NextKeepsStars == ReviewInv /\ StarsInv /\ [Next]_vars => StarsInv'
<1> SUFFICES ASSUME ReviewInv, StarsInv, [Next]_vars PROVE StarsInv'
  OBVIOUS
<1>1. ASSUME NEW w \in Request, Post(w) \/ Serve(w) \/ RequestIsVictim(w)
      PROVE  StarsInv'
  BY <1>1, RequestKeepsStars
<1>2. ASSUME NEW s \in Sitting, Review(s) \/ Merge(s) \/ Kill(s)
      PROVE  StarsInv'
  BY <1>2, SittingKeepsStars, DeleteKeepsStars
<1>3. CASE UNCHANGED vars
  BY <1>3, StarsFrame DEF vars, StarsInv
<1> QED BY <1>1, <1>2, <1>3 DEF Next

LEMMA CommitKeepsStars ==
    ASSUME ReviewInv, StarsInv, NEW s \in Sitting, Delete(s),
           NEW j \in JobsOf(sit[s].keep) \cup JobsOf(sit[s].drop), Starred(j)
    PROVE  StarStays(s, j) \/ \E i \in Twins(j, sit[s].keep) : mark[i] = FALSE
<1> DEFINE keep == sit[s].keep
           drop == sit[s].drop
           moved == sit[s].moved
           rescued == sit[s].rescued
           late == sit[s].late
           twin(i) == CHOOSE k \in rescued : i \in Twins(k, keep)
<1>1. /\ keep \in Company /\ drop \in Company /\ keep # drop
      /\ moved = {k \in JobsOf(drop) : Twins(k, keep) = {}}
      /\ \A k \in Job : jobOf'[k] = IF k \in moved THEN keep
                                    ELSE IF jobOf[k] = drop THEN Null ELSE jobOf[k]
  BY DeleteEffect
<1>2. mark' = [k \in Job |->
          IF k \in JobsOf(drop) \ moved THEN Null
          ELSE IF \E i \in rescued : k \in Twins(i, keep) THEN mark[twin(k)]
          ELSE mark[k]]
  BY DEF Delete
<1>3. /\ rescued \subseteq JobsOf(drop)
      /\ \A k \in JobsOf(drop) : \A i \in Twins(k, keep) :
          /\ mark[k] # Null /\ mark[i] = Null /\ {i, k} \cap late = {} => k \in rescued
          /\ k \in rescued /\ i \notin late => mark[i] = Null
  BY DEF StarsInv, StarsRead, Delete, Merging
<1>4. j \in Job /\ mark[j] = TRUE /\ TRUE # Null
  BY ReviewAssumption DEF JobsOf, Starred
<1> HIDE DEF twin, keep, drop, moved, rescued, late
<1>5. ASSUME NEW i \in Twins(j, keep), mark[i] = TRUE, i \notin late
      PROVE  jobOf'[i] = keep /\ mark'[i] = TRUE /\ i \in Job /\ Posting[i] = Posting[j]
  <2>1. i \in Job /\ jobOf[i] = keep /\ Posting[i] = Posting[j]
    BY DEF Twins, JobsOf
  <2>2. i \notin moved /\ i \notin JobsOf(drop)
    BY <1>1, <2>1 DEF JobsOf
  <2>3. ~ \E k \in rescued : i \in Twins(k, keep)
    BY <1>3, <1>4, <1>5
  <2> QED BY <1>1, <1>2, <1>5, <2>1, <2>2, <2>3
<1>6. CASE j \in JobsOf(keep)
  <2>1. j \in Twins(j, keep)
    BY <1>6 DEF Twins
  <2>2. CASE j \in late
    BY <2>2 DEF StarStays, late
  <2>3. CASE j \notin late
    BY <1>4, <1>5, <2>1, <2>3 DEF StarStays, Starred, keep
  <2> QED BY <2>2, <2>3
<1>7. CASE j \in JobsOf(drop) /\ j \in moved
  <2>1. jobOf'[j] = keep
    BY <1>1, <1>4, <1>7
  <2>2. ~ \E k \in rescued : j \in Twins(k, keep)
    BY <1>1, <1>7 DEF Twins, JobsOf
  <2>3. mark'[j] = TRUE
    BY <1>2, <1>4, <1>7, <2>2
  <2> QED BY <1>4, <2>1, <2>3 DEF StarStays, Starred, keep
<1>8. CASE j \in JobsOf(drop) /\ j \notin moved
  <2>1. PICK i \in Twins(j, keep) : TRUE
    BY <1>1, <1>8
  <2>2. i \in Job /\ jobOf[i] = keep /\ Posting[i] = Posting[j]
    BY DEF Twins, JobsOf
  <2>3. CASE i \in late \/ j \in late
    BY <2>1, <2>3 DEF StarStays, late, keep
  <2>4. CASE mark[i] = FALSE
    BY <2>1, <2>4 DEF keep
  <2>5. CASE mark[i] = TRUE /\ i \notin late
    BY <1>5, <2>1, <2>5 DEF StarStays, Starred, keep
  <2>6. CASE mark[i] = Null /\ i \notin late /\ j \notin late
    <3>1. j \in rescued
      BY <1>3, <1>4, <1>8, <2>1, <2>6
    <3>2. \A k \in rescued : i \in Twins(k, keep) => k = j
      <4>1. ASSUME NEW k \in rescued, i \in Twins(k, keep) PROVE k = j
        <5>1. k \in Job /\ jobOf[k] = drop /\ jobOf[j] = drop /\ Posting[k] = Posting[j]
          BY <1>3, <1>8, <2>2, <4>1 DEF JobsOf, Twins
        <5>2. drop # Null
          BY <1>1, ReviewAssumption
        <5> QED BY <1>4, <5>1, <5>2 DEF StarsInv, PostingsOnce
      <4> QED BY <4>1
    <3>3. twin(i) = j
      BY <2>1, <3>1, <3>2 DEF twin
    <3>4. i \notin moved /\ i \notin JobsOf(drop)
      BY <1>1, <2>2 DEF JobsOf
    <3>5. mark'[i] = TRUE /\ jobOf'[i] = keep
      BY <1>1, <1>2, <1>4, <2>1, <2>2, <3>1, <3>3, <3>4
    <3> QED BY <2>2, <3>5 DEF StarStays, Starred, keep
  <2>7. mark[i] \in {Null, TRUE, FALSE}
    BY <2>2 DEF ReviewInv, TypeOK
  <2> QED BY <2>3, <2>4, <2>5, <2>6, <2>7
<1> QED BY <1>6, <1>7, <1>8 DEF keep, drop

\* A merge destroys no star of a posting of either company, but one toggled under
\* it or one the survivor has the row of taken back, for any number of sittings
\* that merge and requests that toggle at once (_rescue_bookmarks, _move_guarded).
THEOREM StarsAreNotLost == Spec => StarsSurvive
<1> DEFINE Kept ==
      \A s \in Sitting : Commits(s) =>
        \A j \in JobsOf(sit[s].keep) \cup JobsOf(sit[s].drop) :
            Starred(j) => StarStays(s, j) \/ \E i \in Twins(j, sit[s].keep) : mark[i] = FALSE
<1>1. (ReviewInv /\ StarsInv) /\ [Next]_vars => [Kept]_vars
  <2> SUFFICES ASSUME ReviewInv, StarsInv, Next PROVE Kept
    OBVIOUS
  <2> QED BY OnlyDeleteCommits, CommitKeepsStars
<1>2. Spec => [][Kept]_vars
  <2> HIDE DEF Kept
  <2> QED BY <1>1, InitReview, NextKeeps, InitStars, NextKeepsStars, PTL DEF Spec
<1> QED BY <1>2 DEF StarsSurvive
-----------------------------------------------------------------------------
(***************************************************************************)
(* The summaries a sitting shows.                                          *)
(***************************************************************************)

\* No other sitting has begun.
Alone(s) == \A o \in Sitting \ {s} : sit[o].pc = "away"

\* The stored candidate is the one line l was read of, or what l was about is gone.
LineStands(l) ==
    \/ pair[l.id] = Null
    \/ pair[l.id].a = l.a /\ pair[l.id].b = l.b
    \/ ~ {l.a, l.b} \subseteq live

\* What line l says of the jobs of its companies is so, if its candidate is still
\* open and neither company is in stale.
SummaryStands(l, stale) ==
    CandidateIsOpen(l) /\ {l.a, l.b} \cap stale = {}
        => l.aJobs = JobsOf(l.a) /\ l.bJobs = JobsOf(l.b)

LinesTrue(s) ==
    /\ \A l \in sit[s].page : LineStands(l)
    /\ Alone(s) => \A l \in sit[s].page : SummaryStands(l, sit[s].stale)

LinesInv == ShownIsCurrent /\ \A s \in Sitting : LinesTrue(s)

\* The queue is read once, only Offer shows a line of it, and what is stale stays so.
LEMMA PageStep ==
    ASSUME ReviewInv, StarsInv, NEW s \in Sitting, Review(s) \/ Merge(s) \/ Kill(s)
    PROVE  /\ \A o \in Sitting \ {s} : sit'[o] = sit[o]
           /\ sit'[s].pc # "away"
           /\ sit'[s].pc = "shown" => Offer(s)
           /\ \/ Open(s)
              \/ sit'[s].page = {}
              \/ sit'[s].page \subseteq sit[s].page /\ sit[s].stale \subseteq sit'[s].stale
           /\ \/ UNCHANGED <<live, pair, jobOf>>
              \/ NotDuplicate(s)
              \/ Delete(s)
<1>1. sit \in [Sitting -> SitType] /\ sit[s] \in SitType /\ SittingOK(sit[s])
  BY DEF ReviewInv, TypeOK
<1>2. CASE Delete(s)
  BY <1>2, DeleteEffect
<1>3. CASE Open(s)
  BY <1>1, <1>3 DEF Open, Elsewhere, stored, SitType
<1>4. CASE Offer(s)
  <2>1. PICK l \in sit[s].page :
          LET current == CandidateIsOpen(l) /\ {l.a, l.b} \cap sit[s].stale = {} IN
          sit' = [sit EXCEPT ![s].page = @ \ {l},
                             ![s].line = IF current THEN l ELSE @,
                             ![s].pc = IF current THEN "shown" ELSE @]
    BY <1>4 DEF Offer
  <2> DEFINE current == CandidateIsOpen(l) /\ {l.a, l.b} \cap sit[s].stale = {}
  <2>2. sit[s].pc = "page" /\ Elsewhere
    BY <1>4 DEF Offer
  <2> HIDE DEF current
  <2>3. /\ sit'[s].pc = IF current THEN "shown" ELSE sit[s].pc
        /\ sit'[s].page = sit[s].page \ {l} /\ sit'[s].stale = sit[s].stale
        /\ \A o \in Sitting \ {s} : sit'[o] = sit[o]
    BY <1>1, <2>1 DEF current, SitType
  <2> QED BY <1>4, <2>2, <2>3 DEF Elsewhere, stored
<1>5. CASE Leave(s) \/ Kill(s)
  <2>1. sit'[s] = Gone /\ \A o \in Sitting \ {s} : sit'[o] = sit[o]
    BY <1>1, <1>5 DEF Leave, Kill
  <2>2. Gone.pc = "gone" /\ Gone.page = {}
    BY DEF Gone, Away
  <2> QED BY <1>5, <2>1, <2>2 DEF Leave, Kill, Elsewhere, stored
<1>6. CASE Skip(s) \/ NotDuplicate(s) \/ NoSuchCompany(s) \/ RescueCollides(s) \/ MergeIsVictim(s)
           \/ Report(s)
  <2>1. sit'[s] = AtQueue(s) /\ \A o \in Sitting \ {s} : sit'[o] = sit[o]
    BY <1>1, <1>6 DEF Skip, NotDuplicate, NoSuchCompany, RescueCollides, MergeIsVictim, Report
  <2>2. ~ NotDuplicate(s) => UNCHANGED <<live, pair, jobOf>>
    BY <1>6 DEF Skip, NoSuchCompany, RescueCollides, MergeIsVictim, Report, Elsewhere, stored
  <2> QED BY <1>1, <2>1, <2>2, AtQueueTyped
<1>7. CASE Duplicate(s)
  <2>1. PICK keep, drop :
          sit' = [sit EXCEPT ![s] = [AtQueue(s) EXCEPT !.pc = "lock", !.keep = keep,
                                                       !.drop = drop]]
    BY <1>7 DEF Duplicate
  <2>2. /\ AtQueue(s) \in SitType /\ AtQueue(s).page = sit[s].page
        /\ AtQueue(s).stale = sit[s].stale
    BY <1>1, AtQueueTyped
  <2> DEFINE r == [AtQueue(s) EXCEPT !.pc = "lock", !.keep = keep, !.drop = drop]
  <2>3. r.pc = "lock" /\ r.page = sit[s].page /\ r.stale = sit[s].stale
    BY <2>2 DEF SitType
  <2> HIDE DEF r
  <2>4. sit'[s] = r /\ \A o \in Sitting \ {s} : sit'[o] = sit[o]
    BY <1>1, <2>1 DEF r
  <2> QED BY <1>7, <2>3, <2>4 DEF Duplicate, Elsewhere, stored
<1>8. CASE Lock(s) \/ Rescue(s) \/ MoveJobs(s)
  <2>1. /\ sit'[s].pc \in {"rescue", "move", "readdrop"}
        /\ sit'[s].page = sit[s].page /\ sit'[s].stale = sit[s].stale
        /\ \A o \in Sitting \ {s} : sit'[o] = sit[o]
    BY <1>1, <1>8 DEF Lock, Rescue, MoveJobs, SitType
  <2> QED BY <1>8, <2>1 DEF Lock, Rescue, MoveJobs, Elsewhere, stored
<1>9. CASE ReadDropNote(s) \/ ReadKeepNote(s) \/ WipeNote(s) \/ CarryNote(s)
  <2>1. /\ sit'[s].pc \in {"readkeep", "wipe", "carry", "delete"}
        /\ sit'[s].page = sit[s].page /\ sit'[s].stale = sit[s].stale
        /\ \A o \in Sitting \ {s} : sit'[o] = sit[o]
    BY <1>1, <1>9 DEF ReadDropNote, ReadKeepNote, WipeNote, CarryNote, SitType
  <2> QED BY <1>9, <2>1
      DEF ReadDropNote, ReadKeepNote, WipeNote, CarryNote, Elsewhere, stored
<1> QED BY <1>2, <1>3, <1>4, <1>5, <1>6, <1>7, <1>8, <1>9 DEF Review, Merge

\* What a merge leaves of the lines of a queue: of a line about its companies the
\* candidate is gone, or the survivor is stale.
LEMMA DeleteKeepsLine ==
    ASSUME ReviewInv, StarsInv, NEW s \in Sitting, Delete(s), NEW l \in Line, LineStands(l)
    PROVE  /\ LineStands(l)'
           /\ SummaryStands(l, sit[s].stale) => SummaryStands(l, sit[s].stale)'
<1>1. PICK keep, drop, moved, p :
        keep = sit[s].keep /\ drop = sit[s].drop /\ moved = sit[s].moved /\ p = pair'
  OBVIOUS
<1>2. /\ keep \in live /\ drop \in live /\ keep # drop /\ {keep, drop} \subseteq Company
      /\ moved = {j \in JobsOf(drop) : Twins(j, keep) = {}}
      /\ \A j \in Job : jobOf'[j] = IF j \in moved THEN keep
                                    ELSE IF jobOf[j] = drop THEN Null ELSE jobOf[j]
      /\ sit'[s].stale = IF moved # {} THEN sit[s].stale \cup {keep} ELSE sit[s].stale
  BY <1>1, DeleteEffect
<1>3. live' = live \ {drop} /\ p = Repointed(keep, drop)
  BY <1>1 DEF Delete
<1>4. \A i \in PairId : p[i] # Null => {p[i].a, p[i].b} \subseteq live \ {drop}
  BY <1>2, <1>3, RepointedPairs
<1>5. \A i \in PairId :
        \/ p[i] = pair[i]
        \/ p[i] # Null => pair[i] # Null /\ drop \in {pair[i].a, pair[i].b}
  BY <1>3 DEF Repointed
<1>6. l.id \in PairId /\ l.a \in Company /\ l.b \in Company
  BY DEF Line
<1>7. p[l.id] = Null \/ (p[l.id].a = l.a /\ p[l.id].b = l.b) \/ ~ {l.a, l.b} \subseteq live'
  BY <1>3, <1>4, <1>5, <1>6 DEF LineStands
<1>8. LineStands(l)'
  BY <1>1, <1>7 DEF LineStands
<1>9. ASSUME SummaryStands(l, sit[s].stale), p[l.id] # Null, p[l.id].open,
             p[l.id].a = l.a, p[l.id].b = l.b, {l.a, l.b} \cap sit'[s].stale = {}
      PROVE  l.aJobs = {j \in Job : jobOf'[j] = l.a} /\ l.bJobs = {j \in Job : jobOf'[j] = l.b}
  <2>1. {l.a, l.b} \subseteq live \ {drop}
    BY <1>4, <1>6, <1>9
  <2>2. p[l.id] = pair[l.id]
    BY <1>5, <1>6, <1>9, <2>1 DEF LineStands
  <2>3. l.aJobs = JobsOf(l.a) /\ l.bJobs = JobsOf(l.b)
    BY <1>2, <1>9, <2>2 DEF SummaryStands, CandidateIsOpen
  <2>4. ASSUME NEW c \in {l.a, l.b}
        PROVE  JobsOf(c) = {j \in Job : jobOf'[j] = c}
    <3>1. c # drop /\ c # Null /\ (c = keep => moved = {})
      BY <1>2, <1>6, <1>9, <2>1, ReviewAssumption
    <3>2. moved \subseteq JobsOf(drop)
      BY <1>2
    <3> QED BY <1>2, <3>1, <3>2 DEF JobsOf
  <2> QED BY <2>3, <2>4
<1>10. SummaryStands(l, sit[s].stale) => SummaryStands(l, sit[s].stale)'
  <2> SUFFICES ASSUME SummaryStands(l, sit[s].stale), CandidateIsOpen(l)',
                      {l.a, l.b} \cap sit'[s].stale = {}
               PROVE  l.aJobs = JobsOf(l.a)' /\ l.bJobs = JobsOf(l.b)'
    BY DEF SummaryStands
  <2>1. p[l.id] # Null /\ p[l.id].open /\ p[l.id].a = l.a /\ p[l.id].b = l.b
    BY <1>1 DEF CandidateIsOpen
  <2> QED BY <1>9, <2>1 DEF JobsOf
<1> QED BY <1>8, <1>10
\* The body of ShownIsCurrent, of one sitting.
ShownTrue(s) ==
    sit[s].pc = "shown" /\ Alone(s) =>
        LET r == sit[s].line IN
        /\ pair[r.id] = [a |-> r.a, b |-> r.b, open |-> TRUE]
        /\ r.aJobs = JobsOf(r.a) /\ r.bJobs = JobsOf(r.b)

LEMMA ShownOfEach == ShownIsCurrent <=> \A s \in Sitting : ShownTrue(s)
BY DEF ShownIsCurrent, ShownTrue, Alone

\* The line Offer shows is the stored one.
LEMMA OfferShowsStored ==
    ASSUME ReviewInv, LinesInv, NEW s \in Sitting, Offer(s)
    PROVE  ShownTrue(s)'
<1>1. sit \in [Sitting -> SitType] /\ sit[s] \in SitType /\ LinesTrue(s)
  BY DEF ReviewInv, TypeOK, LinesInv
<1>2. PICK l \in sit[s].page :
        LET current == CandidateIsOpen(l) /\ {l.a, l.b} \cap sit[s].stale = {} IN
        sit' = [sit EXCEPT ![s].page = @ \ {l},
                           ![s].line = IF current THEN l ELSE @,
                           ![s].pc = IF current THEN "shown" ELSE @]
  BY DEF Offer
<1> DEFINE current == CandidateIsOpen(l) /\ {l.a, l.b} \cap sit[s].stale = {}
<1> HIDE DEF current
<1>3. /\ sit'[s].pc = IF current THEN "shown" ELSE sit[s].pc
      /\ sit'[s].line = IF current THEN l ELSE sit[s].line
      /\ \A o \in Sitting \ {s} : sit'[o] = sit[o]
  BY <1>1, <1>2 DEF current, SitType
<1>4. sit[s].pc = "page" /\ UNCHANGED <<pair, jobOf>>
  BY DEF Offer, Elsewhere, stored
<1>5. l \in Line
  BY <1>1 DEF SitType
<1> SUFFICES ASSUME sit'[s].pc = "shown", Alone(s)'
             PROVE  ShownTrue(s)'
  BY DEF ShownTrue
<1>6. current /\ sit'[s].line = l
  BY <1>3, <1>4
<1>7. Alone(s)
  BY <1>3 DEF Alone
<1>8. l.aJobs = JobsOf(l.a) /\ l.bJobs = JobsOf(l.b)
  BY <1>1, <1>6, <1>7 DEF LinesTrue, SummaryStands, current
<1>9. pair[l.id] = [a |-> l.a, b |-> l.b, open |-> TRUE]
  <2>1. pair[l.id] \in [a: Company, b: Company, open: BOOLEAN]
    BY <1>5, <1>6 DEF ReviewInv, TypeOK, current, CandidateIsOpen, Line
  <2> QED BY <1>6, <2>1 DEF current, CandidateIsOpen
<1> QED BY <1>4, <1>6, <1>8, <1>9 DEF ShownTrue, JobsOf

LEMMA SittingKeepsLines ==
    ASSUME ReviewInv, StarsInv, LinesInv, NEW s \in Sitting, Review(s) \/ Merge(s) \/ Kill(s)
    PROVE  LinesInv'
<1>1. sit \in [Sitting -> SitType] /\ \A o \in Sitting : LinesTrue(o)
  BY DEF ReviewInv, TypeOK, LinesInv
<1>2. /\ \A o \in Sitting \ {s} : sit'[o] = sit[o]
      /\ sit'[s].pc # "away"
      /\ sit'[s].pc = "shown" => Offer(s)
  BY PageStep
<1>3. \A o \in Sitting \ {s} : ~ Alone(o)'
  BY <1>2 DEF Alone
<1>4. Alone(s)' => Alone(s)
  BY <1>2 DEF Alone
<1>5. \A o \in Sitting : ShownTrue(o)'
  BY <1>2, <1>3, OfferShowsStored DEF ShownTrue
<1>10. ShownIsCurrent'
  BY <1>5 DEF ShownIsCurrent, ShownTrue, Alone
<1>6. ASSUME NEW l \in Line, LineStands(l), ~ Open(s)
      PROVE  /\ LineStands(l)'
             /\ SummaryStands(l, sit[s].stale) /\ sit[s].stale \subseteq sit'[s].stale
                  => SummaryStands(l, sit[s].stale)'
  <2>1. CASE Delete(s)
    BY <1>6, <2>1, DeleteKeepsLine
  <2>2. CASE UNCHANGED <<live, pair, jobOf>>
    BY <1>6, <2>2 DEF LineStands, SummaryStands, CandidateIsOpen, JobsOf
  <2>3. CASE NotDuplicate(s)
    <3>1. PICK i : i = sit[s].line.id
      OBVIOUS
    <3>2. /\ pair' = IF pair[i] = Null THEN pair ELSE [pair EXCEPT ![i].open = FALSE]
          /\ UNCHANGED <<live, jobOf>>
      BY <2>3, <3>1 DEF NotDuplicate
    <3>3. l.id \in PairId /\ pair \in [PairId -> {Null} \cup [a: Company, b: Company, open: BOOLEAN]]
      BY DEF Line, ReviewInv, TypeOK
    <3>4. \/ pair'[l.id] = pair[l.id]
          \/ /\ pair[l.id] # Null /\ pair'[l.id].a = pair[l.id].a
             /\ pair'[l.id].b = pair[l.id].b /\ ~ pair'[l.id].open
      <4>1. CASE pair[i] # Null /\ l.id = i
        <5>1. pair[i] \in [a: Company, b: Company, open: BOOLEAN]
          BY <3>3, <4>1
        <5>2. pair'[i] = [pair[i] EXCEPT !.open = FALSE]
          BY <3>2, <3>3, <4>1
        <5> QED BY <4>1, <5>1, <5>2
      <4>2. CASE ~ (pair[i] # Null /\ l.id = i)
        BY <3>2, <3>3, <4>2
      <4> QED BY <4>1, <4>2
    <3> QED BY <1>6, <3>2, <3>4 DEF LineStands, SummaryStands, CandidateIsOpen, JobsOf
  <2> QED BY <1>6, <2>1, <2>2, <2>3, PageStep
<1>7. ASSUME NEW o \in Sitting
      PROVE  sit[o].page \subseteq Line
  BY <1>1 DEF SitType
<1>8. CASE Open(s)
  <2>1. UNCHANGED <<live, pair, jobOf>>
    BY <1>8 DEF Open, Elsewhere, stored
  <2>2. ASSUME NEW o \in Sitting \ {s} PROVE LinesTrue(o)'
    BY <1>1, <1>2, <1>3, <2>1 DEF LinesTrue, LineStands
  <2>3. sit'[s].page = {LineOf(i) : i \in {k \in PairId : pair[k] # Null /\ pair[k].open}}
    BY <1>1, <1>8 DEF Open, SitType
  <2>4. ASSUME NEW l \in sit'[s].page
        PROVE  pair[l.id].a = l.a /\ pair[l.id].b = l.b
               /\ l.aJobs = JobsOf(l.a) /\ l.bJobs = JobsOf(l.b)
    BY <2>3 DEF LineOf
  <2>5. LinesTrue(s)'
    BY <2>1, <2>4 DEF LinesTrue, LineStands, SummaryStands, JobsOf
  <2> QED BY <1>10, <2>2, <2>5 DEF LinesInv
<1>9. CASE ~ Open(s)
  <2>1. ASSUME NEW o \in Sitting \ {s} PROVE LinesTrue(o)'
    <3>1. \A l \in sit'[o].page : LineStands(l)'
      BY <1>1, <1>2, <1>6, <1>7, <1>9 DEF LinesTrue
    <3> QED BY <1>3, <3>1 DEF LinesTrue
  <2>2. LinesTrue(s)'
    <3>1. CASE sit'[s].page = {}
      BY <3>1 DEF LinesTrue
    <3>2. CASE sit'[s].page \subseteq sit[s].page /\ sit[s].stale \subseteq sit'[s].stale
      <4>1. \A l \in sit'[s].page : LineStands(l)'
        BY <1>1, <1>6, <1>7, <1>9, <3>2 DEF LinesTrue
      <4>2. Alone(s)' => \A l \in sit'[s].page : SummaryStands(l, sit[s].stale)'
        BY <1>1, <1>4, <1>6, <1>7, <1>9, <3>2 DEF LinesTrue
      <4> QED BY <4>1, <4>2 DEF LinesTrue
    <3> QED BY <1>9, <3>1, <3>2, PageStep
  <2> QED BY <1>10, <2>1, <2>2 DEF LinesInv
<1> QED BY <1>8, <1>9
\* Requests change no job's company, no candidate and nothing a sitting shows.
LEMMA RequestKeepsLines ==
    ASSUME ReviewInv, LinesInv, NEW w \in Request, Post(w) \/ Serve(w) \/ RequestIsVictim(w)
    PROVE  LinesInv'
<1>1. UNCHANGED <<live, pair, jobOf>>
  BY DEF Post, Serve, Write, Refer, ReferFails, Answer, RequestIsVictim, stored
<1>2. ASSUME NEW s \in Sitting
      PROVE  /\ sit'[s].pc = sit[s].pc /\ sit'[s].page = sit[s].page
             /\ sit'[s].line = sit[s].line /\ sit'[s].stale = sit[s].stale
  <2>1. CASE Answer(w)
    <3> DEFINE q == [sit[s] EXCEPT !.late = @ \cup {req[w].on}]
    <3>1. sit[s] \in SitType
      BY DEF ReviewInv, TypeOK
    <3>2. /\ q.pc = sit[s].pc /\ q.page = sit[s].page /\ q.line = sit[s].line
          /\ q.stale = sit[s].stale
      BY <3>1 DEF SitType
    <3>3. sit'[s] = IF HasRead(s, req[w].on) THEN q ELSE sit[s]
      BY <2>1 DEF Answer
    <3> HIDE DEF q
    <3> QED BY <3>2, <3>3
  <2>2. CASE ~ Answer(w)
    BY <2>2 DEF Post, Serve, Write, Refer, ReferFails, RequestIsVictim
  <2> QED BY <2>1, <2>2
<1>3. ASSUME NEW s \in Sitting
      PROVE  Alone(s)' <=> Alone(s)
  BY <1>2 DEF Alone
<1>4. ASSUME NEW s \in Sitting
      PROVE  LinesTrue(s)' /\ ShownTrue(s)'
  <2>1. LinesTrue(s) /\ ShownTrue(s)
    BY ShownOfEach DEF LinesInv
  <2>2. LinesTrue(s)'
    BY <1>1, <1>2, <1>3, <2>1 DEF LinesTrue, LineStands, SummaryStands, CandidateIsOpen, JobsOf
  <2>3. ShownTrue(s)'
    BY <1>1, <1>2, <1>3, <2>1 DEF ShownTrue, JobsOf
  <2> QED BY <2>2, <2>3
<1>5. ShownIsCurrent'
  BY <1>4 DEF ShownIsCurrent, ShownTrue, Alone
<1> QED BY <1>4, <1>5 DEF LinesInv

LEMMA InitLines == Init => LinesInv
<1> SUFFICES ASSUME Init PROVE LinesInv
  OBVIOUS
<1>1. \A s \in Sitting : sit[s].pc = "away" /\ sit[s].page = {}
  BY DEF Init, Away
<1> QED BY <1>1 DEF LinesInv, LinesTrue, ShownIsCurrent

LEMMA NextKeepsLines == ReviewInv /\ StarsInv /\ LinesInv /\ [Next]_vars => LinesInv'
<1> SUFFICES ASSUME ReviewInv, StarsInv, LinesInv, [Next]_vars PROVE LinesInv'
  OBVIOUS
<1>1. ASSUME NEW w \in Request, Post(w) \/ Serve(w) \/ RequestIsVictim(w)
      PROVE  LinesInv'
  BY <1>1, RequestKeepsLines
<1>2. ASSUME NEW s \in Sitting, Review(s) \/ Merge(s) \/ Kill(s)
      PROVE  LinesInv'
  BY <1>2, SittingKeepsLines
<1>3. CASE UNCHANGED vars
  BY <1>3 DEF vars, LinesInv, ShownIsCurrent, LinesTrue, Alone, LineStands, SummaryStands,
              CandidateIsOpen, JobsOf
<1> QED BY <1>1, <1>2, <1>3 DEF Next

\* What a sitting that is alone shows is what is stored, whatever it has decided
\* before: no line of its queue outlives the merge that made it untrue
\* (_candidate_is_open, _survivor_summary_changed).
THEOREM ShownLinesAreCurrent == Spec => []ShownIsCurrent
<1>1. LinesInv => ShownIsCurrent
  BY DEF LinesInv
<1> QED BY <1>1, InitReview, NextKeeps, InitStars, NextKeepsStars, InitLines, NextKeepsLines,
           PTL DEF Spec

-----------------------------------------------------------------------------
(***************************************************************************)
(* Waiting.                                                                *)
(***************************************************************************)

\* What merge s is at goes on: the conjuncts of the actions of Merge that are
\* about the state before; the others assign each variable once.
MergeMayGo(s) ==
    LET keep == sit[s].keep
        drop == sit[s].drop
    IN  \/ sit[s].pc \in {"readdrop", "readkeep", "report"}
        \/ /\ sit[s].pc = "lock"
           /\ \/ ~ {keep, drop} \subseteq live
              \/ \A c \in {keep, drop} : ~ KeyShared(c) /\ \A o \in Sitting : ~ Holds(o, c)
        \/ /\ sit[s].pc = "rescue"
           /\ \/ ~ RescueBlocked(s)
              \/ \E j \in Rescuable(s), w \in Request :
                    req[w].pc = "written" /\ req[w].on \in Twins(j, keep)
        \/ /\ sit[s].pc = "move"
           /\ \A j \in JobsOf(drop) : Twins(j, keep) = {} => ~ KeyShared(j)
        \/ sit[s].pc = "wipe" /\ (note[keep] # Null => ~ InFlight(keep))
        \/ sit[s].pc = "carry" /\ ~ InFlight(drop) /\ ~ InFlight(keep)
        \/ \E w \in Request : Deadlocked(s, w)
        \/ /\ sit[s].pc = "delete"
           /\ note[drop] # Null => ~ InFlight(drop)
           /\ \A j \in JobsOf(drop) \ sit[s].moved :
                ~ KeyShared(j) /\ (mark[j] # Null => ~ InFlight(j))

\* And what request w is at: those of Serve and RequestIsVictim.
RequestMayGo(w) ==
    LET x == req[w].on IN
    \/ req[w].pc = "found" /\ ~ InFlight(x) /\ ~ Locked(x) /\ ~ Taken(x)
    \/ /\ req[w].pc = "inserted"
       /\ ~ Present(x) \/ \A s \in Sitting : ~ Holds(s, x) /\ x \notin sit[s].moved
    \/ req[w].pc = "written"
    \/ \E s \in Sitting : Deadlocked(s, w)

SomebodyMayGo ==
    InTransaction =>
        \/ \E s \in Sitting : MergeMayGo(s)
        \/ \E w \in Request : RequestMayGo(w)

Flying == {"inserted", "written"}

\* A note is saved with a text or blank; what a request has inserted had no row;
\* and no two requests have the same row in hand.
RequestsApart ==
    \A w \in Request :
        /\ req[w].pc # "idle" /\ req[w].on \in Company => req[w].text # Null
        /\ req[w].pc = "inserted" /\ req[w].on \in Company => note[req[w].on] = Null
        /\ \A v \in Request \ {w} :
            req[w].pc \in Flying /\ req[v].pc \in Flying => req[v].on # req[w].on

\* A sitting holds rows only in a merge, jobs only once it has moved them, and the
\* survivor's row only when no request has it; the note it carries is there.
SittingHolds(r) ==
    /\ r.pc \notin Merging =>
        r.wiped = FALSE /\ r.carried = FALSE /\ r.rescued = {} /\ r.moved = {}
    /\ r.pc \in {"rescue", "move"} => r.moved = {}
    /\ r.pc \in {"readkeep", "wipe", "carry"} => note[r.drop] # Null
    /\ r.carried = TRUE => ~ InFlight(r.keep)

WaitsInv == RequestsApart /\ \A s \in Sitting : SittingHolds(sit[s])

\* A request that has inserted a row waits for a merge, or goes on.
LEMMA InsertedWaits ==
    ASSUME ReviewInv, StarsInv, WaitsInv, NEW w \in Request, req[w].pc = "inserted"
    PROVE  \/ RequestMayGo(w)
           \/ req[w].on \in Company /\ \E s \in Sitting : Holds(s, req[w].on)
           \/ /\ req[w].on \in Job
              /\ \E s \in Sitting : /\ sit[s].pc \in Merging \ {"rescue", "move"}
                                    /\ req[w].on \in sit[s].moved
                                    /\ sit[s].moved \subseteq JobsOf(sit[s].drop)
<1> DEFINE x == req[w].on
<1>1. x \in Company \cup Job
  BY DEF ReviewInv, RequestsAddressed
<1> SUFFICES ASSUME NEW s \in Sitting, Holds(s, x) \/ x \in sit[s].moved
             PROVE  \/ x \in Company /\ Holds(s, x)
                    \/ /\ x \in Job /\ sit[s].pc \in Merging \ {"rescue", "move"}
                       /\ x \in sit[s].moved /\ sit[s].moved \subseteq JobsOf(sit[s].drop)
  BY <1>1 DEF RequestMayGo
<1>2. SittingOK(sit[s]) /\ SittingHolds(sit[s]) /\ StarsRead(sit[s])
  BY DEF ReviewInv, WaitsInv, StarsInv
<1>3. CASE Holds(s, x)
  BY <1>2, <1>3 DEF Holds, SittingOK
<1>4. CASE x \in sit[s].moved
  <2>1. sit[s].pc \in Merging \ {"rescue", "move"}
    BY <1>2, <1>4 DEF SittingHolds
  <2>2. sit[s].moved \subseteq JobsOf(sit[s].drop)
    BY <1>2, <2>1 DEF StarsRead
  <2> QED BY <1>4, <2>1, <2>2 DEF JobsOf
<1> QED BY <1>3, <1>4

\* Of two merges, no job of the one is moved by the other.
LEMMA JobsApart ==
    ASSUME ReviewInv, NEW s \in Sitting, NEW o \in Sitting, o # s,
           sit[s].pc \in Merging, sit[o].pc \in Merging, NEW x \in JobsOf(sit[o].drop)
    PROVE  jobOf[x] \notin {sit[s].keep, sit[s].drop}
<1>1. {sit[o].keep, sit[o].drop} \cap {sit[s].keep, sit[s].drop} = {}
  BY DEF ReviewInv, MergeApart
<1> QED BY <1>1 DEF JobsOf

\* A merge that waits waits for a request, and that one for nobody.
LEMMA MergeGoesOn ==
    ASSUME ReviewInv, StarsInv, WaitsInv, NEW s \in Sitting, sit[s].pc \in Merging
    PROVE  MergeMayGo(s) \/ \E w \in Request : RequestMayGo(w)
<1> SUFFICES ASSUME ~ MergeMayGo(s), \A w \in Request : ~ RequestMayGo(w) PROVE FALSE
  OBVIOUS
<1> DEFINE keep == sit[s].keep
           drop == sit[s].drop
<1>1. keep \in Company /\ drop \in Company /\ keep # drop /\ SittingHolds(sit[s])
  BY DEF ReviewInv, SittingOK, WaitsInv
<1>2. \A w \in Request : req[w].pc # "written"
  BY DEF RequestMayGo
<1>3. \A x : ~ KeyShared(x)
  BY <1>2 DEF KeyShared
<1>4. \A x : InFlight(x) => \E w \in Request : req[w].pc = "inserted" /\ req[w].on = x
  BY <1>2 DEF InFlight
\* On a job of the two companies no request waits for another merge.
<1>5. ASSUME NEW x \in Job, jobOf[x] \in {keep, drop}, InFlight(x)
      PROVE  x \in sit[s].moved
  <2>1. PICK w \in Request : req[w].pc = "inserted" /\ req[w].on = x
    BY <1>4, <1>5
  <2>2. PICK o \in Sitting : /\ sit[o].pc \in Merging \ {"rescue", "move"}
                             /\ x \in sit[o].moved /\ sit[o].moved \subseteq JobsOf(sit[o].drop)
    BY <2>1, InsertedWaits, ReviewAssumption
  <2>3. CASE o # s
    BY <1>5, <2>2, <2>3, JobsApart
  <2> QED BY <2>2, <2>3
<1>6. ASSUME NEW c \in Company, InFlight(c) PROVE note[c] = Null
  BY <1>4, <1>6 DEF WaitsInv, RequestsApart
<1>7. CASE sit[s].pc = "rescue"
  <2>1. PICK j \in Rescuable(s) : InFlight(j) \/ \E i \in Twins(j, keep) : InFlight(i)
    BY <1>7 DEF MergeMayGo, RescueBlocked
  <2>2. j \in Job /\ jobOf[j] = drop /\ \A i \in Twins(j, keep) : i \in Job /\ jobOf[i] = keep
    BY DEF Rescuable, JobsOf, Twins
  <2>3. sit[s].moved = {}
    BY <1>1, <1>7 DEF SittingHolds
  <2> QED BY <1>5, <2>1, <2>2, <2>3
<1>8. CASE sit[s].pc = "wipe"
  BY <1>1, <1>6, <1>8 DEF MergeMayGo
<1>9. CASE sit[s].pc = "carry"
  <2>1. note[drop] # Null
    BY <1>1, <1>9 DEF SittingHolds
  <2>2. InFlight(keep)
    BY <1>1, <1>6, <1>9, <2>1 DEF MergeMayGo
  <2>3. PICK w \in Request : req[w].pc = "inserted" /\ req[w].on = keep
    BY <1>4, <2>2
  <2> QED BY <1>9, <2>3 DEF MergeMayGo, Deadlocked
<1>10. CASE sit[s].pc = "delete"
  <2>1. note[drop] # Null => ~ InFlight(drop)
    BY <1>1, <1>6
  <2>2. ASSUME NEW j \in JobsOf(drop) \ sit[s].moved PROVE ~ InFlight(j)
    BY <1>5, <2>2 DEF JobsOf
  <2> QED BY <1>3, <1>10, <2>1, <2>2 DEF MergeMayGo
<1>11. CASE sit[s].pc \in {"move", "readdrop", "readkeep"}
  BY <1>3, <1>11 DEF MergeMayGo
<1> QED BY <1>7, <1>8, <1>9, <1>10, <1>11 DEF Merging

\* So somebody goes on: a merge that holds rows, else one that is to take them,
\* else a request.
LEMMA WaitingEnds ==
    ASSUME ReviewInv, StarsInv, WaitsInv
    PROVE  SomebodyMayGo
<1>1. CASE \E s \in Sitting : sit[s].pc \in Merging
  BY <1>1, MergeGoesOn DEF SomebodyMayGo
<1>2. CASE \A s \in Sitting : sit[s].pc \notin Merging
  <2>1. /\ \A s \in Sitting : \A c : ~ Holds(s, c)
        /\ \A s \in Sitting : /\ sit[s].wiped = FALSE /\ sit[s].carried = FALSE
                              /\ sit[s].rescued = {} /\ sit[s].moved = {}
    BY <1>2 DEF Holds, WaitsInv, SittingHolds
  <2>2. \A x : ~ Locked(x) /\ ~ Taken(x)
    BY <2>1 DEF Locked, Taken
  <2>3. ASSUME NEW w \in Request, req[w].pc \in Flying PROVE RequestMayGo(w)
    BY <2>1, <2>3 DEF RequestMayGo, Flying
  <2>4. ASSUME NEW w \in Request, req[w].pc # "idle" PROVE \E v \in Request : RequestMayGo(v)
    <3>1. req[w].pc \in {"found", "inserted", "written"}
      BY <2>4 DEF ReviewInv, TypeOK, ReqType
    <3>2. CASE InFlight(req[w].on)
      BY <2>3, <3>2 DEF InFlight, Flying
    <3>3. CASE ~ InFlight(req[w].on)
      BY <2>2, <2>3, <3>1, <3>3 DEF RequestMayGo, Flying
    <3> QED BY <3>2, <3>3
  <2>5. ASSUME NEW s \in Sitting, sit[s].pc = "lock", \A w \in Request : req[w].pc = "idle"
        PROVE  MergeMayGo(s)
    <3>1. \A c : ~ KeyShared(c)
      BY <2>5 DEF KeyShared
    <3> QED BY <2>1, <2>5, <3>1 DEF MergeMayGo
  <2> QED BY <1>2, <2>4, <2>5 DEF SomebodyMayGo, InTransaction
<1> QED BY <1>1, <1>2

\* What a sitting is left with of a merge: nothing.
LEMMA NothingHeld ==
    ASSUME NEW s \in Sitting, sit[s] \in SitType
    PROVE  \A r \in {Away, Gone, AtQueue(s)} :
                /\ r.wiped = FALSE /\ r.carried = FALSE /\ r.rescued = {} /\ r.moved = {}
                /\ r.pc \notin Merging
<1>1. Away.pc = "away" /\ Gone.pc = "gone" /\ AtQueue(s).pc = "page"
  BY DEF Away, Gone, AtQueue
<1>2. Away.wiped = FALSE /\ Away.carried = FALSE /\ Away.rescued = {} /\ Away.moved = {}
  BY DEF Away
<1>3. Gone.wiped = FALSE /\ Gone.carried = FALSE /\ Gone.rescued = {} /\ Gone.moved = {}
  BY DEF Away, Gone
<1>4. /\ AtQueue(s).wiped = FALSE /\ AtQueue(s).carried = FALSE
      /\ AtQueue(s).rescued = {} /\ AtQueue(s).moved = {}
  BY DEF Away, AtQueue
<1> QED BY <1>1, <1>2, <1>3, <1>4 DEF Merging

\* Of a step that writes no note and leaves the requests alone, only the sittings matter.
LEMMA WaitsFrame ==
    ASSUME WaitsInv, UNCHANGED <<note, req>>, \A s \in Sitting : SittingHolds(sit'[s])
    PROVE  WaitsInv'
<1>1. \A s \in Sitting : SittingHolds(sit[s])'
  BY DEF SittingHolds, InFlight
<1> QED BY <1>1 DEF WaitsInv, RequestsApart

LEMMA SittingKeepsWaits ==
    ASSUME ReviewInv, WaitsInv, NEW s \in Sitting, Review(s) \/ Merge(s) \/ Kill(s), ~ Delete(s)
    PROVE  WaitsInv'
<1>1. /\ UNCHANGED <<note, req>>
      /\ \A o \in Sitting \ {s} : sit'[o] = sit[o]
  <2>1. UNCHANGED req
    BY DEF Review, Merge, Kill, Open, Offer, Leave, Skip, NotDuplicate, Duplicate, Lock,
           NoSuchCompany, Rescue, RescueCollides, MoveJobs, ReadDropNote, ReadKeepNote,
           WipeNote, CarryNote, MergeIsVictim, Report, Elsewhere
  <2> QED BY <2>1, SittingStep
<1>2. sit \in [Sitting -> SitType] /\ sit[s] \in SitType /\ SittingHolds(sit[s])
  BY DEF ReviewInv, TypeOK, WaitsInv
<1>3. SittingHolds(sit'[s])
  <2>1. CASE sit'[s] \in {Away, Gone, AtQueue(s)}
    BY <1>2, <2>1, NothingHeld DEF SittingHolds, Merging
  <2>2. CASE /\ sit[s].pc \notin Merging /\ sit'[s].pc \notin Merging \ {"rescue"}
             /\ sit'[s].wiped = sit[s].wiped /\ sit'[s].carried = sit[s].carried
             /\ sit'[s].rescued = sit[s].rescued /\ sit'[s].moved = sit[s].moved
    BY <1>2, <2>2 DEF SittingHolds, Merging
  <2>3. CASE Open(s) \/ Lock(s)
    <3>1. sit[s].pc \notin Merging
      BY <2>3 DEF Open, Lock, Merging
    <3>2. /\ sit'[s].pc \in {"page", "rescue"}
          /\ sit'[s].wiped = sit[s].wiped /\ sit'[s].carried = sit[s].carried
          /\ sit'[s].rescued = sit[s].rescued /\ sit'[s].moved = sit[s].moved
      BY <1>2, <2>3 DEF Open, Lock, SitType
    <3> QED BY <2>2, <3>1, <3>2 DEF Merging
  <2>4. CASE Offer(s)
    <3>1. PICK l \in sit[s].page :
            LET current == CandidateIsOpen(l) /\ {l.a, l.b} \cap sit[s].stale = {} IN
            sit' = [sit EXCEPT ![s].page = @ \ {l},
                               ![s].line = IF current THEN l ELSE @,
                               ![s].pc = IF current THEN "shown" ELSE @]
      BY <2>4 DEF Offer
    <3> DEFINE current == CandidateIsOpen(l) /\ {l.a, l.b} \cap sit[s].stale = {}
    <3> HIDE DEF current
    <3>2. sit[s].pc = "page"
      BY <2>4 DEF Offer
    <3>3. /\ sit'[s].pc \in {"page", "shown"}
          /\ sit'[s].wiped = sit[s].wiped /\ sit'[s].carried = sit[s].carried
          /\ sit'[s].rescued = sit[s].rescued /\ sit'[s].moved = sit[s].moved
      BY <1>2, <3>1, <3>2 DEF current, SitType
    <3> QED BY <2>2, <3>2, <3>3 DEF Merging
  <2>5. CASE Duplicate(s)
    <3>1. PICK keep, drop :
            sit' = [sit EXCEPT ![s] = [AtQueue(s) EXCEPT !.pc = "lock", !.keep = keep,
                                                         !.drop = drop]]
      BY <2>5 DEF Duplicate
    <3>2. AtQueue(s) \in SitType
      BY <1>2, AtQueueTyped DEF ReviewInv
    <3>3. /\ sit'[s].pc = "lock"
          /\ sit'[s].wiped = AtQueue(s).wiped /\ sit'[s].carried = AtQueue(s).carried
          /\ sit'[s].rescued = AtQueue(s).rescued /\ sit'[s].moved = AtQueue(s).moved
      BY <1>2, <3>1, <3>2 DEF SitType
    <3> QED BY <1>2, <3>3, NothingHeld DEF SittingHolds, Merging
  <2>6. CASE \/ Leave(s) \/ Skip(s) \/ NotDuplicate(s) \/ Kill(s) \/ NoSuchCompany(s)
             \/ RescueCollides(s) \/ MergeIsVictim(s) \/ Report(s)
    BY <1>2, <2>1, <2>6 DEF Leave, Skip, NotDuplicate, Kill, NoSuchCompany, RescueCollides,
                            MergeIsVictim, Report
  <2>7. CASE Rescue(s) \/ MoveJobs(s)
    <3>1. /\ sit[s].pc \in {"rescue", "move"} /\ sit'[s].pc \in {"move", "readdrop"}
          /\ sit'[s].pc = "move" => sit'[s].moved = sit[s].moved
          /\ sit'[s].carried = sit[s].carried /\ sit'[s].keep = sit[s].keep
          /\ Rescue(s) => sit[s].pc = "rescue"
      BY <1>2, <2>7 DEF Rescue, MoveJobs, SitType
    <3> QED BY <1>2, <3>1 DEF SittingHolds, Merging
  <2>8. CASE ReadDropNote(s) \/ ReadKeepNote(s) \/ WipeNote(s)
    <3>1. /\ sit'[s].pc \in {"readkeep", "wipe", "carry", "delete"}
          /\ sit'[s].carried = sit[s].carried /\ sit'[s].keep = sit[s].keep
          /\ sit'[s].drop = sit[s].drop
          /\ sit'[s].pc = "readkeep" => note[sit[s].drop] # Null
          /\ sit'[s].pc \in {"wipe", "carry"} => sit[s].pc \in {"readkeep", "wipe"}
      BY <1>2, <2>8 DEF ReadDropNote, ReadKeepNote, WipeNote, SitType
    <3> QED BY <1>2, <3>1 DEF SittingHolds, Merging
  <2>9. CASE CarryNote(s)
    <3>1. /\ sit'[s].pc = "delete" /\ sit'[s].keep = sit[s].keep
          /\ ~ InFlight(sit[s].keep)
      BY <1>2, <2>9 DEF CarryNote, SitType
    <3> QED BY <3>1 DEF SittingHolds, Merging
  <2> QED BY <2>3, <2>4, <2>5, <2>6, <2>7, <2>8, <2>9 DEF Review, Merge
<1> QED BY <1>1, <1>3, WaitsFrame DEF WaitsInv

\* A commit writes a note only where no request has inserted one.
LEMMA DeleteKeepsWaits ==
    ASSUME ReviewInv, StarsInv, WaitsInv, NEW s \in Sitting, Delete(s)
    PROVE  WaitsInv'
<1> DEFINE keep == sit[s].keep
           drop == sit[s].drop
<1>1. /\ keep \in Company /\ drop \in Company /\ keep # drop
      /\ \A o \in Sitting \ {s} : sit'[o] = sit[o]
      /\ sit'[s].pc = "report"
  BY DeleteEffect
<1>2. req' = req /\ note' = [note EXCEPT ![keep] = IF sit[s].carried THEN note[drop] ELSE @,
                                         ![drop] = Null]
  BY DEF Delete
<1>3. /\ sit \in [Sitting -> SitType] /\ sit[s] \in SitType /\ sit[s].pc = "delete"
      /\ note \in [Company -> {Null} \cup Note]
  BY DEF ReviewInv, TypeOK, Delete
<1>4. sit[s].carried \in BOOLEAN
  BY <1>3 DEF SitType
<1>5. \A c \in Company : c \notin {keep, drop} => note'[c] = note[c]
  BY <1>2, <1>3
<1>6. note'[drop] = Null /\ (sit[s].carried = FALSE => note'[keep] = note[keep])
  BY <1>1, <1>2, <1>3
<1>7. \A x : InFlight(x)' <=> InFlight(x)
  BY <1>2 DEF InFlight
<1>8. RequestsApart'
  <2>1. ASSUME NEW w \in Request, req[w].pc = "inserted", req[w].on \in Company
        PROVE  note'[req[w].on] = Null
    <3>1. note[req[w].on] = Null /\ InFlight(req[w].on)
      BY <2>1 DEF WaitsInv, RequestsApart, InFlight
    <3>2. sit[s].carried = TRUE => req[w].on # keep
      BY <3>1 DEF WaitsInv, SittingHolds
    <3> QED BY <1>4, <1>5, <1>6, <2>1, <3>1, <3>2
  <2> QED BY <1>2, <2>1 DEF WaitsInv, RequestsApart
<1>9. ASSUME NEW o \in Sitting PROVE SittingHolds(sit[o])'
  <2>1. CASE o = s
    <3>1. PICK told, stale :
            sit' = [sit EXCEPT ![s] = [AtQueue(s) EXCEPT !.pc = "report", !.told = told,
                                                         !.stale = stale]]
      <4> DEFINE told == IF sit[s].carried THEN Null ELSE sit[s].told
                 stale == IF sit[s].moved # {} THEN AtQueue(s).stale \cup {sit[s].keep}
                          ELSE AtQueue(s).stale
      <4>1. sit' = [sit EXCEPT ![s] = [AtQueue(s) EXCEPT !.pc = "report", !.told = told,
                                                         !.stale = stale]]
        BY DEF Delete
      <4> QED BY <4>1
    <3>2. AtQueue(s) \in SitType
      BY <1>3, AtQueueTyped DEF ReviewInv
    <3>3. /\ sit'[s].wiped = AtQueue(s).wiped /\ sit'[s].carried = AtQueue(s).carried
          /\ sit'[s].rescued = AtQueue(s).rescued /\ sit'[s].moved = AtQueue(s).moved
      BY <1>3, <3>1, <3>2 DEF SitType
    <3>4. /\ sit'[s].wiped = FALSE /\ sit'[s].carried = FALSE
          /\ sit'[s].rescued = {} /\ sit'[s].moved = {}
      BY <1>3, <3>3, NothingHeld
    <3> QED BY <1>1, <2>1, <3>4 DEF SittingHolds, Merging
  <2>2. CASE o # s
    <3>1. sit'[o] = sit[o] /\ SittingHolds(sit[o])
      BY <1>1, <2>2 DEF WaitsInv
    <3>2. ASSUME sit[o].pc \in Merging PROVE note'[sit[o].drop] = note[sit[o].drop]
      <4>1. sit[o].drop \in Company /\ sit[o].drop \notin {keep, drop}
        BY <1>3, <2>2, <3>2 DEF ReviewInv, SittingOK, MergeApart, Merging
      <4> QED BY <1>5, <4>1
    <3> QED BY <1>7, <3>1, <3>2 DEF SittingHolds, Merging
  <2> QED BY <2>1, <2>2
<1> QED BY <1>8, <1>9 DEF WaitsInv

LEMMA RequestKeepsWaits ==
    ASSUME ReviewInv, WaitsInv, NEW w \in Request, Post(w) \/ Serve(w) \/ RequestIsVictim(w)
    PROVE  WaitsInv'
<1>1. /\ req \in [Request -> ReqType] /\ req[w] \in ReqType /\ live \subseteq Company
      /\ note \in [Company -> {Null} \cup Note] /\ unused \subseteq Text
  BY DEF ReviewInv, TypeOK
\* A request that has no row in hand afterwards.
<1>2. ASSUME NEW q \in ReqType, q.pc \notin Flying, req' = [req EXCEPT ![w] = q],
             q.pc # "idle" /\ q.on \in Company => q.text # Null, UNCHANGED <<note, sit>>
      PROVE  WaitsInv'
  <2>1. \A v \in Request : req'[v] = IF v = w THEN q ELSE req[v]
    BY <1>1, <1>2
  <2>2. RequestsApart'
    BY <1>2, <2>1 DEF WaitsInv, RequestsApart, Flying
  <2>3. \A x : InFlight(x)' => InFlight(x)
    BY <1>2, <2>1 DEF InFlight, Flying
  <2>4. \A s \in Sitting : SittingHolds(sit[s])'
    BY <1>2, <2>3 DEF WaitsInv, SittingHolds
  <2> QED BY <2>2, <2>4 DEF WaitsInv
<1>3. CASE Post(w)
  <2>1. UNCHANGED <<note, sit>>
    BY <1>3 DEF Post, stored
  <2>2. CASE \E c \in live, t \in NextText \cup {Blank} :
              req' = [req EXCEPT ![w] = [pc |-> "found", on |-> c, text |-> t]]
    <3>1. PICK c \in live, t \in NextText \cup {Blank} :
              req' = [req EXCEPT ![w] = [pc |-> "found", on |-> c, text |-> t]]
      BY <2>2
    <3>2. t \in Note /\ t # Null
      BY <1>1, ReviewAssumption DEF NextText, Note
    <3> DEFINE q == [pc |-> "found", on |-> c, text |-> t]
    <3>3. q \in ReqType /\ q.pc \notin Flying /\ q.text # Null
      BY <1>1, <3>2 DEF ReqType, Flying
    <3>4. req' = [req EXCEPT ![w] = q]
      BY <3>1
    <3> HIDE DEF q
    <3> QED BY <1>2, <2>1, <3>3, <3>4
  <2>3. CASE \E j \in Job : req' = [req EXCEPT ![w] = [pc |-> "found", on |-> j, text |-> Null]]
    <3>1. PICK j \in Job : req' = [req EXCEPT ![w] = [pc |-> "found", on |-> j, text |-> Null]]
      BY <2>3
    <3> DEFINE q == [pc |-> "found", on |-> j, text |-> Null]
    <3>2. q \in ReqType /\ q.pc \notin Flying /\ q.on \notin Company
      BY ReviewAssumption DEF ReqType, Flying
    <3>3. req' = [req EXCEPT ![w] = q]
      BY <3>1
    <3> HIDE DEF q
    <3> QED BY <1>2, <2>1, <3>2, <3>3
  <2> QED BY <1>3, <2>2, <2>3 DEF Post
<1>4. CASE ReferFails(w) \/ RequestIsVictim(w)
  <2>1. req' = [req EXCEPT ![w] = NoRequest] /\ UNCHANGED <<note, sit>>
    BY <1>4 DEF ReferFails, RequestIsVictim, stored
  <2>2. NoRequest \in ReqType /\ NoRequest.pc = "idle"
    BY AwayTyped DEF NoRequest
  <2> QED BY <1>2, <2>1, <2>2 DEF Flying
<1>5. CASE Write(w)
  <2> DEFINE x == req[w].on
             pc == IF Row(x) = Null THEN "inserted" ELSE "written"
  <2>1. /\ req[w].pc = "found" /\ ~ InFlight(x) /\ ~ Taken(x) /\ UNCHANGED <<note, sit>>
        /\ req' = [req EXCEPT ![w].pc = pc]
    BY <1>5 DEF Write, stored
  <2>2. pc = "inserted" /\ x \in Company => note[x] = Null
    BY DEF Row
  <2> HIDE DEF pc
  <2>3. /\ \A v \in Request : /\ req'[v].on = req[v].on /\ req'[v].text = req[v].text
                              /\ v # w => req'[v] = req[v]
        /\ req'[w].pc = pc
    BY <1>1, <2>1 DEF ReqType
  <2>4. \A v \in Request : req[v].pc \in Flying => req[v].on # x
    BY <2>1 DEF InFlight, Flying
  <2>5. RequestsApart'
    <3>1. ASSUME NEW v \in Request
          PROVE  /\ req'[v].pc # "idle" /\ req'[v].on \in Company => req'[v].text # Null
                 /\ req'[v].pc = "inserted" /\ req'[v].on \in Company => note[req'[v].on] = Null
                 /\ \A u \in Request \ {v} :
                     req'[v].pc \in Flying /\ req'[u].pc \in Flying => req'[u].on # req'[v].on
      <4>1. req'[v].pc # "idle" /\ req'[v].on \in Company => req'[v].text # Null
        BY <2>1, <2>3 DEF WaitsInv, RequestsApart
      <4>2. req'[v].pc = "inserted" /\ req'[v].on \in Company => note[req'[v].on] = Null
        BY <2>2, <2>3 DEF WaitsInv, RequestsApart
      <4>3. ASSUME NEW u \in Request \ {v}, req'[v].pc \in Flying, req'[u].pc \in Flying
            PROVE  req'[u].on # req'[v].on
        BY <2>3, <2>4, <4>3 DEF WaitsInv, RequestsApart
      <4> QED BY <4>1, <4>2, <4>3
    <3> QED BY <2>1, <3>1 DEF RequestsApart
  <2>6. ASSUME NEW s \in Sitting PROVE SittingHolds(sit[s])'
    <3>1. ASSUME sit[s].carried = TRUE PROVE ~ InFlight(sit[s].keep)'
      <4>1. sit[s].keep # x /\ ~ InFlight(sit[s].keep)
        BY <2>1, <3>1 DEF Taken, WaitsInv, SittingHolds
      <4> QED BY <2>1, <2>3, <4>1 DEF InFlight
    <3> QED BY <2>1, <3>1 DEF WaitsInv, SittingHolds
  <2> QED BY <2>5, <2>6 DEF WaitsInv
<1>6. CASE Refer(w)
  <2>1. /\ req[w].pc = "inserted" /\ UNCHANGED <<note, sit>>
        /\ req' = [req EXCEPT ![w].pc = "written"]
    BY <1>6 DEF Refer, stored
  <2>2. \A v \in Request : /\ req'[v].on = req[v].on /\ req'[v].text = req[v].text
                           /\ req'[v].pc \in Flying <=> req[v].pc \in Flying
                           /\ req'[v].pc = "inserted" => req[v].pc = "inserted"
                           /\ req'[v].pc # "idle" => req[v].pc # "idle"
    BY <1>1, <2>1 DEF ReqType, Flying
  <2>3. RequestsApart'
    BY <2>1, <2>2 DEF WaitsInv, RequestsApart
  <2>4. \A x : InFlight(x)' => InFlight(x)
    BY <2>2 DEF InFlight, Flying
  <2>5. \A s \in Sitting : SittingHolds(sit[s])'
    BY <2>1, <2>4 DEF WaitsInv, SittingHolds
  <2> QED BY <2>3, <2>5 DEF WaitsInv
<1>7. CASE Answer(w)
  <2> DEFINE x == req[w].on
  <2>1. /\ req[w].pc = "written" /\ req' = [req EXCEPT ![w] = NoRequest]
        /\ x \in Company => note' = [note EXCEPT ![x] = req[w].text]
        /\ x \notin Company => note' = note
    BY <1>7 DEF Answer
  <2>2. \A v \in Request : req'[v] = IF v = w THEN NoRequest ELSE req[v]
    BY <1>1, <2>1
  <2>3. NoRequest.pc = "idle"
    BY DEF NoRequest
  <2>4. \A c \in Company : /\ c # x => note'[c] = note[c]
                           /\ note[c] # Null => note'[c] # Null
    BY <1>1, <2>1 DEF WaitsInv, RequestsApart
  <2>5. RequestsApart'
    <3>1. ASSUME NEW v \in Request \ {w}, req[v].pc = "inserted" PROVE req[v].on # x
      BY <2>1, <3>1 DEF WaitsInv, RequestsApart, Flying
    <3> QED BY <2>2, <2>3, <2>4, <3>1 DEF WaitsInv, RequestsApart, Flying
  <2>6. \A y : InFlight(y)' => InFlight(y)
    BY <2>2, <2>3 DEF InFlight
  <2>7. ASSUME NEW s \in Sitting PROVE SittingHolds(sit[s])'
    <3>1. sit[s] \in SitType /\ SittingHolds(sit[s])
      BY DEF ReviewInv, TypeOK, WaitsInv
    <3> DEFINE q == [sit[s] EXCEPT !.late = @ \cup {x}]
    <3>2. /\ q.pc = sit[s].pc /\ q.keep = sit[s].keep /\ q.drop = sit[s].drop
          /\ q.rescued = sit[s].rescued /\ q.moved = sit[s].moved
          /\ q.wiped = sit[s].wiped /\ q.carried = sit[s].carried
      BY <3>1 DEF SitType
    <3>3. sit'[s] = IF HasRead(s, x) THEN q ELSE sit[s]
      BY <1>7 DEF Answer
    <3> HIDE DEF q
    <3>4. /\ sit'[s].pc = sit[s].pc /\ sit'[s].keep = sit[s].keep
          /\ sit'[s].drop = sit[s].drop
          /\ sit'[s].rescued = sit[s].rescued /\ sit'[s].moved = sit[s].moved
          /\ sit'[s].wiped = sit[s].wiped /\ sit'[s].carried = sit[s].carried
      BY <3>2, <3>3
    <3>5. sit[s].pc \in {"readkeep", "wipe", "carry"} => note'[sit[s].drop] # Null
      <4>1. sit[s].pc \in Merging => sit[s].drop \in Company
        BY DEF ReviewInv, SittingOK
      <4> QED BY <2>4, <3>1, <4>1 DEF SittingHolds, Merging
    <3> QED BY <2>6, <3>1, <3>4, <3>5 DEF SittingHolds
  <2> QED BY <2>5, <2>7 DEF WaitsInv
<1> QED BY <1>3, <1>4, <1>5, <1>6, <1>7 DEF Serve

LEMMA InitWaits == Init => WaitsInv
<1> SUFFICES ASSUME Init PROVE WaitsInv
  OBVIOUS
<1>1. \A w \in Request : req[w].pc = "idle"
  BY DEF Init, NoRequest
<1>2. \A s \in Sitting : /\ sit[s].pc = "away" /\ sit[s].wiped = FALSE /\ sit[s].carried = FALSE
                         /\ sit[s].rescued = {} /\ sit[s].moved = {}
  BY DEF Init, Away
<1> QED BY <1>1, <1>2 DEF WaitsInv, RequestsApart, SittingHolds, Flying, Merging

LEMMA NextKeepsWaits == ReviewInv /\ StarsInv /\ WaitsInv /\ [Next]_vars => WaitsInv'
<1> SUFFICES ASSUME ReviewInv, StarsInv, WaitsInv, [Next]_vars PROVE WaitsInv'
  OBVIOUS
<1>1. ASSUME NEW w \in Request, Post(w) \/ Serve(w) \/ RequestIsVictim(w)
      PROVE  WaitsInv'
  BY <1>1, RequestKeepsWaits
<1>2. ASSUME NEW s \in Sitting, Review(s) \/ Merge(s) \/ Kill(s)
      PROVE  WaitsInv'
  BY <1>2, SittingKeepsWaits, DeleteKeepsWaits
<1>3. CASE UNCHANGED vars
  BY <1>3, WaitsFrame DEF vars, WaitsInv
<1> QED BY <1>1, <1>2, <1>3 DEF Next

\* However many sittings merge and however many requests save and star at once, they
\* never all wait: what blocks a merge is a request that waits for nobody else, or one
\* PostgreSQL ends, or itself (merge_companies, save_note, toggle_bookmark).
THEOREM ReviewsNeverDeadlock == Spec => []SomebodyMayGo
<1>1. ReviewInv /\ StarsInv /\ WaitsInv => SomebodyMayGo
  BY WaitingEnds
<1> QED BY <1>1, InitReview, NextKeeps, InitStars, NextKeepsStars, InitWaits, NextKeepsWaits,
           PTL DEF Spec
=============================================================================
