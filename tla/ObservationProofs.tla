-------------------------- MODULE ObservationProofs --------------------------
(***************************************************************************)
(* Proofs about Observation, for any number of files, owners, calls and    *)
(* contents: reports are handed over once or accounted for, and a change   *)
(* is put down to the call that wrote it, drift to no call.                *)
(***************************************************************************)
EXTENDS Observation, TLAPS

------------------------------------------------------------------------------
(* Types. *)

Content == Digests \union {NoDigest}
State == [digest : Content, stat : Nat]
Holder == Owners \union {NoOwner}
Line == [Epochs -> [seq : Nat, digest : Content]]
EventIds == Calls \X {"drift", "post"} \X Files

Partial(S, T) == UNION {[D -> T] : D \in SUBSET S}

Seen == [locked : BOOLEAN, declared : BOOLEAN, holder : Holder, epoch : Epochs,
         line : Line, state : State \union {NoState}]

PathRow == [locked : BOOLEAN, declared : BOOLEAN, holder : Holder, epoch : Epochs,
            seq : Nat, state : State]

CallRow == [tpre : Nat, ended : Nat \union {NoTime}, state : {"open", "dead", "posted"},
            paths : Partial(Files, PathRow), post : Partial(Files, Nat)]

Report == [event : EventIds, to : Owners, at : Nat, delivered : Nat \union {NoTime},
           acted : BOOLEAN]

Process == [pc : {"idle", "read", "drift", "pending", "deliver", "record", "running",
                  "post", "done"},
            tpre : Nat, obs : Partial(Files, Seen), pending : SUBSET (EventIds \X Owners),
            noted : SUBSET (Files \X Epochs), lost : BOOLEAN]

(* A hook that has read its files. *)
HasRead(c) == hook[c].pc \in {"drift", "pending", "deliver", "record", "post"}

TypeInv ==
    /\ disk \in [Files -> State]
    /\ wrote \subseteq [file : Files, digest : Content, stat : Nat, by : Calls \union {Outside}]
    /\ writes \in [Files -> [all : Nat, outside : Nat]]
    /\ lock \in [Files -> [owner : Holder, epoch : Epochs, last : Epochs]]
    /\ path_seq \in [Files -> Line]
    /\ observed \in [Files -> [Epochs -> State \union {NoState}]]
    /\ calls \in Partial(Calls, CallRow)
    /\ hook \in [Calls -> Process]
    /\ \A c \in Calls : HasRead(c) => \A f \in DOMAIN hook[c].obs : hook[c].obs[f].state \in State
    /\ reports \subseteq Report
    /\ owner \in [Calls -> Owners] /\ dead \subseteq Owners /\ now \in Nat

------------------------------------------------------------------------------
(* Reports. *)

(* An event is filed once: by the drift pass or the post of its call. *)
FiledOnce ==
    \A id \in filed :
        /\ id \in EventIds \X Owners
        /\ id[1][2] = "drift" => hook[id[1][1]].pc \notin {"idle", "read", "drift"}
        /\ id[1][2] = "post" => hook[id[1][1]].pc = "done"

ReportKeys ==
    /\ \A r, q \in reports : ReportId(r) = ReportId(q) => r = q
    /\ {ReportId(r) : r \in reports} \subseteq filed
    /\ expired \subseteq filed
    /\ \A h \in handed : h[1] \in filed

WaitingOrHanded ==
    /\ \A r \in reports : r.delivered = NoTime =>
           ReportId(r) \notin expired /\ \A h \in handed : h[1] # ReportId(r)
    /\ \A r \in reports : r.delivered # NoTime => \E c \in Calls : <<ReportId(r), c>> \in handed

ReportInv == FiledOnce /\ ReportKeys /\ WaitingOrHanded /\ HandedOnce /\ ReportsAccounted

------------------------------------------------------------------------------
(* Attribution. *)

Wrote(f, d) == \E w \in wrote : w.file = f /\ w.digest = d

WroteState(f, s) == \E w \in wrote : w.file = f /\ w.digest = s.digest /\ w.stat = s.stat

(* What is on disk, was observed or was numbered has been written, and by  *)
(* a tool only after the record of its call.                               *)
WritesInv ==
    /\ \A w \in wrote : w.stat <= writes[w.file].all + 1
    /\ \A w \in wrote : w.by \in Calls => hook[w.by].pc \in {"running", "post", "done"}
    /\ \A f \in Files : WroteState(f, disk[f])
    /\ \A c \in Calls : HasRead(c) =>
           \A f \in DOMAIN hook[c].obs : WroteState(f, hook[c].obs[f].state)
    /\ \A c \in DOMAIN calls : calls[c].state # "posted" =>
           \A f \in DOMAIN calls[c].paths : WroteState(f, calls[c].paths[f].state)
    /\ \A f \in Files, e \in Epochs : path_seq[f][e].seq > 0 => Wrote(f, path_seq[f][e].digest)

(* Tenures are numbered upwards, and no observation is of a later one. *)
TenureInv ==
    /\ \A f \in Files : /\ lock[f].epoch \in {0, lock[f].last}
                        /\ lock[f].owner = NoOwner <=> lock[f].epoch = 0
    /\ \A c \in Calls, f \in Files, e \in Epochs :
           <<f, e>> \in hook[c].noted => e <= lock[f].last
    /\ \A c \in Calls : \A f \in DOMAIN hook[c].obs :
           /\ hook[c].obs[f].epoch <= lock[f].last
           /\ hook[c].pc \in {"read", "drift"} /\ hook[c].obs[f].locked => hook[c].obs[f].epoch # 0
    /\ \A c \in DOMAIN calls : \A f \in DOMAIN calls[c].paths :
           calls[c].paths[f].epoch <= lock[f].last

(* The row of a call follows its process. *)
RowsInv ==
    /\ \A c \in Calls :
           /\ hook[c].pc \notin {"running", "post", "done"} =>
                  hook[c].noted = {} /\ c \notin DOMAIN calls /\ ~hook[c].lost
           /\ hook[c].pc \in {"running", "post"} /\ ~hook[c].lost => Open(c)
    /\ \A c \in DOMAIN calls :
           /\ hook[c].pc = "done" <=> calls[c].state = "posted"
           /\ \A f \in Files, e \in Epochs : <<f, e>> \in hook[c].noted =>
                  f \in DOMAIN calls[c].paths /\ calls[c].paths[f].epoch = e
           /\ hook[c].pc = "post" => DOMAIN calls[c].paths \subseteq DOMAIN hook[c].obs
           /\ calls[c].state = "posted" => DOMAIN calls[c].paths \subseteq DOMAIN calls[c].post
                                           /\ calls[c].ended \in Nat

(* Numbers only rise. *)
SeqInv ==
    /\ \A c \in Calls : \A f \in DOMAIN hook[c].obs, e \in Epochs :
           hook[c].obs[f].line[e].seq <= path_seq[f][e].seq
    /\ \A c \in DOMAIN calls : \A f \in DOMAIN calls[c].paths :
           /\ calls[c].paths[f].seq <= path_seq[f][calls[c].paths[f].epoch].seq
           /\ f \in DOMAIN calls[c].post =>
                  calls[c].post[f] <= path_seq[f][calls[c].paths[f].epoch].seq
    /\ \A c \in DOMAIN calls : DOMAIN calls[c].post \subseteq DOMAIN calls[c].paths

Timely ==
    /\ \A c \in Calls : hook[c].tpre <= now
    /\ \A c \in Calls : Preparing(c) /\ Alive(c) => now <= hook[c].tpre + MaxHook
    /\ \A c \in DOMAIN calls : calls[c].tpre <= now

BookInv == TypeInv /\ WritesInv /\ TenureInv /\ RowsInv /\ SeqInv /\ Timely

(* Every write of the bytes on disk is c's. *)
Author(c, f) == \A w \in wrote : w.file = f /\ w.digest = disk[f].digest => w.by = c

(* They were written once. *)
Sole(c, f) ==
    /\ disk[f].digest # NoDigest
    /\ \A w \in wrote : w.file = f /\ w.digest = disk[f].digest => w.by = c /\ w.stat = disk[f].stat

(* In the tenure it was recorded in, a post sees the file again, and what  *)
(* it leaves as last seen is what it wrote.                                *)
SeenInv ==
    \A c \in Calls, f \in Files, e \in Epochs :
        <<f, e>> \in hook[c].noted /\ lock[f].epoch = e /\ e # 0 =>
            /\ hook[c].pc = "post" =>
                   f \in DOMAIN hook[c].obs /\ hook[c].obs[f].locked /\ hook[c].obs[f].epoch = e
            /\ hook[c].pc = "done" /\ ~hook[c].lost /\ f \notin overtaken /\ Author(c, f) =>
                   observed[f][e] = disk[f]

(* Whoever looked after the bytes on disk were numbered has read them. *)
NumberInv ==
    \A c \in Calls, f \in Files, e \in Epochs :
        Sole(c, f) /\ path_seq[f][e].seq > 0 /\ path_seq[f][e].digest = disk[f].digest =>
            /\ \A k \in Calls :
                   /\ hook[k].pc \in {"drift", "pending", "deliver", "record"}
                   /\ f \in DOMAIN hook[k].obs
                   /\ hook[k].obs[f].line[e].seq >= path_seq[f][e].seq
                   => hook[k].obs[f].state = disk[f]
            /\ \A k \in DOMAIN calls :
                   /\ calls[k].state # "posted"
                   /\ f \in DOMAIN calls[k].paths /\ calls[k].paths[f].epoch = e
                   /\ calls[k].paths[f].seq >= path_seq[f][e].seq
                   => calls[k].paths[f].state = disk[f]
            /\ <<f, e>> \in hook[c].noted /\ c \in DOMAIN calls =>
                   calls[c].paths[f].seq < path_seq[f][e].seq

(* A writer's record has other bytes; its post numbered the ones it wrote. *)
AuthorInv ==
    \A c \in Calls, f \in Files : Sole(c, f) /\ c \in DOMAIN calls =>
        /\ calls[c].state # "posted" /\ f \in DOMAIN calls[c].paths =>
               calls[c].paths[f].state.digest # disk[f].digest
        /\ calls[c].state = "posted" /\ ~hook[c].lost /\ f \notin overtaken =>
               \A e \in Epochs : <<f, e>> \in hook[c].noted =>
                   /\ path_seq[f][e].seq > 0 /\ path_seq[f][e].digest = disk[f].digest
                   /\ f \in DOMAIN calls[c].post /\ calls[c].post[f] = path_seq[f][e].seq

(* Whoever looked after a writer's post has read what it wrote, also when  *)
(* the writer's row is gone.                                               *)
ReadInv ==
    \A c \in Calls, f \in Files : Sole(c, f) /\ hook[c].pc = "done" /\ ~hook[c].lost =>
        /\ \A k \in Calls :
               /\ hook[k].pc \in {"drift", "pending", "deliver", "record"} /\ Alive(k)
               /\ f \in DOMAIN hook[k].obs
               /\ c \in DOMAIN calls => hook[k].tpre > calls[c].ended
               => hook[k].obs[f].state = disk[f]
        /\ \A k \in DOMAIN calls :
               /\ Open(k) /\ f \in DOMAIN calls[k].paths
               /\ c \in DOMAIN calls => calls[k].tpre > calls[c].ended
               => calls[k].paths[f].state = disk[f]

(* The properties, with the writes the events are about. *)
EventsInv ==
    /\ \A e \in events : e.call \in Calls /\ e.file \in Files /\ e.epoch \in Epochs
                         /\ Wrote(e.file, e.post)
    /\ NamesTheWriter /\ DriftIsUncovered

ObsInv == BookInv /\ SeenInv /\ NumberInv /\ AuthorInv /\ ReadInv /\ EventsInv

------------------------------------------------------------------------------
LEMMA PartialIn ==
    ASSUME NEW S, NEW T, NEW D, D \subseteq S, NEW g \in [D -> T]
    PROVE  g \in Partial(S, T)
  BY DEF Partial

LEMMA PartialOut ==
    ASSUME NEW S, NEW T, NEW g \in Partial(S, T)
    PROVE  DOMAIN g \subseteq S /\ g \in [DOMAIN g -> T]
  BY DEF Partial

LEMMA EmptyPartial ==
    ASSUME NEW S, NEW T
    PROVE  <<>> \in Partial(S, T) /\ DOMAIN <<>> = {}
PROOF
  <1>1. <<>> \in [{} -> T]
    OBVIOUS
  <1> QED BY <1>1, PartialIn

(* Only the process of c moves, to these values. *)
Becomes(c, pc, tpre, obs, pending, noted) ==
    /\ hook' \in [Calls -> Process]
    /\ \A d \in Calls : d # c => hook'[d] = hook[d]
    /\ hook'[c].pc = pc /\ hook'[c].tpre = tpre /\ hook'[c].obs = obs
    /\ hook'[c].pending = pending /\ hook'[c].noted = noted

LEMMA BecomesBy ==
    ASSUME hook \in [Calls -> Process], NEW c \in Calls, NEW h \in Process,
           hook' = [hook EXCEPT ![c] = h]
    PROVE  Becomes(c, h.pc, h.tpre, h.obs, h.pending, h.noted) /\ hook'[c].lost = h.lost
  BY DEF Becomes

LEMMA LookTyped ==
    ASSUME TypeInv, NEW D \in SUBSET Files
    PROVE  /\ Look(D) \in Partial(Files, Seen)
           /\ DOMAIN Look(D) = Watched(D)
           /\ \A f \in Watched(D) :
                  /\ Look(D)[f].locked = (lock[f].owner # NoOwner)
                  /\ Look(D)[f].epoch = lock[f].epoch
                  /\ Look(D)[f].line = path_seq[f]
PROOF
  <1>1. Watched(D) \subseteq Files
    BY DEF Watched
  <1>2. Look(D) \in [Watched(D) -> Seen]
    BY <1>1 DEF Look, Seen, TypeInv
  <1> QED BY <1>1, <1>2, PartialIn DEF Look

------------------------------------------------------------------------------
(* What each step of a hook makes of its process. *)

LEMMA LookMoves ==
    ASSUME TypeInv, NEW c \in Calls, HookLook(c)
    PROVE  /\ Becomes(c, "read", now, Look(Declares[c]), hook[c].pending, hook[c].noted)
           /\ hook'[c].lost = hook[c].lost
PROOF
  <1> DEFINE o == Look(Declares[c])
             h == [hook[c] EXCEPT !.pc = "read", !.tpre = now, !.obs = o]
  <1>1. hook \in [Calls -> Process] /\ hook[c] \in Process /\ now \in Nat
    BY DEF TypeInv
  <1>2. o \in Partial(Files, Seen)
    BY LookTyped, ObservationAssumption
  <1>3. hook' = [hook EXCEPT ![c] = h]
    BY <1>1 DEF HookLook
  <1> HIDE DEF o
  <1>4. /\ h \in Process /\ h.pc = "read" /\ h.tpre = now /\ h.obs = o
        /\ h.pending = hook[c].pending /\ h.noted = hook[c].noted /\ h.lost = hook[c].lost
    BY <1>1, <1>2 DEF Process
  <1> HIDE DEF h
  <1>5. Becomes(c, h.pc, h.tpre, h.obs, h.pending, h.noted) /\ hook'[c].lost = h.lost
    BY <1>1, <1>3, <1>4, BecomesBy
  <1> QED BY <1>4, <1>5 DEF o

(* What a read makes of an observation. *)
ReadNow(o) == [f \in DOMAIN o |-> [o[f] EXCEPT !.state = disk[f]]]

LEMMA ReadTyped ==
    ASSUME TypeInv, NEW o \in Partial(Files, Seen)
    PROVE  /\ ReadNow(o) \in Partial(Files, Seen) /\ DOMAIN ReadNow(o) = DOMAIN o
           /\ \A f \in DOMAIN o :
                  /\ ReadNow(o)[f].state = disk[f] /\ disk[f] \in State
                  /\ ReadNow(o)[f].locked = o[f].locked /\ ReadNow(o)[f].epoch = o[f].epoch
                  /\ ReadNow(o)[f].line = o[f].line
PROOF
  <1>1. DOMAIN o \subseteq Files /\ o \in [DOMAIN o -> Seen]
    BY PartialOut
  <1>2. disk \in [Files -> State]
    BY DEF TypeInv
  <1>3. ASSUME NEW f \in DOMAIN o
        PROVE  /\ [o[f] EXCEPT !.state = disk[f]] \in Seen
               /\ [o[f] EXCEPT !.state = disk[f]].state = disk[f]
               /\ [o[f] EXCEPT !.state = disk[f]].locked = o[f].locked
               /\ [o[f] EXCEPT !.state = disk[f]].epoch = o[f].epoch
               /\ [o[f] EXCEPT !.state = disk[f]].line = o[f].line
    <2>1. o[f] \in Seen /\ disk[f] \in State \union {NoState}
      BY <1>1, <1>2
    <2> QED BY <2>1 DEF Seen
  <1>4. ReadNow(o) \in [DOMAIN o -> Seen]
    BY <1>3 DEF ReadNow
  <1>5. \A f \in DOMAIN o : ReadNow(o)[f] = [o[f] EXCEPT !.state = disk[f]]
    BY DEF ReadNow
  <1>6. ReadNow(o) \in Partial(Files, Seen)
    BY <1>1, <1>4, PartialIn
  <1>7. DOMAIN ReadNow(o) = DOMAIN o
    BY DEF ReadNow
  <1> QED BY <1>1, <1>2, <1>3, <1>5, <1>6, <1>7

LEMMA ReadMoves ==
    ASSUME TypeInv, NEW c \in Calls, HookRead(c)
    PROVE  /\ Becomes(c, "drift", hook[c].tpre, ReadNow(hook[c].obs), hook[c].pending, hook[c].noted)
           /\ hook'[c].lost = hook[c].lost
PROOF
  <1> DEFINE o == ReadNow(hook[c].obs)
             h == [hook[c] EXCEPT !.pc = "drift", !.obs = o]
  <1>1. hook \in [Calls -> Process] /\ hook[c] \in Process
    BY DEF TypeInv
  <1>2. o \in Partial(Files, Seen)
    BY <1>1, ReadTyped DEF Process
  <1>3. hook' = [hook EXCEPT ![c] = h]
    BY <1>1 DEF HookRead, ReadNow, Process
  <1> HIDE DEF o
  <1>4. /\ h \in Process /\ h.pc = "drift" /\ h.tpre = hook[c].tpre /\ h.obs = o
        /\ h.pending = hook[c].pending /\ h.noted = hook[c].noted /\ h.lost = hook[c].lost
    BY <1>1, <1>2 DEF Process
  <1> HIDE DEF h
  <1>5. Becomes(c, h.pc, h.tpre, h.obs, h.pending, h.noted) /\ hook'[c].lost = h.lost
    BY <1>1, <1>3, <1>4, BecomesBy
  <1> QED BY <1>4, <1>5 DEF o

(* The steps between the read and the record. *)
LEMMA PassMoves ==
    ASSUME TypeInv, NEW c \in Calls,
           \/ HookDrift(c) \/ HookPending(c) \/ HookDeliver(c) \/ HookDeliverFails(c)
    PROVE  \E pc \in {"pending", "deliver", "record"}, pend \in SUBSET (EventIds \X Owners) :
               /\ Becomes(c, pc, hook[c].tpre, hook[c].obs, pend, hook[c].noted)
               /\ hook'[c].lost = hook[c].lost
               /\ hook[c].pc \in {"drift", "pending", "deliver"} /\ Alive(c)
PROOF
  <1>1. hook \in [Calls -> Process] /\ hook[c] \in Process
    BY DEF TypeInv
  <1>2. ASSUME NEW pc \in {"pending", "deliver", "record"}, NEW pend \in SUBSET (EventIds \X Owners),
               hook' = [hook EXCEPT ![c] = [hook[c] EXCEPT !.pc = pc, !.pending = pend]]
        PROVE  /\ Becomes(c, pc, hook[c].tpre, hook[c].obs, pend, hook[c].noted)
               /\ hook'[c].lost = hook[c].lost
    <2> DEFINE h == [hook[c] EXCEPT !.pc = pc, !.pending = pend]
    <2>1. /\ h \in Process /\ h.pc = pc /\ h.tpre = hook[c].tpre /\ h.obs = hook[c].obs
          /\ h.pending = pend /\ h.noted = hook[c].noted /\ h.lost = hook[c].lost
      BY <1>1 DEF Process
    <2>2. hook' = [hook EXCEPT ![c] = h]
      BY <1>2
    <2> HIDE DEF h
    <2>3. Becomes(c, h.pc, h.tpre, h.obs, h.pending, h.noted) /\ hook'[c].lost = h.lost
      BY <1>1, <2>1, <2>2, BecomesBy
    <2> QED BY <2>1, <2>3
  <1>3. hook[c].pc \in {"drift", "pending", "deliver"} /\ Alive(c)
    BY DEF HookDrift, HookPending, HookDeliver, HookDeliverFails
  <1>4. \E pc \in {"pending", "deliver", "record"}, pend \in SUBSET (EventIds \X Owners) :
            hook' = [hook EXCEPT ![c] = [hook[c] EXCEPT !.pc = pc, !.pending = pend]]
    <2>1. CASE HookDrift(c)
      <3>1. hook' = [hook EXCEPT ![c] = [hook[c] EXCEPT !.pc = AfterDrift(c),
                                                      !.pending = hook[c].pending]]
        BY <1>1, <2>1 DEF HookDrift, Process
      <3>2. hook[c].pending \in SUBSET (EventIds \X Owners)
        BY <1>1 DEF Process
      <3> QED BY <3>1, <3>2 DEF AfterDrift
    <2>2. CASE HookPending(c)
      <3> DEFINE waiting == {ReportId(r) : r \in {q \in reports : q.to = owner[c]
                                                                /\ q.delivered = NoTime}}
                 pc == IF waiting = {} THEN "record" ELSE "deliver"
      <3>1. waiting \in SUBSET (EventIds \X Owners)
        BY DEF ReportId, TypeInv, Report
      <3>2. hook' = [hook EXCEPT ![c] = [hook[c] EXCEPT !.pc = pc, !.pending = waiting]]
        BY <1>1, <2>2 DEF HookPending
      <3> QED BY <3>1, <3>2
    <2>3. CASE HookDeliver(c) \/ HookDeliverFails(c)
      <3>1. hook' = [hook EXCEPT ![c] = [hook[c] EXCEPT !.pc = "record", !.pending = {}]]
        BY <1>1, <2>3 DEF HookDeliver, HookDeliverFails
      <3> QED BY <3>1
    <2> QED BY <2>1, <2>2, <2>3
  <1> QED BY <1>2, <1>3, <1>4

(* What a record leaves: the row of the call, built from what was read. *)
Noted(o) == {<<f, o[f].epoch>> : f \in DOMAIN o}

RowOf(o, f) == [locked |-> o[f].locked, declared |-> o[f].declared, holder |-> o[f].holder,
                epoch |-> o[f].epoch, seq |-> SeqPre(o[f], f), state |-> o[f].state]

LEMMA RecordMoves ==
    ASSUME TypeInv, NEW c \in Calls, HookRecord(c)
    PROVE  /\ Becomes(c, "running", 0, <<>>, hook[c].pending, Noted(hook[c].obs))
           /\ hook'[c].lost = hook[c].lost
PROOF
  <1> DEFINE n == Noted(hook[c].obs)
             h == [hook[c] EXCEPT !.pc = "running", !.obs = <<>>, !.tpre = 0, !.noted = n]
  <1>1. hook \in [Calls -> Process] /\ hook[c] \in Process
    BY DEF TypeInv
  <1>2. n \in SUBSET (Files \X Epochs)
    <2>1. hook[c].obs \in Partial(Files, Seen)
      BY <1>1 DEF Process
    <2>2. DOMAIN hook[c].obs \subseteq Files /\ hook[c].obs \in [DOMAIN hook[c].obs -> Seen]
      BY <2>1, PartialOut
    <2>3. \A f \in DOMAIN hook[c].obs : hook[c].obs[f].epoch \in Epochs
      BY <2>2 DEF Seen
    <2> QED BY <2>2, <2>3 DEF Noted
  <1>3. hook' = [hook EXCEPT ![c] = h]
    BY <1>1 DEF HookRecord, Noted
  <1> HIDE DEF n
  <1>4. /\ h \in Process /\ h.pc = "running" /\ h.tpre = 0 /\ h.obs = <<>>
        /\ h.pending = hook[c].pending /\ h.noted = n /\ h.lost = hook[c].lost
    BY <1>1, <1>2, EmptyPartial DEF Process
  <1> HIDE DEF h
  <1>5. Becomes(c, h.pc, h.tpre, h.obs, h.pending, h.noted) /\ hook'[c].lost = h.lost
    BY <1>1, <1>3, <1>4, BecomesBy
  <1> QED BY <1>4, <1>5 DEF n

LEMMA RowTyped ==
    ASSUME TypeInv, NEW o \in Partial(Files, Seen), NEW f \in DOMAIN o, o[f].state \in State
    PROVE  /\ RowOf(o, f) \in PathRow
           /\ RowOf(o, f).epoch = o[f].epoch /\ RowOf(o, f).state = o[f].state
           /\ RowOf(o, f).seq <= o[f].line[o[f].epoch].seq
           /\ RowOf(o, f).seq <= path_seq[f][o[f].epoch].seq
           /\ RowOf(o, f).seq \in {o[f].line[o[f].epoch].seq, path_seq[f][o[f].epoch].seq}
PROOF
  <1>1. f \in Files /\ o[f] \in Seen
    BY PartialOut
  <1>2. o[f].epoch \in Epochs /\ o[f].line \in Line /\ path_seq[f] \in Line
    BY <1>1 DEF Seen, TypeInv
  <1>3. o[f].line[o[f].epoch].seq \in Nat /\ path_seq[f][o[f].epoch].seq \in Nat
    BY <1>2 DEF Line
  <1>4. /\ SeqPre(o[f], f) \in Nat
        /\ SeqPre(o[f], f) <= o[f].line[o[f].epoch].seq
        /\ SeqPre(o[f], f) <= path_seq[f][o[f].epoch].seq
        /\ SeqPre(o[f], f) \in {o[f].line[o[f].epoch].seq, path_seq[f][o[f].epoch].seq}
    BY <1>3 DEF SeqPre
  <1> QED BY <1>1, <1>4 DEF RowOf, PathRow, Seen

LEMMA RecordRows ==
    ASSUME TypeInv, NEW c \in Calls, HookRecord(c)
    PROVE  /\ calls' \in Partial(Calls, CallRow)
           /\ DOMAIN calls' = DOMAIN calls \union {c}
           /\ \A k \in DOMAIN calls : k # c => calls'[k] = calls[k]
           /\ calls'[c].tpre = hook[c].tpre /\ calls'[c].state = "open"
           /\ calls'[c].post = <<>>
           /\ DOMAIN calls'[c].paths = DOMAIN hook[c].obs
           /\ \A f \in DOMAIN hook[c].obs : calls'[c].paths[f] = RowOf(hook[c].obs, f)
PROOF
  <1> DEFINE o == hook[c].obs
             row == [tpre |-> hook[c].tpre, ended |-> NoTime, state |-> "open",
                     paths |-> [f \in DOMAIN o |-> RowOf(o, f)], post |-> <<>>]
  <1>1. /\ hook[c] \in Process /\ o \in Partial(Files, Seen)
        /\ \A f \in DOMAIN o : o[f].state \in State
    BY DEF TypeInv, HasRead, HookRecord, Process
  <1>2. calls' = [k \in DOMAIN calls \union {c} |-> IF k = c THEN row ELSE calls[k]]
    BY DEF HookRecord, RowOf
  <1>3. DOMAIN calls \subseteq Calls /\ calls \in [DOMAIN calls -> CallRow]
    BY PartialOut DEF TypeInv
  <1>4. DOMAIN o \subseteq Files
    BY <1>1, PartialOut
  <1>5. [f \in DOMAIN o |-> RowOf(o, f)] \in Partial(Files, PathRow)
    <2>1. \A f \in DOMAIN o : RowOf(o, f) \in PathRow
      BY <1>1, RowTyped
    <2>2. [f \in DOMAIN o |-> RowOf(o, f)] \in [DOMAIN o -> PathRow]
      BY <2>1
    <2> QED BY <2>2, <1>4, PartialIn
  <1>6. hook[c].tpre \in Nat
    BY <1>1 DEF Process
  <1>7. row \in CallRow
    BY <1>5, <1>6, EmptyPartial DEF CallRow
  <1>8. /\ row.tpre = hook[c].tpre /\ row.state = "open" /\ row.post = <<>>
        /\ DOMAIN row.paths = DOMAIN o /\ \A f \in DOMAIN o : row.paths[f] = RowOf(o, f)
    OBVIOUS
  <1> HIDE DEF row
  <1>9. calls' \in [DOMAIN calls \union {c} -> CallRow]
    BY <1>2, <1>3, <1>7
  <1>10. calls' \in Partial(Calls, CallRow)
    BY <1>3, <1>9, PartialIn
  <1>11. calls'[c] = row
    BY <1>2
  <1> QED BY <1>2, <1>8, <1>10, <1>11

LEMMA FailOpenMoves ==
    ASSUME TypeInv, NEW c \in Calls, HookFailOpen(c)
    PROVE  Becomes(c, "done", 0, <<>>, {}, {})
PROOF
  <1> DEFINE h == [Idle EXCEPT !.pc = "done"]
  <1>1. hook \in [Calls -> Process]
    BY DEF TypeInv
  <1>2. hook' = [hook EXCEPT ![c] = h]
    BY DEF HookFailOpen
  <1>3. /\ h \in Process /\ h.pc = "done" /\ h.tpre = 0 /\ h.obs = <<>>
        /\ h.pending = {} /\ h.noted = {}
    BY EmptyPartial DEF Process, Idle
  <1> HIDE DEF h
  <1>4. Becomes(c, h.pc, h.tpre, h.obs, h.pending, h.noted)
    BY <1>1, <1>2, <1>3, BecomesBy
  <1> QED BY <1>3, <1>4

LEMMA RecordedTyped ==
    ASSUME TypeInv, NEW c \in Calls
    PROVE  /\ DOMAIN Recorded(c) \subseteq Files
           /\ \A f \in DOMAIN Recorded(c) : Recorded(c)[f] \in PathRow
           /\ c \in DOMAIN calls => Recorded(c) = calls[c].paths
PROOF
  <1>1. CASE c \in DOMAIN calls
    <2>1. calls[c] \in CallRow
      BY <1>1, PartialOut DEF TypeInv
    <2>2. calls[c].paths \in Partial(Files, PathRow)
      BY <2>1 DEF CallRow
    <2> QED BY <1>1, <2>2, PartialOut DEF Recorded
  <1>2. CASE c \notin DOMAIN calls
    BY <1>2 DEF Recorded
  <1> QED BY <1>1, <1>2

(* What a post sees. *)
PostSees(c) ==
    [f \in Watched({}) \union DOMAIN Recorded(c) |->
        IF f \in Watched({})
        THEN ReadNow(Look({}))[f]
        ELSE [locked |-> Recorded(c)[f].locked, declared |-> Recorded(c)[f].declared,
              holder |-> Recorded(c)[f].holder, epoch |-> Recorded(c)[f].epoch,
              line |-> path_seq[f], state |-> disk[f]]]

LEMMA PostSeesTyped ==
    ASSUME TypeInv, NEW c \in Calls
    PROVE  /\ PostSees(c) \in Partial(Files, Seen)
           /\ DOMAIN PostSees(c) = Watched({}) \union DOMAIN Recorded(c)
           /\ DOMAIN PostSees(c) \subseteq Files
           /\ \A f \in DOMAIN PostSees(c) :
                  /\ PostSees(c)[f].state = disk[f] /\ disk[f] \in State
                  /\ PostSees(c)[f].line = path_seq[f]
                  /\ f \in Watched({}) => /\ PostSees(c)[f].locked = (lock[f].owner # NoOwner)
                                          /\ PostSees(c)[f].epoch = lock[f].epoch
                  /\ f \notin Watched({}) => /\ PostSees(c)[f].epoch = Recorded(c)[f].epoch
                                             /\ f \in DOMAIN Recorded(c)
PROOF
  <1> DEFINE D == Watched({}) \union DOMAIN Recorded(c)
             L == Look({})
  <1>1. D \subseteq Files
    BY RecordedTyped DEF Watched
  <1>2. ASSUME NEW f \in Files
        PROVE  /\ disk[f] \in State /\ path_seq[f] \in Line
    BY DEF TypeInv
  <1>3. /\ L \in Partial(Files, Seen) /\ DOMAIN L = Watched({})
        /\ \A f \in Watched({}) : /\ L[f].locked = (lock[f].owner # NoOwner)
                                  /\ L[f].epoch = lock[f].epoch /\ L[f].line = path_seq[f]
    BY LookTyped
  <1> HIDE DEF L
  <1>4. /\ ReadNow(L) \in Partial(Files, Seen) /\ DOMAIN ReadNow(L) = Watched({})
        /\ \A f \in Watched({}) :
               /\ ReadNow(L)[f].state = disk[f]
               /\ ReadNow(L)[f].locked = L[f].locked /\ ReadNow(L)[f].epoch = L[f].epoch
               /\ ReadNow(L)[f].line = L[f].line
    BY <1>3, ReadTyped
  <1>5. \A f \in Watched({}) : ReadNow(L)[f] \in Seen
    BY <1>4, PartialOut
  <1>6. ASSUME NEW f \in D
        PROVE  /\ PostSees(c)[f] \in Seen
               /\ PostSees(c)[f].state = disk[f] /\ PostSees(c)[f].line = path_seq[f]
               /\ f \in Watched({}) => /\ PostSees(c)[f].locked = (lock[f].owner # NoOwner)
                                       /\ PostSees(c)[f].epoch = lock[f].epoch
               /\ f \notin Watched({}) => PostSees(c)[f].epoch = Recorded(c)[f].epoch
    <2>1. CASE f \in Watched({})
      <3>1. PostSees(c)[f] = ReadNow(L)[f]
        BY <2>1 DEF PostSees, L
      <3> QED BY <2>1, <3>1, <1>3, <1>4, <1>5
    <2>2. CASE f \notin Watched({})
      <3>1. Recorded(c)[f] \in PathRow
        BY <2>2, RecordedTyped
      <3>2. PostSees(c)[f] = [locked |-> Recorded(c)[f].locked, declared |-> Recorded(c)[f].declared,
                              holder |-> Recorded(c)[f].holder, epoch |-> Recorded(c)[f].epoch,
                              line |-> path_seq[f], state |-> disk[f]]
        BY <2>2 DEF PostSees
      <3> QED BY <2>2, <3>1, <3>2, <1>1, <1>2 DEF Seen, PathRow
    <2> QED BY <2>1, <2>2
  <1>7. DOMAIN PostSees(c) = D
    BY DEF PostSees
  <1>8. PostSees(c) \in [D -> Seen]
    <2>1. PostSees(c) = [f \in D |-> PostSees(c)[f]]
      BY DEF PostSees
    <2> HIDE DEF D
    <2> QED BY <1>6, <2>1
  <1>9. PostSees(c) \in Partial(Files, Seen)
    BY <1>1, <1>8, PartialIn
  <1> QED BY <1>1, <1>2, <1>6, <1>7, <1>9

LEMMA ObserveMoves ==
    ASSUME TypeInv, NEW c \in Calls, PostObserve(c)
    PROVE  /\ Becomes(c, "post", hook[c].tpre, PostSees(c), hook[c].pending, hook[c].noted)
           /\ hook'[c].lost = hook[c].lost
PROOF
  <1> DEFINE o == PostSees(c)
             h == [hook[c] EXCEPT !.pc = "post", !.obs = o]
  <1>1. hook \in [Calls -> Process] /\ hook[c] \in Process
    BY DEF TypeInv
  <1>2. o \in Partial(Files, Seen)
    BY PostSeesTyped
  <1>3. hook' = [hook EXCEPT ![c] = h]
    <2>1. DOMAIN Look({}) = Watched({})
      BY DEF Look
    <2> DEFINE again(f) == [locked |-> Recorded(c)[f].locked, declared |-> Recorded(c)[f].declared,
                            holder |-> Recorded(c)[f].holder, epoch |-> Recorded(c)[f].epoch,
                            line |-> path_seq[f], state |-> disk[f]]
               p == [f \in DOMAIN Look({}) \union DOMAIN Recorded(c) |->
                        IF f \in DOMAIN Look({}) THEN [Look({})[f] EXCEPT !.state = disk[f]]
                                                 ELSE again(f)]
    <2>3. p = o
      <3>1. \A f \in Watched({}) : ReadNow(Look({}))[f] = [Look({})[f] EXCEPT !.state = disk[f]]
        BY <2>1 DEF ReadNow
      <3> QED BY <2>1, <3>1 DEF PostSees
    <2>4. hook' = [hook EXCEPT ![c] = [hook[c] EXCEPT !.pc = "post", !.obs = p]]
      BY <1>1 DEF PostObserve
    <2> HIDE DEF p, o
    <2> QED BY <2>3, <2>4
  <1> HIDE DEF o
  <1>4. /\ h \in Process /\ h.pc = "post" /\ h.tpre = hook[c].tpre /\ h.obs = o
        /\ h.pending = hook[c].pending /\ h.noted = hook[c].noted /\ h.lost = hook[c].lost
    BY <1>1, <1>2 DEF Process
  <1> HIDE DEF h
  <1>5. Becomes(c, h.pc, h.tpre, h.obs, h.pending, h.noted) /\ hook'[c].lost = h.lost
    BY <1>1, <1>3, <1>4, BecomesBy
  <1> QED BY <1>4, <1>5 DEF o

LEMMA PostMoves ==
    ASSUME TypeInv, NEW c \in Calls, HookPost(c)
    PROVE  /\ Becomes(c, "done", hook[c].tpre, <<>>, hook[c].pending, hook[c].noted)
           /\ hook'[c].lost = hook[c].lost
PROOF
  <1> DEFINE h == [hook[c] EXCEPT !.pc = "done", !.obs = <<>>]
  <1>1. hook \in [Calls -> Process] /\ hook[c] \in Process
    BY DEF TypeInv
  <1>2. hook' = [hook EXCEPT ![c] = h]
    BY <1>1 DEF HookPost
  <1>3. /\ h \in Process /\ h.pc = "done" /\ h.tpre = hook[c].tpre /\ h.obs = <<>>
        /\ h.pending = hook[c].pending /\ h.noted = hook[c].noted /\ h.lost = hook[c].lost
    BY <1>1, EmptyPartial DEF Process
  <1> HIDE DEF h
  <1>4. Becomes(c, h.pc, h.tpre, h.obs, h.pending, h.noted) /\ hook'[c].lost = h.lost
    BY <1>1, <1>2, <1>3, BecomesBy
  <1> QED BY <1>3, <1>4

------------------------------------------------------------------------------
(* What the two recording passes leave in the tables. *)

LEMMA CallsTyped ==
    ASSUME TypeInv
    PROVE  /\ DOMAIN calls \subseteq Calls /\ calls \in [DOMAIN calls -> CallRow]
           /\ \A k \in DOMAIN calls :
                  /\ calls[k].paths \in Partial(Files, PathRow)
                  /\ DOMAIN calls[k].paths \subseteq Files
                  /\ \A f \in DOMAIN calls[k].paths :
                         /\ calls[k].paths[f] \in PathRow
                         /\ calls[k].paths[f].epoch \in Epochs /\ calls[k].paths[f].seq \in Nat
                  /\ DOMAIN calls[k].post \subseteq Files
                  /\ \A f \in DOMAIN calls[k].post : calls[k].post[f] \in Nat
PROOF
  <1>1. DOMAIN calls \subseteq Calls /\ calls \in [DOMAIN calls -> CallRow]
    BY PartialOut DEF TypeInv
  <1>2. ASSUME NEW k \in DOMAIN calls
        PROVE  calls[k].paths \in Partial(Files, PathRow) /\ calls[k].post \in Partial(Files, Nat)
    BY <1>1 DEF CallRow
  <1>3. ASSUME NEW k \in DOMAIN calls
        PROVE  /\ DOMAIN calls[k].paths \subseteq Files
               /\ \A f \in DOMAIN calls[k].paths : calls[k].paths[f] \in PathRow
               /\ DOMAIN calls[k].post \subseteq Files
               /\ \A f \in DOMAIN calls[k].post : calls[k].post[f] \in Nat
    BY <1>2, PartialOut
  <1>4. ASSUME NEW k \in DOMAIN calls, NEW f \in DOMAIN calls[k].paths
        PROVE  calls[k].paths[f].epoch \in Epochs /\ calls[k].paths[f].seq \in Nat
    BY <1>3 DEF PathRow
  <1> QED BY <1>1, <1>2, <1>3, <1>4

LEMMA HookTyped ==
    ASSUME TypeInv, NEW c \in Calls
    PROVE  /\ hook[c] \in Process /\ hook[c].tpre \in Nat /\ hook[c].obs \in Partial(Files, Seen)
           /\ DOMAIN hook[c].obs \subseteq Files
           /\ \A f \in DOMAIN hook[c].obs :
                  /\ hook[c].obs[f] \in Seen
                  /\ hook[c].obs[f].epoch \in Epochs /\ hook[c].obs[f].line \in Line
                  /\ hook[c].obs[f].holder \in Holder
           /\ HasRead(c) => \A f \in DOMAIN hook[c].obs : hook[c].obs[f].state \in State
PROOF
  <1>1. hook[c] \in Process
    BY DEF TypeInv
  <1>2. hook[c].tpre \in Nat /\ hook[c].obs \in Partial(Files, Seen)
    BY <1>1 DEF Process
  <1>3. DOMAIN hook[c].obs \subseteq Files /\ \A f \in DOMAIN hook[c].obs : hook[c].obs[f] \in Seen
    BY <1>2, PartialOut
  <1>4. \A f \in DOMAIN hook[c].obs :
            /\ hook[c].obs[f].epoch \in Epochs /\ hook[c].obs[f].line \in Line
            /\ hook[c].obs[f].holder \in Holder
    BY <1>3 DEF Seen
  <1> QED BY <1>1, <1>2, <1>3, <1>4 DEF TypeInv

(* A number one higher, with the digest of what was seen. *)
Numbering(f, e, s) == [seq |-> path_seq[f][e].seq + 1, digest |-> s.digest]

DriftIn(c, f) ==
    [id |-> <<c, "drift", f>>, drift |-> TRUE, file |-> f, epoch |-> hook[c].obs[f].epoch,
     epochNow |-> hook[c].obs[f].epoch, holder |-> hook[c].obs[f].holder,
     holderNow |-> hook[c].obs[f].holder,
     observer |-> owner[c], declared |-> FALSE, seq |-> path_seq[f][hook[c].obs[f].epoch].seq + 1,
     pre |-> observed[f][hook[c].obs[f].epoch].digest, post |-> hook[c].obs[f].state.digest,
     at |-> hook[c].tpre, seen |-> FALSE]

LEMMA DriftStores ==
    ASSUME TypeInv, NEW c \in Calls, hook[c].pc = "drift", RecordDrift(c)
    PROVE  /\ path_seq' \in [Files -> Line]
           /\ observed' \in [Files -> [Epochs -> State \union {NoState}]]
           /\ \A f \in Files, e \in Epochs :
                  /\ path_seq'[f][e] = IF f \in Drifted(hook[c].obs) /\ e = hook[c].obs[f].epoch
                                       THEN Numbering(f, e, hook[c].obs[f].state)
                                       ELSE path_seq[f][e]
                  /\ observed'[f][e] = IF /\ f \in Drifted(hook[c].obs) \union FirstSeen(hook[c].obs)
                                          /\ e = hook[c].obs[f].epoch
                                       THEN hook[c].obs[f].state ELSE observed[f][e]
PROOF
  <1> DEFINE o == hook[c].obs
             D == Drifted(o)
             S == D \union FirstSeen(o)
  <1>1. /\ S \subseteq Files
        /\ \A f \in S : o[f].epoch \in Epochs /\ o[f].state \in State
    <2>1. S \subseteq DOMAIN o
      BY DEF Drifted, FirstSeen
    <2> QED BY <2>1, HookTyped DEF HasRead
  <1>2. D \subseteq S
    OBVIOUS
  <1>3. /\ path_seq' = [f \in Files |-> IF f \in D
                            THEN [path_seq[f] EXCEPT ![o[f].epoch] =
                                    [seq |-> path_seq[f][o[f].epoch].seq + 1, digest |-> o[f].state.digest]]
                            ELSE path_seq[f]]
        /\ observed' = [f \in Files |-> IF f \in S THEN [observed[f] EXCEPT ![o[f].epoch] = o[f].state]
                                       ELSE observed[f]]
    BY DEF RecordDrift
  <1> HIDE DEF o, D, S
  <1>4. path_seq \in [Files -> Line] /\ observed \in [Files -> [Epochs -> State \union {NoState}]]
    BY DEF TypeInv
  <1>5. \A f \in S : o[f].state.digest \in Content
    BY <1>1 DEF State
  <1>6. ASSUME NEW f \in Files
        PROVE  /\ path_seq'[f] \in Line /\ observed'[f] \in [Epochs -> State \union {NoState}]
               /\ \A e \in Epochs :
                     /\ path_seq'[f][e] = IF f \in D /\ e = o[f].epoch
                                          THEN Numbering(f, e, o[f].state) ELSE path_seq[f][e]
                     /\ observed'[f][e] = IF f \in S /\ e = o[f].epoch
                                          THEN o[f].state ELSE observed[f][e]
    <2>1. CASE f \in D
      <3>1. path_seq'[f] = [path_seq[f] EXCEPT ![o[f].epoch] =
                                [seq |-> path_seq[f][o[f].epoch].seq + 1, digest |-> o[f].state.digest]]
        BY <1>3, <2>1
      <3>2. path_seq[f] \in [Epochs -> [seq : Nat, digest : Content]]
        BY <1>4 DEF Line
      <3>3. [seq |-> path_seq[f][o[f].epoch].seq + 1, digest |-> o[f].state.digest]
              \in [seq : Nat, digest : Content]
        BY <1>1, <1>2, <1>5, <2>1, <3>2
      <3>4. path_seq'[f] \in Line
        BY <3>1, <3>2, <3>3 DEF Line
      <3>5. \A e \in Epochs : path_seq'[f][e] = IF f \in D /\ e = o[f].epoch
                                          THEN Numbering(f, e, o[f].state) ELSE path_seq[f][e]
        BY <3>1, <3>2, <2>1 DEF Numbering
      <3>6. observed'[f] = [observed[f] EXCEPT ![o[f].epoch] = o[f].state]
        BY <1>2, <1>3, <2>1
      <3> QED BY <1>1, <1>2, <1>4, <2>1, <3>4, <3>5, <3>6
    <2>2. CASE f \notin D
      <3>1. path_seq'[f] = path_seq[f]
        BY <1>3, <2>2
      <3>2. observed'[f] = IF f \in S THEN [observed[f] EXCEPT ![o[f].epoch] = o[f].state]
                                       ELSE observed[f]
        BY <1>3
      <3> QED BY <1>1, <1>4, <2>2, <3>1, <3>2
    <2> QED BY <2>1, <2>2
  <1>7. path_seq' \in [Files -> Line] /\ observed' \in [Files -> [Epochs -> State \union {NoState}]]
    <2>1. /\ path_seq' = [f \in Files |-> path_seq'[f]]
          /\ observed' = [f \in Files |-> observed'[f]]
      BY <1>3
    <2> QED BY <2>1, <1>6
  <1> QED BY <1>6, <1>7 DEF o, D, S

(* The post of c: what it takes for the state before, and which changes it *)
(* gives a number of their own.                                            *)
Prior(c, f) == Before(c, f, hook[c].obs[f])
Changed(c) == {f \in DOMAIN hook[c].obs : PathChanged(Prior(c, f), hook[c].obs[f])}
Numbered(c) == {f \in Changed(c) : ~AlreadyNumbered(f, Prior(c, f), hook[c].obs[f])}
SeqPost(c, f) ==
    IF f \in Numbered(c) THEN path_seq[f][Prior(c, f).epoch].seq + 1
    ELSE IF f \in Changed(c) THEN path_seq[f][Prior(c, f).epoch].seq ELSE Prior(c, f).seq

PostIn(c, f) ==
    [id |-> <<c, "post", f>>, drift |-> FALSE, file |-> f, epoch |-> Prior(c, f).epoch,
     epochNow |-> hook[c].obs[f].epoch, holder |-> Prior(c, f).holder,
     holderNow |-> hook[c].obs[f].holder, observer |-> owner[c],
     declared |-> Prior(c, f).declared, seq |-> SeqPost(c, f),
     pre |-> Prior(c, f).state.digest, post |-> hook[c].obs[f].state.digest, at |-> now,
     seen |-> f \in DOMAIN Recorded(c)]

Acted(c) == UNION {Answered(c, f, hook[c].obs[f]) : f \in DOMAIN hook[c].obs}

LEMMA PriorTyped ==
    ASSUME TypeInv, NEW c \in Calls, NEW f \in DOMAIN hook[c].obs
    PROVE  /\ Prior(c, f) \in PathRow
           /\ Prior(c, f).epoch \in Epochs /\ Prior(c, f).seq \in Nat /\ Prior(c, f).holder \in Holder
           /\ f \in DOMAIN Recorded(c) => Prior(c, f) = Recorded(c)[f]
           /\ f \notin DOMAIN Recorded(c) =>
                  /\ Prior(c, f).epoch = hook[c].obs[f].epoch
                  /\ Prior(c, f).seq = path_seq[f][Prior(c, f).epoch].seq
PROOF
  <1>1. CASE f \in DOMAIN Recorded(c)
    <2>1. Prior(c, f) = Recorded(c)[f]
      BY <1>1 DEF Prior, Before
    <2>2. Prior(c, f) \in PathRow
      BY <1>1, <2>1, RecordedTyped
    <2> QED BY <1>1, <2>1, <2>2 DEF PathRow
  <1>2. CASE f \notin DOMAIN Recorded(c)
    <2> DEFINE o == hook[c].obs[f]
    <2>1. f \in Files /\ o \in Seen
      BY HookTyped
    <2>2. Prior(c, f) = [locked |-> o.locked, declared |-> o.declared, holder |-> o.holder,
                         epoch |-> o.epoch, seq |-> path_seq[f][o.epoch].seq,
                         state |-> [digest |-> NoDigest, stat |-> 0]]
      BY <1>2 DEF Prior, Before
    <2> HIDE DEF o
    <2>3. o.epoch \in Epochs
      BY <2>1 DEF Seen
    <2>4. path_seq[f][o.epoch].seq \in Nat
      BY <2>1, <2>3 DEF TypeInv, Line
    <2>5. [digest |-> NoDigest, stat |-> 0] \in State
      BY DEF State, Content
    <2>6. Prior(c, f) \in PathRow
      BY <2>1, <2>2, <2>4, <2>5 DEF PathRow, Seen
    <2>7. Prior(c, f).epoch = o.epoch /\ Prior(c, f).seq = path_seq[f][o.epoch].seq
      BY <2>2
    <2> QED BY <1>2, <2>6, <2>7 DEF PathRow, o
  <1> QED BY <1>1, <1>2

LEMMA SeqPostTyped ==
    ASSUME TypeInv, NEW c \in Calls, NEW f \in DOMAIN hook[c].obs
    PROVE  SeqPost(c, f) \in Nat /\ path_seq[f][Prior(c, f).epoch].seq \in Nat
PROOF
  <1>1. f \in Files /\ Prior(c, f).epoch \in Epochs /\ Prior(c, f).seq \in Nat
    BY PriorTyped, HookTyped
  <1>2. path_seq[f] \in Line
    BY <1>1 DEF TypeInv
  <1>3. path_seq[f][Prior(c, f).epoch].seq \in Nat
    BY <1>1, <1>2 DEF Line
  <1> QED BY <1>1, <1>3 DEF SeqPost

LEMMA PostStores ==
    ASSUME TypeInv, NEW c \in Calls, hook[c].pc = "post", RecordCallPost(c)
    PROVE  /\ path_seq' \in [Files -> Line]
           /\ observed' \in [Files -> [Epochs -> State \union {NoState}]]
           /\ \A f \in Files, e \in Epochs :
                  /\ path_seq'[f][e] = IF f \in Numbered(c) /\ e = Prior(c, f).epoch
                                       THEN Numbering(f, e, hook[c].obs[f].state)
                                       ELSE path_seq[f][e]
                  /\ observed'[f][e] = IF /\ f \in DOMAIN hook[c].obs /\ hook[c].obs[f].locked
                                          /\ e = hook[c].obs[f].epoch
                                       THEN hook[c].obs[f].state ELSE observed[f][e]
PROOF
  <1> DEFINE o == hook[c].obs
             D == Numbered(c)
             S == {f \in DOMAIN o : o[f].locked}
  <1>1. /\ DOMAIN o \subseteq Files /\ D \subseteq DOMAIN o
        /\ \A f \in DOMAIN o : /\ o[f].epoch \in Epochs /\ o[f].state \in State
                               /\ Prior(c, f).epoch \in Epochs
    BY HookTyped, PriorTyped DEF HasRead, Numbered, Changed
  <1>2. path_seq' = [f \in Files |-> IF f \in D
                            THEN [path_seq[f] EXCEPT ![Prior(c, f).epoch] =
                                    [seq |-> SeqPost(c, f), digest |-> o[f].state.digest]]
                            ELSE path_seq[f]]
    BY DEF RecordCallPost, Numbered, Changed, Prior, SeqPost
  <1>3. observed' = [f \in Files |-> IF f \in DOMAIN o /\ o[f].locked
                                     THEN [observed[f] EXCEPT ![o[f].epoch] = o[f].state]
                                     ELSE observed[f]]
    BY DEF RecordCallPost
  <1>4. \A f \in D : SeqPost(c, f) = path_seq[f][Prior(c, f).epoch].seq + 1 /\ SeqPost(c, f) \in Nat
    BY <1>1, SeqPostTyped DEF SeqPost
  <1> HIDE DEF o, D
  <1>5. path_seq \in [Files -> Line] /\ observed \in [Files -> [Epochs -> State \union {NoState}]]
    BY DEF TypeInv
  <1>6. \A f \in DOMAIN o : o[f].state.digest \in Content
    BY <1>1 DEF State
  <1>7. ASSUME NEW f \in Files
        PROVE  /\ path_seq'[f] \in Line
               /\ \A e \in Epochs : path_seq'[f][e] = IF f \in D /\ e = Prior(c, f).epoch
                                          THEN Numbering(f, e, o[f].state) ELSE path_seq[f][e]
    <2>1. CASE f \in D
      <3>1. path_seq'[f] = [path_seq[f] EXCEPT ![Prior(c, f).epoch] =
                                [seq |-> SeqPost(c, f), digest |-> o[f].state.digest]]
        BY <1>2, <2>1
      <3>2. path_seq[f] \in [Epochs -> [seq : Nat, digest : Content]]
        BY <1>5 DEF Line
      <3>3. [seq |-> SeqPost(c, f), digest |-> o[f].state.digest] \in [seq : Nat, digest : Content]
        BY <1>1, <1>4, <1>6, <2>1
      <3>4. path_seq'[f] \in Line
        BY <3>1, <3>2, <3>3 DEF Line
      <3>5. \A e \in Epochs : path_seq'[f][e] = IF e = Prior(c, f).epoch
                     THEN [seq |-> SeqPost(c, f), digest |-> o[f].state.digest] ELSE path_seq[f][e]
        BY <3>1, <3>2
      <3> QED BY <3>4, <3>5, <1>4, <2>1 DEF Numbering
    <2>2. CASE f \notin D
      BY <1>2, <1>5, <2>2
    <2> QED BY <2>1, <2>2
  <1>8. ASSUME NEW f \in Files
        PROVE  /\ observed'[f] \in [Epochs -> State \union {NoState}]
               /\ \A e \in Epochs : observed'[f][e] = IF f \in DOMAIN o /\ o[f].locked /\ e = o[f].epoch
                                          THEN o[f].state ELSE observed[f][e]
    BY <1>1, <1>3, <1>5
  <1>9. path_seq' \in [Files -> Line] /\ observed' \in [Files -> [Epochs -> State \union {NoState}]]
    <2>1. /\ path_seq' = [f \in Files |-> path_seq'[f]]
          /\ observed' = [f \in Files |-> observed'[f]]
      BY <1>2, <1>3
    <2> QED BY <2>1, <1>7, <1>8
  <1> QED BY <1>7, <1>8, <1>9 DEF o, D

LEMMA PostRows ==
    ASSUME TypeInv, NEW c \in Calls, c \in DOMAIN calls, RecordCallPost(c)
    PROVE  /\ calls' \in Partial(Calls, CallRow)
           /\ DOMAIN calls' = DOMAIN calls
           /\ \A k \in DOMAIN calls : k # c => calls'[k] = calls[k]
           /\ calls'[c].tpre = calls[c].tpre /\ calls'[c].state = "posted" /\ calls'[c].ended = now
           /\ DOMAIN calls'[c].paths = DOMAIN hook[c].obs
           /\ DOMAIN calls'[c].post = DOMAIN hook[c].obs
           /\ \A f \in DOMAIN hook[c].obs : /\ calls'[c].paths[f] = Prior(c, f)
                                            /\ calls'[c].post[f] = SeqPost(c, f)
PROOF
  <1> DEFINE D == DOMAIN hook[c].obs
             p == [f \in D |-> Prior(c, f)]
             q == [f \in D |-> SeqPost(c, f)]
             row == [calls[c] EXCEPT !.state = "posted", !.ended = now, !.paths = p, !.post = q]
  <1>1. DOMAIN calls \subseteq Calls /\ calls \in [DOMAIN calls -> CallRow] /\ now \in Nat
    BY CallsTyped DEF TypeInv
  <1>2. calls' = [calls EXCEPT ![c] = row]
    BY <1>1 DEF RecordCallPost, Numbered, Changed, Prior, SeqPost
  <1>3. D \subseteq Files
    BY HookTyped
  <1>4. p \in [D -> PathRow] /\ q \in [D -> Nat]
    BY PriorTyped, SeqPostTyped
  <1>5. p \in Partial(Files, PathRow) /\ q \in Partial(Files, Nat)
    BY <1>3, <1>4, PartialIn
  <1>6. /\ DOMAIN p = D /\ DOMAIN q = D
        /\ \A f \in D : p[f] = Prior(c, f) /\ q[f] = SeqPost(c, f)
    OBVIOUS
  <1> HIDE DEF D, p, q
  <1>7. /\ row \in CallRow /\ row.tpre = calls[c].tpre /\ row.state = "posted" /\ row.ended = now
        /\ row.paths = p /\ row.post = q
    BY <1>1, <1>5 DEF CallRow
  <1> HIDE DEF row
  <1>8. calls' \in [DOMAIN calls -> CallRow] /\ calls'[c] = row
    BY <1>1, <1>2, <1>7
  <1>9. calls' \in Partial(Calls, CallRow)
    BY <1>1, <1>8, PartialIn
  <1> QED BY <1>2, <1>6, <1>7, <1>8, <1>9 DEF D

(* What is filed: a report for each addressee, new ones that wait. *)
LEMMA NewReportsTyped ==
    ASSUME TypeInv, NEW ins,
           \A in \in ins : /\ in.id \in EventIds /\ in.at \in Nat /\ in.holder \in Holder
                           /\ in.holderNow \in Holder /\ in.observer \in Owners
    PROVE  /\ NewReports(ins) \subseteq Report
           /\ \A r \in NewReports(ins) :
                  r.delivered = NoTime /\ \E in \in ins : r.event = in.id /\ r.at = in.at
PROOF
  <1>1. ASSUME NEW in \in ins PROVE Addressees(in, TreeEvent(in).rule, TreeEvent(in).spanners) \subseteq Owners
    <2>1. TreeEvent(in).spanners \subseteq DOMAIN calls
      BY DEF TreeEvent, Spanners
    <2>2. TreeEvent(in).spanners \subseteq Calls /\ owner \in [Calls -> Owners]
      BY <2>1, CallsTyped DEF TypeInv
    <2>3. {owner[c] : c \in TreeEvent(in).spanners} \subseteq Owners
      BY <2>2
    <2> QED BY <2>3 DEF Addressees, Holder
  <1>2. ASSUME NEW r \in NewReports(ins)
        PROVE  /\ r \in Report /\ r.delivered = NoTime
               /\ \E in \in ins : r.event = in.id /\ r.at = in.at
    <2>1. PICK in \in ins : \E o \in Addressees(in, TreeEvent(in).rule, TreeEvent(in).spanners) :
              r = [event |-> in.id, to |-> o, at |-> in.at, delivered |-> NoTime, acted |-> FALSE]
      BY <1>2 DEF NewReports
    <2> QED BY <2>1, <1>1 DEF Report
  <1> QED BY <1>2

DriftIns(c) == {DriftIn(c, f) : f \in Drifted(hook[c].obs)}

PostIns(c) == {PostIn(c, f) : f \in Changed(c)}

LEMMA DriftFiles ==
    ASSUME TypeInv, NEW c \in Calls, RecordDrift(c)
    PROVE  /\ File(DriftIns(c), reports)
           /\ \A in \in DriftIns(c) :
                  /\ in.id \in EventIds /\ in.at \in Nat /\ in.holder \in Holder
                  /\ in.holderNow \in Holder /\ in.observer \in Owners
                  /\ in.id[1] = c /\ in.id[2] = "drift" /\ in.at = hook[c].tpre
PROOF
  <1>1. File(DriftIns(c), reports)
    BY DEF RecordDrift, DriftIns, DriftIn
  <1>2. ASSUME NEW in \in DriftIns(c)
        PROVE  /\ in.id \in EventIds /\ in.at \in Nat /\ in.holder \in Holder
               /\ in.holderNow \in Holder /\ in.observer \in Owners
               /\ in.id[1] = c /\ in.id[2] = "drift" /\ in.at = hook[c].tpre
    <2>1. PICK f \in Drifted(hook[c].obs) : in = DriftIn(c, f)
      BY <1>2 DEF DriftIns
    <2>2. f \in DOMAIN hook[c].obs
      BY DEF Drifted
    <2>3. f \in Files /\ hook[c].tpre \in Nat /\ hook[c].obs[f].holder \in Holder /\ owner[c] \in Owners
      BY <2>2, HookTyped DEF TypeInv
    <2> QED BY <2>1, <2>3 DEF DriftIn, EventIds
  <1> QED BY <1>1, <1>2

LEMMA PostFiles ==
    ASSUME TypeInv, NEW c \in Calls, RecordCallPost(c)
    PROVE  /\ File(PostIns(c), (reports \ Acted(c)) \union {[r EXCEPT !.acted = TRUE] : r \in Acted(c)})
           /\ \A in \in PostIns(c) :
                  /\ in.id \in EventIds /\ in.at \in Nat /\ in.holder \in Holder
                  /\ in.holderNow \in Holder /\ in.observer \in Owners
                  /\ in.id[1] = c /\ in.id[2] = "post" /\ in.at = now
PROOF
  <1>1. File(PostIns(c), (reports \ Acted(c)) \union {[r EXCEPT !.acted = TRUE] : r \in Acted(c)})
    BY DEF RecordCallPost, PostIns, PostIn, Acted, Changed, Numbered, Prior, SeqPost
  <1>2. ASSUME NEW in \in PostIns(c)
        PROVE  /\ in.id \in EventIds /\ in.at \in Nat /\ in.holder \in Holder
               /\ in.holderNow \in Holder /\ in.observer \in Owners
               /\ in.id[1] = c /\ in.id[2] = "post" /\ in.at = now
    <2>1. PICK f \in Changed(c) : in = PostIn(c, f)
      BY <1>2 DEF PostIns
    <2>2. f \in DOMAIN hook[c].obs
      BY DEF Changed
    <2>3. /\ f \in Files /\ now \in Nat /\ Prior(c, f).holder \in Holder
          /\ hook[c].obs[f].holder \in Holder /\ owner[c] \in Owners
      BY <2>2, HookTyped, PriorTyped DEF TypeInv
    <2> QED BY <2>1, <2>3 DEF PostIn, EventIds
  <1> QED BY <1>1, <1>2

(* A report that is answered stays what it was but for the mark. *)
LEMMA ActedMarks ==
    ASSUME TypeInv, NEW r \in reports
    PROVE  LET m == [r EXCEPT !.acted = TRUE]
           IN  m \in Report /\ ReportId(m) = ReportId(r) /\ m.delivered = r.delivered
                /\ m.event = r.event /\ m.to = r.to
  BY DEF TypeInv, Report, ReportId

(* A report that is handed over stays what it was but for the stamp. *)
LEMMA DeliveredMarks ==
    ASSUME TypeInv, NEW r \in reports, NEW t \in Nat
    PROVE  LET m == [r EXCEPT !.delivered = t]
           IN  m \in Report /\ ReportId(m) = ReportId(r) /\ m.delivered = t
                /\ m.event = r.event /\ m.to = r.to
  BY DEF TypeInv, Report, ReportId

------------------------------------------------------------------------------
(* The sweeps. *)

Swept == {c \in DOMAIN calls :
            Open(c) /\ (~Alive(c) \/ now > calls[c].tpre + InFlightMaxAge)}

LEMMA MarkMoves ==
    ASSUME TypeInv, MarkDeadOwnerCalls
    PROVE  /\ hook' \in [Calls -> Process]
           /\ \A c \in Calls : /\ hook'[c].pc = hook[c].pc /\ hook'[c].tpre = hook[c].tpre
                               /\ hook'[c].obs = hook[c].obs /\ hook'[c].pending = hook[c].pending
                               /\ hook'[c].noted = hook[c].noted
                               /\ hook'[c].lost = (hook[c].lost \/ c \in Swept)
           /\ calls' \in Partial(Calls, CallRow) /\ DOMAIN calls' = DOMAIN calls
           /\ \A c \in DOMAIN calls :
                  /\ calls'[c].paths = calls[c].paths /\ calls'[c].post = calls[c].post
                  /\ calls'[c].tpre = calls[c].tpre
                  /\ calls'[c].state = IF c \in Swept THEN "dead" ELSE calls[c].state
                  /\ c \in Swept => calls[c].state = "open" /\ calls'[c].ended = now
                  /\ c \notin Swept => calls'[c] = calls[c]
PROOF
  <1>1. /\ calls' = [c \in DOMAIN calls |->
               IF c \in Swept THEN [calls[c] EXCEPT !.state = "dead", !.ended = now] ELSE calls[c]]
        /\ hook' = [c \in Calls |-> [hook[c] EXCEPT !.lost = @ \/ c \in Swept]]
    BY DEF MarkDeadOwnerCalls, Swept
  <1>2. \A c \in Swept : calls[c].state = "open"
    BY DEF Swept, Open
  <1>3. DOMAIN calls \subseteq Calls /\ calls \in [DOMAIN calls -> CallRow] /\ now \in Nat
    BY CallsTyped DEF TypeInv
  <1>4. hook \in [Calls -> Process]
    BY DEF TypeInv
  <1>5. ASSUME NEW c \in Calls
        PROVE  /\ hook'[c] \in Process
               /\ hook'[c].pc = hook[c].pc /\ hook'[c].tpre = hook[c].tpre
               /\ hook'[c].obs = hook[c].obs /\ hook'[c].pending = hook[c].pending
               /\ hook'[c].noted = hook[c].noted
               /\ hook'[c].lost = (hook[c].lost \/ c \in Swept)
    <2> DEFINE b == hook[c].lost \/ c \in Swept
    <2>1. b \in BOOLEAN
      OBVIOUS
    <2>2. hook'[c] = [hook[c] EXCEPT !.lost = b] /\ hook[c] \in Process
      BY <1>1, <1>4
    <2> HIDE DEF b
    <2>3. /\ hook'[c] \in Process
          /\ hook'[c].pc = hook[c].pc /\ hook'[c].tpre = hook[c].tpre
          /\ hook'[c].obs = hook[c].obs /\ hook'[c].pending = hook[c].pending
          /\ hook'[c].noted = hook[c].noted /\ hook'[c].lost = b
      BY <2>1, <2>2 DEF Process
    <2> QED BY <2>3 DEF b
  <1>6. hook' \in [Calls -> Process]
    <2>1. hook' = [c \in Calls |-> hook'[c]]
      BY <1>1
    <2> QED BY <1>5, <2>1
  <1>7. ASSUME NEW c \in DOMAIN calls
        PROVE  /\ calls'[c] \in CallRow
               /\ calls'[c].paths = calls[c].paths /\ calls'[c].post = calls[c].post
               /\ calls'[c].tpre = calls[c].tpre
               /\ calls'[c].state = IF c \in Swept THEN "dead" ELSE calls[c].state
               /\ c \in Swept => calls'[c].ended = now
               /\ c \notin Swept => calls'[c] = calls[c]
    <2>1. CASE c \in Swept
      <3>1. calls'[c] = [calls[c] EXCEPT !.state = "dead", !.ended = now] /\ calls[c] \in CallRow
        BY <1>1, <1>3, <2>1
      <3> QED BY <3>1, <2>1, <1>3 DEF CallRow
    <2>2. CASE c \notin Swept
      BY <1>1, <1>3, <2>2
    <2> QED BY <2>1, <2>2
  <1>8. calls' \in Partial(Calls, CallRow) /\ DOMAIN calls' = DOMAIN calls
    <2>1. calls' = [c \in DOMAIN calls |-> calls'[c]]
      BY <1>1
    <2>2. calls' \in [DOMAIN calls -> CallRow]
      BY <1>7, <2>1
    <2>3. DOMAIN calls' = DOMAIN calls
      BY <2>1
    <2> QED BY <1>3, <2>2, <2>3, PartialIn
  <1> QED BY <1>2, <1>5, <1>6, <1>7, <1>8

(* The finished calls the sweep forgets. *)
Forgotten == {c \in DOMAIN calls :
                /\ ~Open(c)
                /\ calls[c].ended + TReport < now
                /\ \A k \in DOMAIN calls : Open(k) => calls[k].tpre > calls[c].ended}

LEMMA DropRows ==
    ASSUME TypeInv, DropFinishedCalls
    PROVE  /\ calls' \in Partial(Calls, CallRow) /\ DOMAIN calls' = DOMAIN calls \ Forgotten
           /\ \A k \in DOMAIN calls' : calls'[k] = calls[k]
PROOF
  <1>1. calls' = [c \in DOMAIN calls \ Forgotten |-> calls[c]]
    BY DEF DropFinishedCalls, Forgotten
  <1>2. DOMAIN calls \subseteq Calls /\ calls \in [DOMAIN calls -> CallRow]
    BY CallsTyped
  <1>3. calls' \in [DOMAIN calls \ Forgotten -> CallRow]
    BY <1>1, <1>2
  <1>4. calls' \in Partial(Calls, CallRow)
    BY <1>2, <1>3, PartialIn
  <1> QED BY <1>1, <1>4

------------------------------------------------------------------------------
(* Type correctness. *)

ReadStates == \A c \in Calls : HasRead(c) =>
                  \A f \in DOMAIN hook[c].obs : hook[c].obs[f].state \in State

LEMMA MovesTyped ==
    ASSUME TypeInv, NEW c \in Calls, NEW pc, NEW t, NEW obs, NEW p, NEW n,
           Becomes(c, pc, t, obs, p, n),
           pc \in {"drift", "pending", "deliver", "record", "post"} =>
               \A f \in DOMAIN obs : obs[f].state \in State
    PROVE  hook' \in [Calls -> Process] /\ ReadStates'
PROOF
  <1>1. ASSUME NEW d \in Calls, HasRead(d)', NEW f \in DOMAIN hook'[d].obs
        PROVE  hook'[d].obs[f].state \in State
    <2>1. CASE d = c
      BY <1>1, <2>1 DEF Becomes, HasRead
    <2>2. CASE d # c
      BY <1>1, <2>2 DEF Becomes, HasRead, TypeInv
    <2> QED BY <2>1, <2>2
  <1> QED BY <1>1 DEF Becomes, ReadStates

LEMMA TypeOfParts ==
    ASSUME TypeInv, UNCHANGED owner,
           hook' \in [Calls -> Process], ReadStates',
           calls' \in Partial(Calls, CallRow), reports' \subseteq Report,
           path_seq' \in [Files -> Line], observed' \in [Files -> [Epochs -> State \union {NoState}]],
           disk' \in [Files -> State],
           wrote' \subseteq [file : Files, digest : Content, stat : Nat, by : Calls \union {Outside}],
           writes' \in [Files -> [all : Nat, outside : Nat]],
           lock' \in [Files -> [owner : Holder, epoch : Epochs, last : Epochs]],
           dead' \subseteq Owners, now' \in Nat
    PROVE  TypeInv'
  BY DEF TypeInv, ReadStates

LEMMA TypeInit ==
    ASSUME Init
    PROVE  TypeInv
PROOF
  <1>0. MaxEpoch \in Nat
    BY ObservationAssumption
  <1>1. disk \in [Files -> State]
    BY ObservationAssumption DEF Init, State, Content
  <1>2. wrote \subseteq [file : Files, digest : Content, stat : Nat, by : Calls \union {Outside}]
    <2>1. Committed \in Content /\ Outside \in Calls \union {Outside}
      BY ObservationAssumption DEF Content
    <2>2. \A f \in Files : [file |-> f, digest |-> Committed, stat |-> 1, by |-> Outside]
              \in [file : Files, digest : Content, stat : Nat, by : Calls \union {Outside}]
      BY <2>1
    <2>3. wrote = {[file |-> f, digest |-> Committed, stat |-> 1, by |-> Outside] : f \in Files}
      BY DEF Init
    <2> QED BY <2>2, <2>3
  <1>3. writes \in [Files -> [all : Nat, outside : Nat]]
    BY DEF Init
  <1>4. 0 \in Epochs
    BY <1>0 DEF Epochs
  <1>5. lock \in [Files -> [owner : Holder, epoch : Epochs, last : Epochs]]
    BY <1>4 DEF Init, Holder
  <1>6. path_seq \in [Files -> Line]
    BY DEF Init, Line, Content
  <1>7. observed \in [Files -> [Epochs -> State \union {NoState}]]
    BY DEF Init
  <1>8. calls \in Partial(Calls, CallRow)
    BY EmptyPartial DEF Init
  <1>9. Idle \in Process /\ Idle.pc = "idle"
    BY EmptyPartial DEF Idle, Process
  <1>10. hook \in [Calls -> Process]
    BY <1>9 DEF Init
  <1>11. \A c \in Calls : ~HasRead(c)
    BY <1>9 DEF Init, HasRead
  <1> QED BY <1>1, <1>2, <1>3, <1>5, <1>6, <1>7, <1>8, <1>10, <1>11 DEF Init, TypeInv

LEMMA WriteTyped ==
    ASSUME TypeInv, NEW f \in Files, NEW by \in Calls \union {Outside}, Write(f, by)
    PROVE  /\ disk' \in [Files -> State]
           /\ wrote' \subseteq [file : Files, digest : Content, stat : Nat, by : Calls \union {Outside}]
           /\ writes' \in [Files -> [all : Nat, outside : Nat]]
           /\ \E w \in [file : {f}, digest : Content, stat : {0, writes[f].all + 2}, by : {by}] :
                  /\ wrote' = wrote \union {w}
                  /\ disk' = [disk EXCEPT ![f] = [digest |-> w.digest, stat |-> w.stat]]
                  /\ w.stat = 0 => w.digest = NoDigest
           /\ writes'[f].all = writes[f].all + 1
           /\ \A g \in Files : g # f => writes'[g] = writes[g]
PROOF
  <1>1. PICK r \in Results :
           LET stat == IF r[2] THEN writes[f].all + 2 ELSE 0
           IN  /\ disk' = [disk EXCEPT ![f] = [digest |-> r[1], stat |-> stat]]
               /\ wrote' = wrote \union {[file |-> f, digest |-> r[1], stat |-> stat, by |-> by]}
    BY DEF Write
  <1>2. /\ r[1] \in Content /\ r[2] \in BOOLEAN
        /\ ~r[2] => r[1] = NoDigest
    BY ObservationAssumption DEF Content
  <1> DEFINE s == IF r[2] THEN writes[f].all + 2 ELSE 0
             w == [file |-> f, digest |-> r[1], stat |-> s, by |-> by]
  <1>3. writes[f].all \in Nat /\ writes \in [Files -> [all : Nat, outside : Nat]]
    BY DEF TypeInv
  <1>4. s \in Nat /\ s \in {0, writes[f].all + 2} /\ (s = 0 => ~r[2])
    BY <1>3
  <1>5. disk' = [disk EXCEPT ![f] = [digest |-> r[1], stat |-> s]] /\ wrote' = wrote \union {w}
    BY <1>1
  <1> HIDE DEF s
  <1>6. /\ w \in [file : {f}, digest : Content, stat : {0, writes[f].all + 2}, by : {by}]
        /\ w \in [file : Files, digest : Content, stat : Nat, by : Calls \union {Outside}]
        /\ w.digest = r[1] /\ w.stat = s
    BY <1>2, <1>4
  <1> HIDE DEF w
  <1>7. disk' \in [Files -> State]
    BY <1>2, <1>4, <1>5 DEF TypeInv, State
  <1>8. wrote' \subseteq [file : Files, digest : Content, stat : Nat, by : Calls \union {Outside}]
    BY <1>5, <1>6 DEF TypeInv
  <1>9. /\ writes' \in [Files -> [all : Nat, outside : Nat]]
        /\ writes'[f].all = writes[f].all + 1
        /\ \A g \in Files : g # f => writes'[g] = writes[g]
    <2> DEFINE n == IF by = Outside THEN writes[f].outside + 1 ELSE writes[f].outside
               v == [writes[f] EXCEPT !.all = writes[f].all + 1, !.outside = n]
    <2>1. writes' = [writes EXCEPT ![f] = v]
      BY <1>3 DEF Write
    <2>2. n \in Nat
      BY <1>3
    <2> HIDE DEF n
    <2>3. v \in [all : Nat, outside : Nat] /\ v.all = writes[f].all + 1
      <3>1. writes[f] \in [all : Nat, outside : Nat] /\ writes[f].all + 1 \in Nat
        BY <1>3
      <3> QED BY <2>2, <3>1
    <2> HIDE DEF v
    <2> QED BY <1>3, <2>1, <2>3
  <1>10. w.stat = 0 => w.digest = NoDigest
    BY <1>2, <1>4, <1>6
  <1>11. disk' = [disk EXCEPT ![f] = [digest |-> w.digest, stat |-> w.stat]]
    BY <1>5, <1>6
  <1> QED BY <1>5, <1>6, <1>7, <1>8, <1>9, <1>10, <1>11

LEMMA LockTyped ==
    ASSUME TypeInv, LockTaken \/ LockEnds
    PROVE  lock' \in [Files -> [owner : Holder, epoch : Epochs, last : Epochs]]
PROOF
  <1>1. lock \in [Files -> [owner : Holder, epoch : Epochs, last : Epochs]] /\ MaxEpoch \in Nat
    BY ObservationAssumption DEF TypeInv
  <1>2. CASE LockTaken
    <2>1. PICK f \in Files, o \in Owners :
             /\ lock[f].last < MaxEpoch
             /\ lock' = [lock EXCEPT ![f] = [owner |-> o, epoch |-> lock[f].last + 1,
                                             last |-> lock[f].last + 1]]
      BY <1>2 DEF LockTaken
    <2>2. lock[f].last + 1 \in Epochs
      BY <1>1, <2>1 DEF Epochs
    <2> QED BY <1>1, <2>1, <2>2 DEF Holder
  <1>3. CASE LockEnds
    <2>1. PICK f \in Files : lock' = [lock EXCEPT ![f].owner = NoOwner, ![f].epoch = 0]
      BY <1>3 DEF LockEnds
    <2>2. 0 \in Epochs
      BY <1>1 DEF Epochs
    <2> DEFINE l == [lock[f] EXCEPT !.owner = NoOwner, !.epoch = 0]
    <2>3. l \in [owner : Holder, epoch : Epochs, last : Epochs]
      BY <1>1, <2>2 DEF Holder
    <2>4. lock' = [lock EXCEPT ![f] = l]
      BY <1>1, <2>1
    <2> HIDE DEF l
    <2> QED BY <1>1, <2>3, <2>4
  <1> QED BY <1>2, <1>3

LEMMA TypeStep ==
    ASSUME TypeInv, [Next]_vars
    PROVE  TypeInv'
PROOF
  <1>0. /\ ReadStates /\ disk \in [Files -> State]
        /\ wrote \subseteq [file : Files, digest : Content, stat : Nat, by : Calls \union {Outside}]
        /\ writes \in [Files -> [all : Nat, outside : Nat]]
        /\ lock \in [Files -> [owner : Holder, epoch : Epochs, last : Epochs]]
        /\ path_seq \in [Files -> Line]
        /\ observed \in [Files -> [Epochs -> State \union {NoState}]]
        /\ calls \in Partial(Calls, CallRow) /\ hook \in [Calls -> Process]
        /\ reports \subseteq Report /\ dead \subseteq Owners /\ now \in Nat
    BY DEF TypeInv, ReadStates
  <1>1. ASSUME NEW c \in Calls, HookLook(c) PROVE TypeInv'
    <2>1. hook' \in [Calls -> Process] /\ ReadStates'
      BY <1>1, LookMoves, MovesTyped
    <2> QED BY <1>0, <1>1, <2>1, TypeOfParts DEF HookLook, treeVars, storeVars
  <1>2. ASSUME NEW c \in Calls, HookRead(c) PROVE TypeInv'
    <2>1. \A f \in DOMAIN ReadNow(hook[c].obs) : ReadNow(hook[c].obs)[f].state \in State
      BY <1>2, HookTyped, ReadTyped
    <2>2. hook' \in [Calls -> Process] /\ ReadStates'
      BY <1>2, <2>1, ReadMoves, MovesTyped
    <2> QED BY <1>0, <1>2, <2>2, TypeOfParts DEF HookRead, treeVars, storeVars
  <1>3. ASSUME NEW c \in Calls, HookDrift(c) \/ HookPending(c) \/ HookDeliver(c) \/ HookDeliverFails(c)
        PROVE  TypeInv'
    <2>1. \A f \in DOMAIN hook[c].obs : hook[c].obs[f].state \in State
      BY <1>3, HookTyped DEF HasRead, HookDrift, HookPending, HookDeliver, HookDeliverFails
    <2>2. hook' \in [Calls -> Process] /\ ReadStates'
      <3>1. PICK pc, pend : Becomes(c, pc, hook[c].tpre, hook[c].obs, pend, hook[c].noted)
        BY <1>3, PassMoves
      <3> QED BY <2>1, <3>1, MovesTyped
    <2>3. CASE HookDrift(c) /\ RecordDrift(c)
      <3>1. reports' \subseteq Report
        <4>1. reports' = reports \union NewReports(DriftIns(c))
          BY <2>3, DriftFiles DEF File
        <4> QED BY <4>1, <1>0, <2>3, DriftFiles, NewReportsTyped
      <3>2. /\ path_seq' \in [Files -> Line]
            /\ observed' \in [Files -> [Epochs -> State \union {NoState}]]
        BY <2>3, DriftStores DEF HookDrift
      <3>3. UNCHANGED <<calls, disk, wrote, writes, lock, owner, dead, now>>
        BY <2>3 DEF HookDrift, RecordDrift, treeVars
      <3> QED BY <1>0, <2>2, <3>1, <3>2, <3>3, TypeOfParts
    <2>4. CASE (HookDrift(c) /\ UNCHANGED storeVars) \/ HookPending(c) \/ HookDeliverFails(c)
      BY <1>0, <2>2, <2>4, TypeOfParts
         DEF HookDrift, HookPending, HookDeliverFails, treeVars, storeVars
    <2>5. CASE HookDeliver(c)
      <3>1. \A r \in Taken(c) : [r EXCEPT !.delivered = hook[c].tpre] \in Report
        BY HookTyped, DeliveredMarks DEF Taken
      <3>2. reports' \subseteq Report
        BY <1>0, <2>5, <3>1 DEF HookDeliver
      <3>3. UNCHANGED <<calls, disk, wrote, writes, lock, owner, dead, now, path_seq, observed>>
        BY <2>5 DEF HookDeliver, treeVars
      <3> QED BY <1>0, <2>2, <3>2, <3>3, TypeOfParts
    <2> QED BY <1>3, <2>3, <2>4, <2>5 DEF HookDrift
  <1>4. ASSUME NEW c \in Calls, HookRecord(c) PROVE TypeInv'
    <2>1. hook' \in [Calls -> Process] /\ ReadStates'
      BY <1>4, RecordMoves, MovesTyped
    <2>2. calls' \in Partial(Calls, CallRow)
      BY <1>4, RecordRows
    <2> QED BY <1>0, <1>4, <2>1, <2>2, TypeOfParts DEF HookRecord, treeVars
  <1>5. ASSUME NEW c \in Calls, HookFailOpen(c) PROVE TypeInv'
    <2>1. hook' \in [Calls -> Process] /\ ReadStates'
      BY <1>5, FailOpenMoves, MovesTyped
    <2> QED BY <1>0, <1>5, <2>1, TypeOfParts DEF HookFailOpen, treeVars, storeVars
  <1>6. ASSUME NEW c \in Calls, PostObserve(c) PROVE TypeInv'
    <2>1. \A f \in DOMAIN PostSees(c) : PostSees(c)[f].state \in State
      BY PostSeesTyped
    <2>2. hook' \in [Calls -> Process] /\ ReadStates'
      BY <1>6, <2>1, ObserveMoves, MovesTyped
    <2> QED BY <1>0, <1>6, <2>2, TypeOfParts DEF PostObserve, treeVars, storeVars
  <1>7. ASSUME NEW c \in Calls, HookPost(c) PROVE TypeInv'
    <2>1. hook' \in [Calls -> Process] /\ ReadStates'
      BY <1>7, PostMoves, MovesTyped
    <2>2. CASE c \in DOMAIN calls /\ RecordCallPost(c)
      <3>1. reports' \subseteq Report
        <4>1. reports' = (reports \ Acted(c)) \union {[r EXCEPT !.acted = TRUE] : r \in Acted(c)}
                           \union NewReports(PostIns(c))
          BY <2>2, PostFiles DEF File
        <4>2. NewReports(PostIns(c)) \subseteq Report
          BY <2>2, PostFiles, NewReportsTyped
        <4>3. \A r \in Acted(c) : [r EXCEPT !.acted = TRUE] \in Report
          BY ActedMarks DEF Acted, Answered
        <4> QED BY <4>1, <4>2, <4>3, <1>0
      <3>2. /\ path_seq' \in [Files -> Line]
            /\ observed' \in [Files -> [Epochs -> State \union {NoState}]]
        BY <1>7, <2>2, PostStores DEF HookPost
      <3>3. calls' \in Partial(Calls, CallRow)
        BY <2>2, PostRows
      <3>4. UNCHANGED <<disk, wrote, writes, lock, owner, dead, now>>
        BY <1>7 DEF HookPost, treeVars
      <3> QED BY <1>0, <2>1, <3>1, <3>2, <3>3, <3>4, TypeOfParts
    <2>3. CASE UNCHANGED storeVars
      BY <1>0, <1>7, <2>1, <2>3, TypeOfParts DEF HookPost, treeVars, storeVars
    <2> QED BY <1>7, <2>2, <2>3 DEF HookPost
  <1>8. ASSUME NEW f \in Files, NEW by \in Calls \union {Outside}, Write(f, by) PROVE TypeInv'
    <2>1. /\ disk' \in [Files -> State]
          /\ wrote' \subseteq [file : Files, digest : Content, stat : Nat, by : Calls \union {Outside}]
          /\ writes' \in [Files -> [all : Nat, outside : Nat]]
      BY <1>8, WriteTyped
    <2>2. UNCHANGED <<lock, storeVars, hook, owner, dead, now>>
      BY <1>8 DEF Write
    <2> QED BY <1>0, <2>1, <2>2, TypeOfParts DEF storeVars, ReadStates, HasRead
  <1>9. ASSUME MarkDeadOwnerCalls PROVE TypeInv'
    <2>1. hook' \in [Calls -> Process] /\ ReadStates'
      BY <1>0, <1>9, MarkMoves DEF ReadStates, HasRead
    <2> QED BY <1>0, <1>9, <2>1, MarkMoves, TypeOfParts DEF MarkDeadOwnerCalls, treeVars
  <1>10. ASSUME DropFinishedCalls PROVE TypeInv'
    BY <1>0, <1>10, DropRows, TypeOfParts DEF DropFinishedCalls, treeVars, ReadStates, HasRead
  <1>11. ASSUME DropOldTreeEvents PROVE TypeInv'
    <2>1. reports' \subseteq reports
      BY <1>11 DEF DropOldTreeEvents
    <2>2. UNCHANGED <<treeVars, path_seq, observed, calls, hook, owner, dead, now>>
      BY <1>11 DEF DropOldTreeEvents
    <2>3. reports' \subseteq Report
      BY <1>0, <2>1
    <2> QED BY <1>0, <2>2, <2>3, TypeOfParts DEF treeVars, ReadStates, HasRead
  <1>12. ASSUME LockTaken \/ LockEnds PROVE TypeInv'
    BY <1>0, <1>12, LockTyped, TypeOfParts DEF LockTaken, LockEnds, storeVars, ReadStates, HasRead
  <1>13. ASSUME SessionDies PROVE TypeInv'
    BY <1>0, <1>13, TypeOfParts DEF SessionDies, treeVars, storeVars, ReadStates, HasRead
  <1>14. ASSUME Tick PROVE TypeInv'
    BY <1>0, <1>14, TypeOfParts DEF Tick, treeVars, storeVars, ReadStates, HasRead
  <1>15. CASE UNCHANGED vars
    BY <1>0, <1>15, TypeOfParts DEF vars, treeVars, storeVars, ReadStates, HasRead
  <1> QED BY <1>1, <1>2, <1>3, <1>4, <1>5, <1>6, <1>7, <1>8, <1>9, <1>10, <1>11, <1>12, <1>13,
             <1>14, <1>15 DEF Next, ToolWrites, OutsideWrites

------------------------------------------------------------------------------
(* No report is lost or handed over twice. *)

(* Past its drift pass a call does not file drift again, done it does not  *)
(* post again.                                                             *)
Forward ==
    \A c \in Calls :
        /\ hook[c].pc \notin {"idle", "read", "drift"} => hook'[c].pc \notin {"idle", "read", "drift"}
        /\ hook[c].pc = "done" => hook'[c].pc = "done"

LEMMA NewIds ==
    ASSUME TypeInv, ReportInv, NEW c \in Calls, NEW kind \in {"drift", "post"}, NEW t \in Nat, NEW ins,
           \/ kind = "drift" /\ hook[c].pc = "drift"
           \/ kind = "post" /\ hook[c].pc = "post",
           \A in \in ins : /\ in.id \in EventIds /\ in.at \in Nat /\ in.holder \in Holder
                           /\ in.holderNow \in Holder /\ in.observer \in Owners
                           /\ in.id[1] = c /\ in.id[2] = kind /\ in.at = t
    PROVE  /\ \A r \in NewReports(ins) :
                  /\ r \in Report /\ r.delivered = NoTime /\ r.event[1] = c /\ r.event[2] = kind
                  /\ ReportId(r) \notin filed /\ ReportId(r) \in EventIds \X Owners
           /\ \A r, q \in NewReports(ins) : ReportId(r) = ReportId(q) => r = q
PROOF
  <1>1. ASSUME NEW r \in NewReports(ins)
        PROVE  /\ r \in Report /\ r.delivered = NoTime /\ r.event[1] = c /\ r.event[2] = kind
               /\ r.event \in EventIds /\ r.to \in Owners
               /\ r = [event |-> r.event, to |-> r.to, at |-> t, delivered |-> NoTime, acted |-> FALSE]
    <2>1. r \in Report
      BY NewReportsTyped
    <2>2. PICK in \in ins : \E o \in Addressees(in, TreeEvent(in).rule, TreeEvent(in).spanners) :
              r = [event |-> in.id, to |-> o, at |-> in.at, delivered |-> NoTime, acted |-> FALSE]
      BY DEF NewReports
    <2>3. PICK o : r = [event |-> in.id, to |-> o, at |-> in.at, delivered |-> NoTime, acted |-> FALSE]
      BY <2>2
    <2>4. r.event = in.id /\ r.to = o /\ r.delivered = NoTime
      BY <2>3
    <2>5. in.id[1] = c /\ in.id[2] = kind /\ in.at = t
      OBVIOUS
    <2>6. r.event \in EventIds /\ r.to \in Owners
      BY <2>1 DEF Report
    <2> QED BY <2>1, <2>3, <2>4, <2>5, <2>6
  <1>2. ASSUME NEW r \in NewReports(ins)
        PROVE  ReportId(r) \notin filed /\ ReportId(r) \in EventIds \X Owners
    <2>1. ReportId(r)[1][1] = c /\ ReportId(r)[1][2] = kind
      BY <1>1 DEF ReportId
    <2>2. FiledOnce
      BY DEF ReportInv
    <2> QED BY <1>1, <2>1, <2>2 DEF FiledOnce, ReportId
  <1>3. ASSUME NEW r \in NewReports(ins), NEW q \in NewReports(ins), ReportId(r) = ReportId(q)
        PROVE  r = q
    <2>1. r.event = q.event /\ r.to = q.to
      BY <1>3 DEF ReportId
    <2>2. r = [event |-> r.event, to |-> r.to, at |-> t, delivered |-> NoTime, acted |-> FALSE]
      BY <1>1
    <2>3. q = [event |-> q.event, to |-> q.to, at |-> t, delivered |-> NoTime, acted |-> FALSE]
      BY <1>1
    <2> QED BY <2>1, <2>2, <2>3
  <1> QED BY <1>1, <1>2, <1>3

LEMMA FilingAccounts ==
    ASSUME TypeInv, ReportInv, NEW c \in Calls, NEW kind \in {"drift", "post"}, NEW t \in Nat, NEW ins,
           \/ kind = "drift" /\ hook[c].pc = "drift" /\ hook'[c].pc \notin {"idle", "read", "drift"}
           \/ kind = "post" /\ hook[c].pc = "post" /\ hook'[c].pc = "done",
           \A in \in ins : /\ in.id \in EventIds /\ in.at \in Nat /\ in.holder \in Holder
                           /\ in.holderNow \in Holder /\ in.observer \in Owners
                           /\ in.id[1] = c /\ in.id[2] = kind /\ in.at = t,
           NEW S,
           \A s \in S : \E r \in reports : ReportId(s) = ReportId(r) /\ s.delivered = r.delivered,
           \A r \in reports : \E s \in S : ReportId(s) = ReportId(r) /\ s.delivered = r.delivered,
           \A s, q \in S : ReportId(s) = ReportId(q) => s = q,
           File(ins, S), Forward, UNCHANGED <<handed, expired>>
    PROVE  ReportInv'
PROOF
  <1> DEFINE N == NewReports(ins)
  <1>1. /\ \A r \in N : /\ r.delivered = NoTime /\ r.event[1] = c /\ r.event[2] = kind
                        /\ ReportId(r) \notin filed /\ ReportId(r) \in EventIds \X Owners
        /\ \A r, q \in N : ReportId(r) = ReportId(q) => r = q
    BY NewIds
  <1>2. reports' = S \union N /\ filed' = filed \union {ReportId(r) : r \in N}
    BY DEF File
  <1> HIDE DEF N
  <1>3. FiledOnce /\ ReportKeys /\ WaitingOrHanded /\ HandedOnce /\ ReportsAccounted
    BY DEF ReportInv
  <1>4. \A r \in reports : ReportId(r) \in filed
    BY <1>3 DEF ReportKeys
  <1>5. \A s \in S : ReportId(s) \in filed
    BY <1>4
  <1>6. FiledOnce'
    <2>1. ASSUME NEW id \in filed'
          PROVE  /\ id \in EventIds \X Owners
                 /\ id[1][2] = "drift" => hook'[id[1][1]].pc \notin {"idle", "read", "drift"}
                 /\ id[1][2] = "post" => hook'[id[1][1]].pc = "done"
      <3>1. CASE id \in filed
        <4>1. id \in EventIds \X Owners
          BY <3>1, <1>3 DEF FiledOnce
        <4>2. id[1][1] \in Calls
          BY <4>1 DEF EventIds
        <4> QED BY <3>1, <4>1, <4>2, <1>3 DEF FiledOnce, Forward
      <3>2. CASE id \notin filed
        <4>1. PICK r \in N : id = ReportId(r)
          BY <3>2, <1>2
        <4>2. id[1][1] = c /\ id[1][2] = kind /\ id \in EventIds \X Owners
          BY <4>1, <1>1 DEF ReportId
        <4> QED BY <4>2
      <3> QED BY <3>1, <3>2
    <2> QED BY <2>1 DEF FiledOnce
  <1>7. ReportKeys'
    <2>1. ASSUME NEW r \in reports', NEW q \in reports', ReportId(r) = ReportId(q) PROVE r = q
      BY <2>1, <1>1, <1>2, <1>5
    <2>2. {ReportId(r) : r \in reports'} \subseteq filed'
      BY <1>2, <1>5
    <2>3. expired' \subseteq filed' /\ \A h \in handed' : h[1] \in filed'
      BY <1>2, <1>3 DEF ReportKeys
    <2> QED BY <2>1, <2>2, <2>3 DEF ReportKeys, ReportId
  <1>8. WaitingOrHanded'
    <2>1. ASSUME NEW r \in reports', r.delivered = NoTime
          PROVE  ReportId(r) \notin expired /\ \A h \in handed : h[1] # ReportId(r)
      <3>1. CASE r \in S
        <4>1. PICK q \in reports : ReportId(r) = ReportId(q) /\ r.delivered = q.delivered
          BY <3>1
        <4> QED BY <2>1, <4>1, <1>3 DEF WaitingOrHanded
      <3>2. CASE r \in N
        BY <3>2, <1>1, <1>3 DEF ReportKeys
      <3> QED BY <3>1, <3>2, <1>2
    <2>2. ASSUME NEW r \in reports', r.delivered # NoTime
          PROVE  \E d \in Calls : <<ReportId(r), d>> \in handed
      <3>1. r \in S
        BY <2>2, <1>1, <1>2
      <3>2. PICK q \in reports : ReportId(r) = ReportId(q) /\ r.delivered = q.delivered
        BY <3>1
      <3> QED BY <2>2, <3>2, <1>3 DEF WaitingOrHanded
    <2> QED BY <2>1, <2>2 DEF WaitingOrHanded, ReportId
  <1>9. HandedOnce'
    BY <1>3 DEF HandedOnce
  <1>10. ReportsAccounted'
    <2>1. ASSUME NEW id \in filed'
          PROVE  \/ \E r \in reports' : ReportId(r) = id /\ r.delivered = NoTime
                 \/ \E d \in Calls : <<id, d>> \in handed
                 \/ id \in expired
      <3>1. CASE id \in filed
        <4>1. CASE \E r \in reports : ReportId(r) = id /\ r.delivered = NoTime
          BY <4>1, <1>2
        <4> QED BY <3>1, <4>1, <1>3 DEF ReportsAccounted
      <3>2. CASE id \notin filed
        BY <3>2, <1>1, <1>2
      <3> QED BY <3>1, <3>2
    <2> QED BY <2>1 DEF ReportsAccounted, ReportId
  <1> QED BY <1>6, <1>7, <1>8, <1>9, <1>10 DEF ReportInv

LEMMA ReportsKept ==
    ASSUME TypeInv, ReportInv, Forward, UNCHANGED <<reports, filed, expired, handed>>
    PROVE  ReportInv'
PROOF
  <1>1. FiledOnce'
    <2>1. ASSUME NEW id \in filed
          PROVE  /\ id \in EventIds \X Owners
                 /\ id[1][2] = "drift" => hook'[id[1][1]].pc \notin {"idle", "read", "drift"}
                 /\ id[1][2] = "post" => hook'[id[1][1]].pc = "done"
      <3>1. /\ id \in EventIds \X Owners
            /\ id[1][2] = "drift" => hook[id[1][1]].pc \notin {"idle", "read", "drift"}
            /\ id[1][2] = "post" => hook[id[1][1]].pc = "done"
        BY DEF ReportInv, FiledOnce
      <3>2. id[1][1] \in Calls
        BY <3>1 DEF EventIds
      <3> QED BY <3>1, <3>2 DEF Forward
    <2> QED BY <2>1 DEF FiledOnce
  <1>2. ReportKeys' /\ WaitingOrHanded' /\ HandedOnce' /\ ReportsAccounted'
    BY DEF ReportInv, ReportKeys, WaitingOrHanded, HandedOnce, ReportsAccounted, ReportId
  <1> QED BY <1>1, <1>2 DEF ReportInv

LEMMA DeliveryAccounts ==
    ASSUME TypeInv, ReportInv, NEW c \in Calls, HookDeliver(c), Forward
    PROVE  ReportInv'
PROOF
  <1> DEFINE T == Taken(c)
             mark(r) == [r EXCEPT !.delivered = hook[c].tpre]
  <1>1. /\ reports' = (reports \ T) \union {mark(r) : r \in T}
        /\ handed' = handed \union {<<ReportId(r), c>> : r \in T}
        /\ UNCHANGED <<filed, expired>>
    BY DEF HookDeliver
  <1>2. \A r \in T : r \in reports /\ r.delivered = NoTime
    BY DEF Taken
  <1>3. \A r \in reports : ReportId(mark(r)) = ReportId(r) /\ mark(r).delivered # NoTime
    <2>1. hook[c].tpre \in Nat /\ hook[c].tpre # NoTime
      BY HookTyped, ObservationAssumption
    <2> QED BY <2>1, DeliveredMarks
  <1> HIDE DEF T, mark
  <1>4. FiledOnce /\ ReportKeys /\ WaitingOrHanded /\ HandedOnce /\ ReportsAccounted
    BY DEF ReportInv
  <1>5. \A r \in T : ReportId(r) \notin expired /\ \A h \in handed : h[1] # ReportId(r)
    BY <1>2, <1>4 DEF WaitingOrHanded
  <1>6. \A r, q \in reports : ReportId(r) = ReportId(q) => r = q
    BY <1>4 DEF ReportKeys
  <1>7. ASSUME NEW s \in reports'
        PROVE  \E r \in reports : /\ ReportId(s) = ReportId(r)
                                  /\ \/ s = r /\ r \notin T
                                     \/ r \in T /\ s = mark(r)
    BY <1>1, <1>2, <1>3
  <1>8. FiledOnce'
    <2>1. ASSUME NEW id \in filed
          PROVE  /\ id \in EventIds \X Owners
                 /\ id[1][2] = "drift" => hook'[id[1][1]].pc \notin {"idle", "read", "drift"}
                 /\ id[1][2] = "post" => hook'[id[1][1]].pc = "done"
      <3>1. id \in EventIds \X Owners
        BY <1>4 DEF FiledOnce
      <3>2. id[1][1] \in Calls
        BY <3>1 DEF EventIds
      <3> QED BY <3>1, <3>2, <1>4 DEF FiledOnce, Forward
    <2> QED BY <1>1, <2>1 DEF FiledOnce
  <1>9. ReportKeys'
    <2>1. ASSUME NEW r \in reports', NEW q \in reports', ReportId(r) = ReportId(q) PROVE r = q
      <3>1. PICK r1 \in reports : /\ ReportId(r) = ReportId(r1)
                                  /\ \/ r = r1 /\ r1 \notin T
                                     \/ r1 \in T /\ r = mark(r1)
        BY <1>7
      <3>2. PICK q1 \in reports : /\ ReportId(q) = ReportId(q1)
                                  /\ \/ q = q1 /\ q1 \notin T
                                     \/ q1 \in T /\ q = mark(q1)
        BY <1>7
      <3>3. r1 = q1
        BY <2>1, <3>1, <3>2, <1>6
      <3> QED BY <3>1, <3>2, <3>3
    <2>2. {ReportId(r) : r \in reports'} \subseteq filed'
      BY <1>1, <1>4, <1>7 DEF ReportKeys
    <2>3. expired' \subseteq filed' /\ \A h \in handed' : h[1] \in filed'
      BY <1>1, <1>2, <1>4 DEF ReportKeys
    <2> QED BY <2>1, <2>2, <2>3 DEF ReportKeys, ReportId
  <1>10. WaitingOrHanded'
    <2>1. ASSUME NEW r \in reports', r.delivered = NoTime
          PROVE  ReportId(r) \notin expired' /\ \A h \in handed' : h[1] # ReportId(r)
      <3>1. r \in reports /\ r \notin T
        BY <2>1, <1>3, <1>7
      <3>2. ReportId(r) \notin expired /\ \A h \in handed : h[1] # ReportId(r)
        BY <2>1, <3>1, <1>4 DEF WaitingOrHanded
      <3>3. \A q \in T : ReportId(q) # ReportId(r)
        BY <3>1, <1>2, <1>6
      <3> QED BY <3>2, <3>3, <1>1
    <2>2. ASSUME NEW r \in reports', r.delivered # NoTime
          PROVE  \E d \in Calls : <<ReportId(r), d>> \in handed'
      <3>1. PICK q \in reports : /\ ReportId(r) = ReportId(q)
                                 /\ (r = q /\ q \notin T) \/ q \in T
        BY <1>7
      <3>2. CASE q \in T
        BY <3>1, <3>2, <1>1
      <3>3. CASE r = q
        BY <2>2, <3>3, <1>1, <1>4, <3>1 DEF WaitingOrHanded
      <3> QED BY <3>1, <3>2, <3>3
    <2> QED BY <2>1, <2>2 DEF WaitingOrHanded, ReportId
  <1>11. HandedOnce'
    <2>1. ASSUME NEW h \in handed', NEW g \in handed'
          PROVE  (h[1] = g[1] => h = g) /\ h[1] \notin expired'
      <3>1. CASE h \in handed /\ g \in handed
        BY <3>1, <1>1, <1>4 DEF HandedOnce
      <3>2. CASE h \in handed /\ g \notin handed
        <4>1. PICK r \in T : g = <<ReportId(r), c>>
          BY <3>2, <1>1
        <4> QED BY <3>2, <4>1, <1>1, <1>4, <1>5 DEF HandedOnce
      <3>3. CASE h \notin handed
        <4>1. PICK r \in T : h = <<ReportId(r), c>>
          BY <3>3, <1>1
        <4>2. CASE g \in handed
          BY <4>1, <4>2, <1>1, <1>5
        <4>3. CASE g \notin handed
          <5>1. PICK q \in T : g = <<ReportId(q), c>>
            BY <4>3, <1>1
          <5> QED BY <4>1, <5>1, <1>1, <1>5
        <4> QED BY <4>2, <4>3
      <3> QED BY <3>1, <3>2, <3>3
    <2> QED BY <2>1 DEF HandedOnce
  <1>12. ReportsAccounted'
    <2>1. ASSUME NEW id \in filed
          PROVE  \/ \E r \in reports' : ReportId(r) = id /\ r.delivered = NoTime
                 \/ \E d \in Calls : <<id, d>> \in handed'
                 \/ id \in expired'
      <3>1. CASE \E r \in reports : ReportId(r) = id /\ r.delivered = NoTime
        <4>1. PICK r \in reports : ReportId(r) = id /\ r.delivered = NoTime
          BY <3>1
        <4>2. CASE r \in T
          BY <4>1, <4>2, <1>1
        <4>3. CASE r \notin T
          BY <4>1, <4>3, <1>1
        <4> QED BY <4>2, <4>3
      <3> QED BY <3>1, <1>1, <1>4 DEF ReportsAccounted
    <2> QED BY <1>1, <2>1 DEF ReportsAccounted, ReportId
  <1> QED BY <1>8, <1>9, <1>10, <1>11, <1>12 DEF ReportInv

(* What is capped had no report waiting on it; what ages out leaves a row. *)
LEMMA RetentionAccounts ==
    ASSUME TypeInv, ReportInv, DropOldTreeEvents, Forward
    PROVE  ReportInv'
PROOF
  <1> DEFINE aged == {r \in reports : r.delivered = NoTime /\ r.at + UndeliveredAge < now}
             left == reports \ aged
             pool == Cappable(left)
  <1>1. PICK gone \in SUBSET pool :
            /\ reports' = {r \in left : \A e \in gone : r.event # e.id}
            /\ expired' = expired \union {ReportId(r) : r \in aged}
            /\ UNCHANGED <<filed, handed>>
    BY DEF DropOldTreeEvents
  <1>2. \A r \in aged : r \in reports /\ r.delivered = NoTime
    OBVIOUS
  <1>3. \A e \in gone, r \in left : r.event = e.id => r.delivered # NoTime
    BY DEF Cappable
  <1>4. reports' \subseteq reports /\ left = reports \ aged
    BY <1>1
  <1> HIDE DEF aged, left, pool
  <1>5. FiledOnce /\ ReportKeys /\ WaitingOrHanded /\ HandedOnce /\ ReportsAccounted
    BY DEF ReportInv
  <1>6. FiledOnce'
    <2>1. ASSUME NEW id \in filed
          PROVE  /\ id \in EventIds \X Owners
                 /\ id[1][2] = "drift" => hook'[id[1][1]].pc \notin {"idle", "read", "drift"}
                 /\ id[1][2] = "post" => hook'[id[1][1]].pc = "done"
      <3>1. id \in EventIds \X Owners
        BY <1>5 DEF FiledOnce
      <3>2. id[1][1] \in Calls
        BY <3>1 DEF EventIds
      <3> QED BY <3>1, <3>2, <1>5 DEF FiledOnce, Forward
    <2> QED BY <1>1, <2>1 DEF FiledOnce
  <1>7. ReportKeys'
    <2>1. \A r, q \in reports' : ReportId(r) = ReportId(q) => r = q
      BY <1>4, <1>5 DEF ReportKeys
    <2>2. {ReportId(r) : r \in reports'} \subseteq filed'
      BY <1>1, <1>4, <1>5 DEF ReportKeys
    <2>3. expired' \subseteq filed' /\ \A h \in handed' : h[1] \in filed'
      BY <1>1, <1>2, <1>5 DEF ReportKeys
    <2> QED BY <2>1, <2>2, <2>3 DEF ReportKeys, ReportId
  <1>8. WaitingOrHanded'
    <2>1. ASSUME NEW r \in reports', r.delivered = NoTime
          PROVE  ReportId(r) \notin expired' /\ \A h \in handed' : h[1] # ReportId(r)
      <3>1. r \in left /\ r \in reports
        BY <1>1, <1>4
      <3>2. \A q \in aged : ReportId(q) # ReportId(r)
        BY <3>1, <1>2, <1>4, <1>5 DEF ReportKeys
      <3> QED BY <2>1, <3>1, <3>2, <1>1, <1>5 DEF WaitingOrHanded
    <2>2. ASSUME NEW r \in reports', r.delivered # NoTime
          PROVE  \E d \in Calls : <<ReportId(r), d>> \in handed'
      BY <2>2, <1>1, <1>4, <1>5 DEF WaitingOrHanded
    <2> QED BY <2>1, <2>2 DEF WaitingOrHanded, ReportId
  <1>9. HandedOnce'
    <2>1. ASSUME NEW h \in handed PROVE h[1] \notin expired'
      <3>1. \A r \in aged : h[1] # ReportId(r)
        BY <1>2, <1>5 DEF WaitingOrHanded
      <3> QED BY <3>1, <1>1, <1>5 DEF HandedOnce
    <2> QED BY <2>1, <1>1, <1>5 DEF HandedOnce
  <1>10. ReportsAccounted'
    <2>1. ASSUME NEW id \in filed
          PROVE  \/ \E r \in reports' : ReportId(r) = id /\ r.delivered = NoTime
                 \/ \E d \in Calls : <<id, d>> \in handed'
                 \/ id \in expired'
      <3>1. CASE \E r \in reports : ReportId(r) = id /\ r.delivered = NoTime
        <4>1. PICK r \in reports : ReportId(r) = id /\ r.delivered = NoTime
          BY <3>1
        <4>2. CASE r \in aged
          BY <4>1, <4>2, <1>1
        <4>3. CASE r \notin aged
          <5>1. r \in left
            BY <4>3, <1>4
          <5> QED BY <4>1, <5>1, <1>1, <1>3
        <4> QED BY <4>2, <4>3
      <3> QED BY <3>1, <1>1, <1>5 DEF ReportsAccounted
    <2> QED BY <1>1, <2>1 DEF ReportsAccounted, ReportId
  <1> QED BY <1>6, <1>7, <1>8, <1>9, <1>10 DEF ReportInv

LEMMA StepsForward ==
    ASSUME TypeInv, [Next]_vars
    PROVE  Forward
PROOF
  <1>1. ASSUME NEW c \in Calls, NEW pc, NEW t, NEW obs, NEW p, NEW n, Becomes(c, pc, t, obs, p, n),
               \/ hook[c].pc \in {"idle", "read"}
               \/ hook[c].pc \notin {"idle", "read", "done"} /\ pc \notin {"idle", "read", "drift"}
        PROVE  Forward
    BY <1>1 DEF Becomes, Forward
  <1>2. ASSUME NEW c \in Calls, HookLook(c) \/ HookRead(c) PROVE Forward
    <2>1. hook[c].pc \in {"idle", "read"}
      BY <1>2 DEF HookLook, HookRead
    <2>2. CASE HookLook(c)
      BY <1>1, <2>1, <2>2, LookMoves
    <2>3. CASE HookRead(c)
      BY <1>1, <2>1, <2>3, ReadMoves
    <2> QED BY <1>2, <2>2, <2>3
  <1>3. ASSUME NEW c \in Calls, HookDrift(c) \/ HookPending(c) \/ HookDeliver(c) \/ HookDeliverFails(c)
        PROVE  Forward
    <2>1. PICK pc \in {"pending", "deliver", "record"}, pend \in SUBSET (EventIds \X Owners) :
               /\ Becomes(c, pc, hook[c].tpre, hook[c].obs, pend, hook[c].noted)
               /\ hook[c].pc \in {"drift", "pending", "deliver"}
      BY <1>3, PassMoves
    <2> QED BY <1>1, <2>1
  <1>4. ASSUME NEW c \in Calls, HookRecord(c) PROVE Forward
    <2>1. hook[c].pc = "record"
      BY <1>4 DEF HookRecord
    <2> QED BY <1>1, <1>4, <2>1, RecordMoves
  <1>5. ASSUME NEW c \in Calls, HookFailOpen(c) PROVE Forward
    <2>1. hook[c].pc = "record"
      BY <1>5 DEF HookFailOpen
    <2> QED BY <1>1, <1>5, <2>1, FailOpenMoves
  <1>6. ASSUME NEW c \in Calls, PostObserve(c) PROVE Forward
    <2>1. hook[c].pc = "running"
      BY <1>6 DEF PostObserve
    <2> QED BY <1>1, <1>6, <2>1, ObserveMoves
  <1>7. ASSUME NEW c \in Calls, HookPost(c) PROVE Forward
    <2>1. hook[c].pc = "post"
      BY <1>7 DEF HookPost
    <2> QED BY <1>1, <1>7, <2>1, PostMoves
  <1>8. ASSUME MarkDeadOwnerCalls PROVE Forward
    BY <1>8, MarkMoves DEF Forward
  <1>9. ASSUME UNCHANGED hook PROVE Forward
    BY <1>9 DEF Forward
  <1>10. ASSUME \/ \E c \in Calls : ToolWrites(c)
                \/ DropFinishedCalls \/ DropOldTreeEvents \/ OutsideWrites \/ LockTaken \/ LockEnds
                \/ SessionDies \/ Tick \/ UNCHANGED vars
         PROVE  UNCHANGED hook
    BY <1>10 DEF ToolWrites, OutsideWrites, Write, DropFinishedCalls, DropOldTreeEvents, LockTaken,
                 LockEnds, SessionDies, Tick, vars
  <1> QED BY <1>2, <1>3, <1>4, <1>5, <1>6, <1>7, <1>8, <1>9, <1>10 DEF Next

LEMMA ReportStep ==
    ASSUME TypeInv, ReportInv, [Next]_vars
    PROVE  ReportInv'
PROOF
  <1>0. Forward
    BY StepsForward
  <1>1. ASSUME NEW c \in Calls, HookDrift(c), RecordDrift(c) PROVE ReportInv'
    <2>1. /\ hook[c].pc = "drift" /\ hook'[c].pc \notin {"idle", "read", "drift"}
      <3>1. hook[c].pc = "drift"
        BY <1>1 DEF HookDrift
      <3>2. PICK pc \in {"pending", "deliver", "record"}, pend \in SUBSET (EventIds \X Owners) :
               Becomes(c, pc, hook[c].tpre, hook[c].obs, pend, hook[c].noted)
        BY <1>1, PassMoves
      <3> QED BY <3>1, <3>2 DEF Becomes
    <2>2. UNCHANGED <<handed, expired>>
      BY <1>1 DEF HookDrift, RecordDrift
    <2>3. \A s, q \in reports : ReportId(s) = ReportId(q) => s = q
      BY DEF ReportInv, ReportKeys
    <2>4. hook[c].tpre \in Nat
      BY HookTyped
    <2> QED BY <1>0, <1>1, <2>1, <2>2, <2>3, <2>4, DriftFiles, FilingAccounts
  <1>2. ASSUME NEW c \in Calls, HookPost(c), c \in DOMAIN calls, RecordCallPost(c) PROVE ReportInv'
    <2> DEFINE A == Acted(c)
               mark(r) == [r EXCEPT !.acted = TRUE]
               S == (reports \ A) \union {mark(r) : r \in A}
    <2>1. hook[c].pc = "post" /\ hook'[c].pc = "done"
      BY <1>2, PostMoves DEF HookPost, Becomes
    <2>2. UNCHANGED <<handed, expired>>
      BY <1>2 DEF HookPost, RecordCallPost
    <2>3. \A s, q \in reports : ReportId(s) = ReportId(q) => s = q
      BY DEF ReportInv, ReportKeys
    <2>4. A \subseteq reports
      BY DEF Acted, Answered
    <2>5. \A r \in reports : ReportId(mark(r)) = ReportId(r) /\ mark(r).delivered = r.delivered
      BY ActedMarks
    <2>6. now \in Nat
      BY DEF TypeInv
    <2>7. File(PostIns(c), S)
      BY <1>2, PostFiles
    <2> HIDE DEF A, mark
    <2>8. \A s \in S : \E r \in reports : /\ ReportId(s) = ReportId(r) /\ s.delivered = r.delivered
                                          /\ \/ s = r /\ r \notin A
                                             \/ r \in A /\ s = mark(r)
      BY <2>4, <2>5
    <2>9. \A r \in reports : \E s \in S : ReportId(s) = ReportId(r) /\ s.delivered = r.delivered
      BY <2>4, <2>5
    <2> HIDE DEF S
    <2>10. \A s, q \in S : ReportId(s) = ReportId(q) => s = q
      BY <2>3, <2>8
    <2>11. \A in \in PostIns(c) :
               /\ in.id \in EventIds /\ in.at \in Nat /\ in.holder \in Holder
               /\ in.holderNow \in Holder /\ in.observer \in Owners
               /\ in.id[1] = c /\ in.id[2] = "post" /\ in.at = now
      BY <1>2, PostFiles
    <2>12. \A s \in S : \E r \in reports : ReportId(s) = ReportId(r) /\ s.delivered = r.delivered
      BY <2>8
    <2> QED BY <1>0, <2>1, <2>2, <2>6, <2>7, <2>9, <2>10, <2>11, <2>12, FilingAccounts
  <1>3. ASSUME NEW c \in Calls, HookDeliver(c) PROVE ReportInv'
    BY <1>0, <1>3, DeliveryAccounts
  <1>4. ASSUME DropOldTreeEvents PROVE ReportInv'
    BY <1>0, <1>4, RetentionAccounts
  <1>5. ASSUME UNCHANGED <<reports, filed, expired, handed>> PROVE ReportInv'
    BY <1>0, <1>5, ReportsKept
  <1>6. ASSUME NEW c \in Calls, \/ HookLook(c) \/ HookRead(c) \/ HookPending(c) \/ HookDeliverFails(c)
                                \/ HookRecord(c) \/ HookFailOpen(c) \/ PostObserve(c) \/ ToolWrites(c)
                                \/ HookDrift(c) /\ UNCHANGED storeVars
                                \/ HookPost(c) /\ UNCHANGED storeVars
        PROVE  UNCHANGED <<reports, filed, expired, handed>>
    BY <1>6 DEF HookLook, HookRead, HookPending, HookDeliverFails, HookRecord, HookFailOpen,
                PostObserve, ToolWrites, Write, HookDrift, HookPost, storeVars
  <1>7. ASSUME \/ MarkDeadOwnerCalls \/ DropFinishedCalls \/ OutsideWrites \/ LockTaken \/ LockEnds
               \/ SessionDies \/ Tick \/ UNCHANGED vars
        PROVE  UNCHANGED <<reports, filed, expired, handed>>
    BY <1>7 DEF MarkDeadOwnerCalls, DropFinishedCalls, OutsideWrites, Write, LockTaken, LockEnds,
                SessionDies, Tick, vars, storeVars
  <1>8. ASSUME NEW c \in Calls, HookDrift(c) PROVE ReportInv'
    BY <1>1, <1>5, <1>6, <1>8 DEF HookDrift
  <1>9. ASSUME NEW c \in Calls, HookPost(c) PROVE ReportInv'
    BY <1>2, <1>5, <1>6, <1>9 DEF HookPost
  <1> QED BY <1>3, <1>4, <1>5, <1>6, <1>7, <1>8, <1>9 DEF Next

LEMMA ReportsInductive == Spec => [](TypeInv /\ ReportInv)
PROOF
  <1>1. Init => TypeInv /\ ReportInv
    BY TypeInit DEF Init, ReportInv, FiledOnce, ReportKeys, WaitingOrHanded, HandedOnce,
                    ReportsAccounted
  <1>2. (TypeInv /\ ReportInv) /\ [Next]_vars => (TypeInv /\ ReportInv)'
    BY TypeStep, ReportStep
  <1> QED BY <1>1, <1>2, PTL DEF Spec

(* DeliverReports (tree_events.go) reads what waits and takes in one       *)
(* transaction what nobody took since: however many pre-hooks of an owner  *)
(* are between the two, no report reaches two of them, and none reaches    *)
(* one after the retention wrote it off.                                   *)
THEOREM DeliveredOnce == Spec => []HandedOnce
PROOF
  <1>1. TypeInv /\ ReportInv => HandedOnce
    BY DEF ReportInv
  <1> QED BY <1>1, ReportsInductive, PTL

(* DropOldTreeEvents: the row cap only takes events no report waits on and *)
(* the age limit leaves a row, so of whatever was filed, each report is    *)
(* handed over, waits or is on record as dropped.                          *)
THEOREM ReportsNeverVanish == Spec => []ReportsAccounted
PROOF
  <1>1. TypeInv /\ ReportInv => ReportsAccounted
    BY DEF ReportInv
  <1> QED BY <1>1, ReportsInductive, PTL

------------------------------------------------------------------------------
(* Attribution: what a step makes of one process, one row, one number and  *)
(* one file.                                                               *)

Stays(d) ==
    /\ hook'[d].obs = hook[d].obs /\ hook'[d].tpre = hook[d].tpre /\ hook'[d].noted = hook[d].noted
    /\ \/ hook'[d].pc = hook[d].pc
       \/ /\ hook[d].pc \in {"drift", "pending", "deliver"} /\ Alive(d)
          /\ hook'[d].pc \in {"pending", "deliver", "record"}

Looks(d) ==
    /\ HookLook(d) /\ hook[d].pc = "idle" /\ hook'[d].pc = "read" /\ hook'[d].tpre = now
    /\ hook'[d].obs = Look(Declares[d]) /\ hook'[d].noted = hook[d].noted
    /\ hook'[d].lost = hook[d].lost

Reads(d) ==
    /\ HookRead(d) /\ hook[d].pc = "read" /\ hook'[d].pc = "drift" /\ hook'[d].tpre = hook[d].tpre
    /\ hook'[d].obs = ReadNow(hook[d].obs) /\ hook'[d].noted = hook[d].noted
    /\ hook'[d].lost = hook[d].lost

Records(d) ==
    /\ HookRecord(d) /\ hook[d].pc = "record" /\ hook'[d].pc = "running" /\ hook'[d].tpre = 0
    /\ hook'[d].obs = <<>> /\ hook'[d].noted = Noted(hook[d].obs) /\ hook'[d].lost = hook[d].lost

FailsOpen(d) ==
    /\ HookFailOpen(d) /\ hook[d].pc = "record" /\ hook'[d].pc = "done" /\ hook'[d].tpre = 0
    /\ hook'[d].obs = <<>> /\ hook'[d].noted = {}

Observes(d) ==
    /\ PostObserve(d) /\ hook[d].pc = "running" /\ hook'[d].pc = "post"
    /\ hook'[d].tpre = hook[d].tpre /\ hook'[d].obs = PostSees(d)
    /\ hook'[d].noted = hook[d].noted /\ hook'[d].lost = hook[d].lost

Posts(d) ==
    /\ HookPost(d) /\ hook[d].pc = "post" /\ hook'[d].pc = "done" /\ hook'[d].tpre = hook[d].tpre
    /\ hook'[d].obs = <<>> /\ hook'[d].noted = hook[d].noted /\ hook'[d].lost = hook[d].lost

HookView(d) ==
    \/ Stays(d) /\ (hook'[d].lost = hook[d].lost \/ MarkDeadOwnerCalls)
    \/ Looks(d) \/ Reads(d) \/ Records(d) \/ FailsOpen(d) \/ Observes(d) \/ Posts(d)

LEMMA HookViews ==
    ASSUME TypeInv, [Next]_vars, NEW d \in Calls
    PROVE  HookView(d) /\ (hook[d].lost /\ hook[d].pc # "record" => hook'[d].lost)
PROOF
  <1> DEFINE Goal == HookView(d) /\ (hook[d].lost /\ hook[d].pc # "record" => hook'[d].lost)
  <1>1. ASSUME hook'[d] = hook[d] PROVE Goal
    BY <1>1 DEF HookView, Stays
  <1>2. ASSUME NEW c \in Calls, NEW pc, NEW t, NEW obs, NEW p, NEW n, Becomes(c, pc, t, obs, p, n),
               c # d
        PROVE  Goal
    BY <1>1, <1>2 DEF Becomes
  <1>3. ASSUME NEW c \in Calls, HookLook(c) PROVE Goal
    <2>1. CASE c # d
      BY <1>2, <1>3, <2>1, LookMoves
    <2>2. CASE c = d
      BY <1>3, <2>2, LookMoves DEF HookView, Looks, Becomes, HookLook
    <2> QED BY <2>1, <2>2
  <1>4. ASSUME NEW c \in Calls, HookRead(c) PROVE Goal
    <2>1. CASE c # d
      BY <1>2, <1>4, <2>1, ReadMoves
    <2>2. CASE c = d
      <3>1. Reads(d)
        <4>1. HookRead(d) /\ hook[d].pc = "read"
          BY <1>4, <2>2 DEF HookRead
        <4>2. Becomes(d, "drift", hook[d].tpre, ReadNow(hook[d].obs), hook[d].pending, hook[d].noted)
              /\ hook'[d].lost = hook[d].lost
          BY <4>1, ReadMoves
        <4> QED BY <4>1, <4>2 DEF Reads, Becomes
      <3>2. hook'[d].lost = hook[d].lost
        BY <3>1 DEF Reads
      <3> QED BY <3>1, <3>2 DEF HookView
    <2> QED BY <2>1, <2>2
  <1>5. ASSUME NEW c \in Calls, HookDrift(c) \/ HookPending(c) \/ HookDeliver(c) \/ HookDeliverFails(c)
        PROVE  Goal
    <2>1. PICK pc \in {"pending", "deliver", "record"}, pend \in SUBSET (EventIds \X Owners) :
               /\ Becomes(c, pc, hook[c].tpre, hook[c].obs, pend, hook[c].noted)
               /\ hook'[c].lost = hook[c].lost
               /\ hook[c].pc \in {"drift", "pending", "deliver"} /\ Alive(c)
      BY <1>5, PassMoves
    <2>2. CASE c # d
      BY <1>2, <2>1, <2>2
    <2>3. CASE c = d
      BY <2>1, <2>3 DEF HookView, Stays, Becomes
    <2> QED BY <2>2, <2>3
  <1>6. ASSUME NEW c \in Calls, HookRecord(c) PROVE Goal
    <2>1. CASE c # d
      BY <1>2, <1>6, <2>1, RecordMoves
    <2>2. CASE c = d
      <3>1. hook[c].pc = "record"
        BY <1>6 DEF HookRecord
      <3> QED BY <1>6, <2>2, <3>1, RecordMoves DEF HookView, Records, Becomes
    <2> QED BY <2>1, <2>2
  <1>7. ASSUME NEW c \in Calls, HookFailOpen(c) PROVE Goal
    <2>1. CASE c # d
      BY <1>2, <1>7, <2>1, FailOpenMoves
    <2>2. CASE c = d
      BY <1>7, <2>2, FailOpenMoves DEF HookView, FailsOpen, Becomes, HookFailOpen
    <2> QED BY <2>1, <2>2
  <1>8. ASSUME NEW c \in Calls, PostObserve(c) PROVE Goal
    <2>1. CASE c # d
      BY <1>2, <1>8, <2>1, ObserveMoves
    <2>2. CASE c = d
      <3>1. hook[c].pc = "running"
        BY <1>8 DEF PostObserve
      <3> QED BY <1>8, <2>2, <3>1, ObserveMoves DEF HookView, Observes, Becomes
    <2> QED BY <2>1, <2>2
  <1>9. ASSUME NEW c \in Calls, HookPost(c) PROVE Goal
    <2>1. CASE c # d
      BY <1>2, <1>9, <2>1, PostMoves
    <2>2. CASE c = d
      BY <1>9, <2>2, PostMoves DEF HookView, Posts, Becomes, HookPost
    <2> QED BY <2>1, <2>2
  <1>10. ASSUME MarkDeadOwnerCalls PROVE Goal
    BY <1>10, MarkMoves DEF HookView, Stays
  <1>11. ASSUME \/ \E c \in Calls : ToolWrites(c)
                \/ DropFinishedCalls \/ DropOldTreeEvents \/ OutsideWrites \/ LockTaken \/ LockEnds
                \/ SessionDies \/ Tick \/ UNCHANGED vars
         PROVE  UNCHANGED hook
    BY <1>11 DEF ToolWrites, OutsideWrites, Write, DropFinishedCalls, DropOldTreeEvents, LockTaken,
                 LockEnds, SessionDies, Tick, vars
  <1> HIDE DEF Goal
  <1>12. Goal
    BY <1>1, <1>3, <1>4, <1>5, <1>6, <1>7, <1>8, <1>9, <1>10, <1>11 DEF Next
  <1> QED BY <1>12 DEF Goal

NewRow(k) ==
    /\ HookRecord(k) /\ calls'[k].tpre = hook[k].tpre /\ calls'[k].state = "open"
    /\ calls'[k].post = <<>> /\ DOMAIN calls'[k].paths = DOMAIN hook[k].obs
    /\ \A f \in DOMAIN hook[k].obs : calls'[k].paths[f] = RowOf(hook[k].obs, f)

PostedRow(k) ==
    /\ HookPost(k) /\ k \in DOMAIN calls /\ RecordCallPost(k)
    /\ calls'[k].tpre = calls[k].tpre /\ calls'[k].state = "posted" /\ calls'[k].ended = now
    /\ DOMAIN calls'[k].paths = DOMAIN hook[k].obs /\ DOMAIN calls'[k].post = DOMAIN hook[k].obs
    /\ \A f \in DOMAIN hook[k].obs : /\ calls'[k].paths[f] = Prior(k, f)
                                     /\ calls'[k].post[f] = SeqPost(k, f)

DeadRow(k) ==
    /\ MarkDeadOwnerCalls /\ k \in DOMAIN calls /\ calls[k].state = "open" /\ hook'[k].lost
    /\ calls'[k].paths = calls[k].paths /\ calls'[k].post = calls[k].post
    /\ calls'[k].tpre = calls[k].tpre /\ calls'[k].state = "dead"

RowView(k) ==
    \/ k \in DOMAIN calls /\ calls'[k] = calls[k]
    \/ NewRow(k) \/ PostedRow(k) \/ DeadRow(k)

LEMMA RowViews ==
    ASSUME TypeInv, [Next]_vars
    PROVE  /\ \A k \in DOMAIN calls' : RowView(k)
           /\ \A k \in DOMAIN calls : k \in DOMAIN calls' \/ (DropFinishedCalls /\ k \in Forgotten)
PROOF
  <1> DEFINE Goal == /\ \A k \in DOMAIN calls' : RowView(k)
                     /\ \A k \in DOMAIN calls :
                            k \in DOMAIN calls' \/ (DropFinishedCalls /\ k \in Forgotten)
  <1>1. ASSUME UNCHANGED calls PROVE Goal
    BY <1>1 DEF RowView
  <1>2. ASSUME NEW c \in Calls, HookRecord(c) PROVE Goal
    <2>1. NewRow(c) /\ DOMAIN calls' = DOMAIN calls \union {c}
      BY <1>2, RecordRows DEF NewRow
    <2>2. \A k \in DOMAIN calls : k # c => calls'[k] = calls[k]
      BY <1>2, RecordRows
    <2> QED BY <2>1, <2>2 DEF RowView
  <1>3. ASSUME NEW c \in Calls, HookPost(c), c \in DOMAIN calls, RecordCallPost(c) PROVE Goal
    <2>1. PostedRow(c) /\ DOMAIN calls' = DOMAIN calls
      BY <1>3, PostRows DEF PostedRow
    <2>2. \A k \in DOMAIN calls : k # c => calls'[k] = calls[k]
      BY <1>3, PostRows
    <2> QED BY <2>1, <2>2 DEF RowView
  <1>4. ASSUME MarkDeadOwnerCalls PROVE Goal
    <2>1. DOMAIN calls \subseteq Calls /\ DOMAIN calls' = DOMAIN calls
      BY <1>4, CallsTyped, MarkMoves
    <2>2. ASSUME NEW k \in DOMAIN calls PROVE RowView(k)
      <3>1. CASE k \in Swept
        <4>1. /\ calls'[k].paths = calls[k].paths /\ calls'[k].post = calls[k].post
              /\ calls'[k].tpre = calls[k].tpre /\ calls[k].state = "open" /\ calls'[k].state = "dead"
          BY <1>4, <3>1, MarkMoves
        <4>2. hook'[k].lost
          BY <1>4, <2>1, <3>1, MarkMoves
        <4> QED BY <1>4, <4>1, <4>2 DEF RowView, DeadRow
      <3>2. CASE k \notin Swept
        BY <1>4, <3>2, MarkMoves DEF RowView
      <3> QED BY <3>1, <3>2
    <2> QED BY <2>1, <2>2
  <1>5. ASSUME DropFinishedCalls PROVE Goal
    BY <1>5, DropRows DEF RowView
  <1>6. ASSUME NEW c \in Calls, \/ HookLook(c) \/ HookRead(c) \/ HookPending(c) \/ HookDeliver(c)
                                \/ HookDeliverFails(c) \/ HookDrift(c) \/ HookFailOpen(c)
                                \/ PostObserve(c) \/ ToolWrites(c)
                                \/ HookPost(c) /\ UNCHANGED storeVars
        PROVE  UNCHANGED calls
    BY <1>6 DEF HookLook, HookRead, HookPending, HookDeliver, HookDeliverFails, HookDrift, RecordDrift,
                HookFailOpen, PostObserve, ToolWrites, Write, HookPost, storeVars
  <1>7. ASSUME \/ DropOldTreeEvents \/ OutsideWrites \/ LockTaken \/ LockEnds
               \/ SessionDies \/ Tick \/ UNCHANGED vars
        PROVE  UNCHANGED calls
    BY <1>7 DEF DropOldTreeEvents, OutsideWrites, Write, LockTaken, LockEnds, SessionDies, Tick, vars,
                storeVars
  <1> HIDE DEF Goal
  <1>8. ASSUME NEW c \in Calls, HookPost(c) PROVE Goal
    BY <1>1, <1>3, <1>6, <1>8 DEF HookPost
  <1>9. Goal
    BY <1>1, <1>2, <1>4, <1>5, <1>6, <1>7, <1>8 DEF Next
  <1> QED BY <1>9 DEF Goal

(* A number stays, or rises by one to bytes a hook had read. *)
SeqView(f, e) ==
    \/ path_seq'[f][e] = path_seq[f][e]
    \/ /\ path_seq'[f][e].seq = path_seq[f][e].seq + 1
       /\ \E d \in Calls : /\ HasRead(d) /\ f \in DOMAIN hook[d].obs
                           /\ path_seq'[f][e].digest = hook[d].obs[f].state.digest

LEMMA SeqViews ==
    ASSUME TypeInv, [Next]_vars, NEW f \in Files, NEW e \in Epochs
    PROVE  /\ SeqView(f, e)
           /\ path_seq[f][e].seq \in Nat /\ path_seq'[f][e].seq \in Nat
           /\ path_seq[f][e].seq <= path_seq'[f][e].seq
PROOF
  <1>1. path_seq[f][e].seq \in Nat
    BY DEF TypeInv, Line
  <1>2. ASSUME UNCHANGED path_seq PROVE SeqView(f, e)
    BY <1>2 DEF SeqView
  <1>3. ASSUME NEW c \in Calls, HookDrift(c), RecordDrift(c) PROVE SeqView(f, e)
    <2>1. hook[c].pc = "drift"
      BY <1>3 DEF HookDrift
    <2>2. path_seq'[f][e] = IF f \in Drifted(hook[c].obs) /\ e = hook[c].obs[f].epoch
                            THEN Numbering(f, e, hook[c].obs[f].state) ELSE path_seq[f][e]
      BY <1>3, <2>1, DriftStores
    <2>3. Drifted(hook[c].obs) \subseteq DOMAIN hook[c].obs
      BY DEF Drifted
    <2> QED BY <2>1, <2>2, <2>3 DEF SeqView, Numbering, HasRead
  <1>4. ASSUME NEW c \in Calls, HookPost(c), c \in DOMAIN calls, RecordCallPost(c)
        PROVE  SeqView(f, e)
    <2>1. hook[c].pc = "post"
      BY <1>4 DEF HookPost
    <2>2. path_seq'[f][e] = IF f \in Numbered(c) /\ e = Prior(c, f).epoch
                            THEN Numbering(f, e, hook[c].obs[f].state) ELSE path_seq[f][e]
      BY <1>4, <2>1, PostStores
    <2>3. Numbered(c) \subseteq DOMAIN hook[c].obs
      BY DEF Numbered, Changed
    <2> QED BY <2>1, <2>2, <2>3 DEF SeqView, Numbering, HasRead
  <1>5. ASSUME NEW c \in Calls, \/ HookLook(c) \/ HookRead(c) \/ HookPending(c) \/ HookDeliver(c)
                                \/ HookDeliverFails(c) \/ HookFailOpen(c) \/ HookRecord(c)
                                \/ PostObserve(c) \/ ToolWrites(c)
                                \/ HookDrift(c) /\ UNCHANGED storeVars
                                \/ HookPost(c) /\ UNCHANGED storeVars
        PROVE  UNCHANGED path_seq
    BY <1>5 DEF HookLook, HookRead, HookPending, HookDeliver, HookDeliverFails, HookDrift, HookRecord,
                HookFailOpen, PostObserve, ToolWrites, Write, HookPost, storeVars
  <1>6. ASSUME \/ DropOldTreeEvents \/ DropFinishedCalls \/ MarkDeadOwnerCalls \/ OutsideWrites
               \/ LockTaken \/ LockEnds \/ SessionDies \/ Tick \/ UNCHANGED vars
        PROVE  UNCHANGED path_seq
    BY <1>6 DEF DropOldTreeEvents, DropFinishedCalls, MarkDeadOwnerCalls, OutsideWrites, Write,
                LockTaken, LockEnds, SessionDies, Tick, vars, storeVars
  <1>7. ASSUME NEW c \in Calls, HookDrift(c) \/ HookPost(c) PROVE SeqView(f, e)
    BY <1>2, <1>3, <1>4, <1>5, <1>7 DEF HookDrift, HookPost
  <1>8. SeqView(f, e)
    BY <1>2, <1>5, <1>6, <1>7 DEF Next
  <1>9. path_seq[f][e].seq <= path_seq'[f][e].seq /\ path_seq'[f][e].seq \in Nat
    BY <1>1, <1>8 DEF SeqView
  <1> QED BY <1>1, <1>8, <1>9

(* The tree changes by a write of a running tool or from outside. *)
LEMMA TreeViews ==
    ASSUME TypeInv, [Next]_vars
    PROVE  \/ UNCHANGED <<disk, wrote, writes>>
           \/ \E f \in Files, by \in Calls \union {Outside} :
                  Write(f, by) /\ (by \in Calls => hook[by].pc = "running")
PROOF
  <1>1. ASSUME NEW c \in Calls, \/ HookLook(c) \/ HookRead(c) \/ HookPending(c) \/ HookDeliver(c)
                                \/ HookDeliverFails(c) \/ HookFailOpen(c) \/ HookRecord(c)
                                \/ PostObserve(c) \/ HookDrift(c) \/ HookPost(c)
        PROVE  UNCHANGED <<disk, wrote, writes>>
    BY <1>1 DEF HookLook, HookRead, HookPending, HookDeliver, HookDeliverFails, HookDrift, HookRecord,
                HookFailOpen, PostObserve, HookPost, treeVars
  <1>2. ASSUME \/ DropOldTreeEvents \/ DropFinishedCalls \/ MarkDeadOwnerCalls
               \/ LockTaken \/ LockEnds \/ SessionDies \/ Tick \/ UNCHANGED vars
        PROVE  UNCHANGED <<disk, wrote, writes>>
    BY <1>2 DEF DropOldTreeEvents, DropFinishedCalls, MarkDeadOwnerCalls,
                LockTaken, LockEnds, SessionDies, Tick, vars, treeVars
  <1> QED BY <1>1, <1>2, ObservationAssumption DEF Next, ToolWrites, OutsideWrites

LEMMA WroteGrows ==
    ASSUME TypeInv, [Next]_vars
    PROVE  wrote \subseteq wrote'
PROOF
  <1>1. ASSUME NEW f \in Files, NEW by \in Calls \union {Outside}, Write(f, by)
        PROVE  wrote \subseteq wrote'
    BY <1>1, WriteTyped
  <1> QED BY <1>1, TreeViews

------------------------------------------------------------------------------
(* Bookkeeping. *)

LEMMA WritesStep ==
    ASSUME TypeInv, WritesInv, RowsInv, [Next]_vars
    PROVE  WritesInv'
PROOF
  <1>0. wrote \subseteq wrote'
    BY WroteGrows
  <1>1. \A w \in wrote : w.file \in Files /\ w.stat \in Nat
    BY DEF TypeInv
  <1>2. \A f, s : WroteState(f, s) => WroteState(f, s)'
    BY <1>0 DEF WroteState
  <1>3. ASSUME NEW w \in wrote' PROVE w.stat <= writes'[w.file].all + 1
    <2>1. CASE UNCHANGED <<disk, wrote, writes>>
      BY <1>3, <2>1 DEF WritesInv
    <2>2. ASSUME NEW f \in Files, NEW by \in Calls \union {Outside}, Write(f, by)
          PROVE  w.stat <= writes'[w.file].all + 1
      <3>1. PICK v \in [file : {f}, digest : Content, stat : {0, writes[f].all + 2}, by : {by}] :
                wrote' = wrote \union {v}
        BY <2>2, WriteTyped
      <3>2. /\ writes'[f].all = writes[f].all + 1 /\ writes[f].all \in Nat
            /\ \A g \in Files : g # f => writes'[g] = writes[g]
        BY <2>2, WriteTyped DEF TypeInv
      <3>3. CASE w \in wrote
        <4>1. w.stat <= writes[w.file].all + 1 /\ w.file \in Files /\ w.stat \in Nat
          BY <3>3, <1>1 DEF WritesInv
        <4>2. writes[w.file].all \in Nat
          BY <4>1 DEF TypeInv
        <4> QED BY <4>1, <4>2, <3>2
      <3>4. CASE w = v
        BY <3>1, <3>2, <3>4
      <3> QED BY <1>3, <3>1, <3>3, <3>4
    <2> QED BY <2>1, <2>2, TreeViews
  <1>4. ASSUME NEW w \in wrote', w.by \in Calls PROVE hook'[w.by].pc \in {"running", "post", "done"}
    <2>1. hook[w.by].pc \in {"running", "post", "done"}
      <3>1. CASE w \in wrote
        BY <1>4, <3>1 DEF WritesInv
      <3>2. CASE w \notin wrote
        <4>1. PICK f \in Files, by \in Calls \union {Outside} :
                  Write(f, by) /\ (by \in Calls => hook[by].pc = "running")
          BY <1>4, <3>2, TreeViews
        <4>2. PICK v \in [file : {f}, digest : Content, stat : {0, writes[f].all + 2}, by : {by}] :
                  wrote' = wrote \union {v}
          BY <4>1, WriteTyped
        <4>3. w.by = by
          BY <1>4, <3>2, <4>2
        <4> QED BY <1>4, <4>1, <4>3
      <3> QED BY <3>1, <3>2
    <2>2. HookView(w.by)
      BY <1>4, HookViews
    <2> QED BY <2>1, <2>2 DEF HookView, Stays, Looks, Reads, Records, FailsOpen, Observes, Posts
  <1>5. ASSUME NEW f \in Files PROVE WroteState(f, disk[f])'
    <2>1. CASE UNCHANGED <<disk, wrote, writes>>
      BY <2>1 DEF WritesInv, WroteState
    <2>2. ASSUME NEW g \in Files, NEW by \in Calls \union {Outside}, Write(g, by)
          PROVE  WroteState(f, disk[f])'
      <3>1. PICK v \in [file : {g}, digest : Content, stat : {0, writes[g].all + 2}, by : {by}] :
                /\ wrote' = wrote \union {v}
                /\ disk' = [disk EXCEPT ![g] = [digest |-> v.digest, stat |-> v.stat]]
        BY <2>2, WriteTyped
      <3>2. disk \in [Files -> State]
        BY DEF TypeInv
      <3>3. CASE f = g
        <4>1. disk'[f] = [digest |-> v.digest, stat |-> v.stat] /\ v \in wrote' /\ v.file = f
          BY <3>1, <3>2, <3>3
        <4>2. disk'[f].digest = v.digest /\ disk'[f].stat = v.stat
          BY <4>1
        <4> QED BY <4>1, <4>2 DEF WroteState
      <3>4. CASE f # g
        <4>1. disk'[f] = disk[f]
          BY <3>1, <3>2, <3>4
        <4>2. WroteState(f, disk[f])
          BY DEF WritesInv
        <4> QED BY <4>1, <4>2, <1>0 DEF WroteState
      <3> QED BY <3>3, <3>4
    <2> QED BY <2>1, <2>2, TreeViews
  <1>6. ASSUME NEW c \in Calls, HasRead(c)', NEW f \in DOMAIN hook'[c].obs
        PROVE  WroteState(f, hook[c].obs[f].state)'
    <2>1. HookView(c)
      BY HookViews
    <2>2. CASE Stays(c)
      <3>1. HasRead(c) /\ hook'[c].obs = hook[c].obs
        BY <1>6, <2>2 DEF Stays, HasRead
      <3>2. WroteState(f, hook[c].obs[f].state)
        BY <1>6, <3>1 DEF WritesInv
      <3> QED BY <3>1, <3>2, <1>0 DEF WroteState
    <2>3. CASE Reads(c)
      <3>1. f \in DOMAIN hook[c].obs /\ f \in Files /\ hook'[c].obs[f].state = disk[f]
        BY <1>6, <2>3, ReadTyped, HookTyped DEF Reads
      <3>2. WroteState(f, disk[f])
        BY <3>1 DEF WritesInv
      <3> QED BY <3>1, <3>2, <1>0 DEF WroteState
    <2>4. CASE Observes(c)
      <3>1. f \in Files /\ hook'[c].obs[f].state = disk[f]
        BY <1>6, <2>4, PostSeesTyped DEF Observes
      <3>2. WroteState(f, disk[f])
        BY <3>1 DEF WritesInv
      <3> QED BY <3>1, <3>2, <1>0 DEF WroteState
    <2> QED BY <1>6, <2>1, <2>2, <2>3, <2>4
            DEF HookView, HasRead, Looks, Records, FailsOpen, Posts
  <1>7. ASSUME NEW c \in DOMAIN calls', calls'[c].state # "posted", NEW f \in DOMAIN calls'[c].paths
        PROVE  WroteState(f, calls[c].paths[f].state)'
    <2>1. RowView(c)
      BY RowViews
    <2>2. CASE NewRow(c)
      <3>1. c \in Calls
        <4>1. calls' \in Partial(Calls, CallRow)
          BY TypeStep DEF TypeInv
        <4> QED BY <1>7, <4>1, PartialOut
      <3>2. HasRead(c) /\ f \in DOMAIN hook[c].obs
        BY <1>7, <2>2 DEF NewRow, HookRecord, HasRead
      <3>3. WroteState(f, hook[c].obs[f].state)
        BY <3>1, <3>2 DEF WritesInv
      <3>4. calls'[c].paths[f].state = hook[c].obs[f].state
        <4>1. calls'[c].paths[f] = RowOf(hook[c].obs, f)
          BY <2>2, <3>2 DEF NewRow
        <4> QED BY <4>1 DEF RowOf
      <3> QED BY <3>3, <3>4, <1>0 DEF WroteState
    <2>3. CASE \/ c \in DOMAIN calls /\ calls'[c] = calls[c]
               \/ DeadRow(c)
      <3>1. c \in DOMAIN calls /\ calls'[c].paths = calls[c].paths /\ calls[c].state # "posted"
        BY <1>7, <2>3 DEF DeadRow
      <3>2. WroteState(f, calls[c].paths[f].state)
        BY <1>7, <3>1 DEF WritesInv
      <3> QED BY <3>1, <3>2, <1>0 DEF WroteState
    <2> QED BY <1>7, <2>1, <2>2, <2>3 DEF RowView, PostedRow
  <1>8. ASSUME NEW f \in Files, NEW e \in Epochs, path_seq'[f][e].seq > 0
        PROVE  Wrote(f, path_seq[f][e].digest)'
    <2>1. SeqView(f, e)
      BY SeqViews
    <2>2. CASE path_seq'[f][e] = path_seq[f][e]
      <3>1. Wrote(f, path_seq[f][e].digest)
        BY <1>8, <2>2 DEF WritesInv
      <3> QED BY <2>2, <3>1, <1>0 DEF Wrote
    <2>3. ASSUME NEW d \in Calls, HasRead(d), f \in DOMAIN hook[d].obs,
                 path_seq'[f][e].digest = hook[d].obs[f].state.digest
          PROVE  Wrote(f, path_seq[f][e].digest)'
      <3>1. WroteState(f, hook[d].obs[f].state)
        BY <2>3 DEF WritesInv
      <3> QED BY <2>3, <3>1, <1>0 DEF WroteState, Wrote
    <2> QED BY <2>1, <2>2, <2>3 DEF SeqView
  <1> QED BY <1>3, <1>4, <1>5, <1>6, <1>7, <1>8 DEF WritesInv

(* A tenure begins with a new epoch, or ends. *)
LockView(f) ==
    \/ lock'[f] = lock[f]
    \/ /\ lock'[f].owner # NoOwner /\ lock'[f].epoch = lock[f].last + 1
       /\ lock'[f].last = lock[f].last + 1
    \/ lock'[f].owner = NoOwner /\ lock'[f].epoch = 0 /\ lock'[f].last = lock[f].last

LEMMA LockViews ==
    ASSUME TypeInv, [Next]_vars, NEW f \in Files
    PROVE  LockView(f) /\ lock[f].last \in Nat /\ lock'[f].last \in Nat /\ lock[f].last <= lock'[f].last
PROOF
  <1>0. lock \in [Files -> [owner : Holder, epoch : Epochs, last : Epochs]] /\ lock[f].last \in Nat
    <2>1. MaxEpoch \in Nat
      BY ObservationAssumption
    <2>2. lock \in [Files -> [owner : Holder, epoch : Epochs, last : Epochs]]
      BY DEF TypeInv
    <2> QED BY <2>1, <2>2 DEF Epochs
  <1>1. ASSUME UNCHANGED lock PROVE LockView(f)
    BY <1>1 DEF LockView
  <1>2. ASSUME LockTaken PROVE LockView(f)
    <2>1. PICK g \in Files, o \in Owners :
             lock' = [lock EXCEPT ![g] = [owner |-> o, epoch |-> lock[g].last + 1,
                                             last |-> lock[g].last + 1]]
      BY <1>2 DEF LockTaken
    <2>2. o # NoOwner
      BY ObservationAssumption
    <2>3. CASE g = f
      <3>1. lock'[f] = [owner |-> o, epoch |-> lock[f].last + 1, last |-> lock[f].last + 1]
        BY <1>0, <2>1, <2>3
      <3> QED BY <2>2, <3>1 DEF LockView
    <2>4. CASE g # f
      BY <1>0, <2>1, <2>4 DEF LockView
    <2> QED BY <2>3, <2>4
  <1>3. ASSUME LockEnds PROVE LockView(f)
    <2>1. PICK g \in Files : lock' = [lock EXCEPT ![g].owner = NoOwner, ![g].epoch = 0]
      BY <1>3 DEF LockEnds
    <2>2. CASE g = f
      <3>1. lock'[f] = [lock[f] EXCEPT !.owner = NoOwner, !.epoch = 0]
        BY <1>0, <2>1, <2>2
      <3>2. lock[f] \in [owner : Holder, epoch : Epochs, last : Epochs]
        BY <1>0
      <3> QED BY <3>1, <3>2 DEF LockView
    <2>3. CASE g # f
      BY <1>0, <2>1, <2>3 DEF LockView
    <2> QED BY <2>2, <2>3
  <1>4. ASSUME NEW c \in Calls, \/ HookLook(c) \/ HookRead(c) \/ HookPending(c) \/ HookDeliver(c)
                                \/ HookDeliverFails(c) \/ HookFailOpen(c) \/ HookRecord(c)
                                \/ PostObserve(c) \/ HookDrift(c) \/ HookPost(c) \/ ToolWrites(c)
        PROVE  UNCHANGED lock
    BY <1>4 DEF HookLook, HookRead, HookPending, HookDeliver, HookDeliverFails, HookDrift, HookRecord,
                HookFailOpen, PostObserve, HookPost, ToolWrites, Write, treeVars
  <1>5. ASSUME \/ DropOldTreeEvents \/ DropFinishedCalls \/ MarkDeadOwnerCalls \/ OutsideWrites
               \/ SessionDies \/ Tick \/ UNCHANGED vars
        PROVE  UNCHANGED lock
    BY <1>5 DEF DropOldTreeEvents, DropFinishedCalls, MarkDeadOwnerCalls, OutsideWrites, Write,
                SessionDies, Tick, vars, treeVars
  <1>6. LockView(f)
    BY <1>1, <1>2, <1>3, <1>4, <1>5 DEF Next
  <1> QED BY <1>0, <1>6 DEF LockView

LEMMA RowsOfCalls ==
    ASSUME TypeInv, [Next]_vars
    PROVE  DOMAIN calls' \subseteq Calls
PROOF
  <1>1. calls' \in Partial(Calls, CallRow)
    BY TypeStep DEF TypeInv
  <1> QED BY <1>1, PartialOut

LEMMA TenureStep ==
    ASSUME TypeInv, TenureInv, [Next]_vars
    PROVE  TenureInv'
PROOF
  <1>1. ASSUME NEW f \in Files
        PROVE  /\ lock'[f].epoch \in {0, lock'[f].last}
               /\ lock'[f].owner = NoOwner <=> lock'[f].epoch = 0
               /\ lock[f].epoch <= lock[f].last
    <2>1. LockView(f) /\ lock[f].last \in Nat
      BY LockViews
    <2>2. /\ lock[f].epoch \in {0, lock[f].last}
          /\ lock[f].owner = NoOwner <=> lock[f].epoch = 0
      BY DEF TenureInv
    <2> QED BY <2>1, <2>2 DEF LockView
  <1>2. ASSUME NEW c \in Calls, NEW f \in DOMAIN hook'[c].obs, f \in Files,
               hook'[c].obs[f].epoch \in Epochs
        PROVE  /\ hook'[c].obs[f].epoch <= lock[f].last
               /\ hook'[c].pc \in {"read", "drift"} /\ hook'[c].obs[f].locked =>
                      hook'[c].obs[f].epoch # 0
    <2>1. HookView(c)
      BY HookViews
    <2>2. CASE Stays(c)
      BY <1>2, <2>2 DEF Stays, TenureInv
    <2>3. CASE Looks(c)
      <3>1. Declares[c] \in SUBSET Files
        BY ObservationAssumption
      <3>2. f \in Watched(Declares[c]) /\ hook'[c].obs[f] = Look(Declares[c])[f]
        BY <1>2, <2>3, <3>1, LookTyped DEF Looks
      <3>3. /\ hook'[c].obs[f].locked = (lock[f].owner # NoOwner)
            /\ hook'[c].obs[f].epoch = lock[f].epoch
        BY <3>1, <3>2, LookTyped
      <3> QED BY <1>1, <1>2, <3>3 DEF TenureInv
    <2>4. CASE Reads(c)
      <3>1. f \in DOMAIN hook[c].obs /\ hook'[c].obs[f].locked = hook[c].obs[f].locked
            /\ hook'[c].obs[f].epoch = hook[c].obs[f].epoch
        BY <1>2, <2>4, ReadTyped, HookTyped DEF Reads
      <3> QED BY <2>4, <3>1 DEF TenureInv, Reads
    <2>5. CASE Observes(c)
      <3>1. f \in DOMAIN PostSees(c) /\ hook'[c].obs[f] = PostSees(c)[f] /\ hook'[c].pc = "post"
        BY <1>2, <2>5 DEF Observes
      <3>2. CASE f \in Watched({})
        BY <1>1, <1>2, <3>1, <3>2, PostSeesTyped
      <3>3. CASE f \notin Watched({})
        <4>1. f \in DOMAIN Recorded(c) /\ hook'[c].obs[f].epoch = Recorded(c)[f].epoch
          BY <3>1, <3>3, PostSeesTyped
        <4>2. c \in DOMAIN calls /\ Recorded(c) = calls[c].paths
          BY <4>1 DEF Recorded
        <4> QED BY <3>1, <4>1, <4>2 DEF TenureInv
      <3> QED BY <3>2, <3>3
    <2>6. CASE Records(c) \/ FailsOpen(c) \/ Posts(c)
      <3>1. hook'[c].obs = <<>>
        BY <2>6 DEF Records, FailsOpen, Posts
      <3> QED BY <1>2, <3>1
    <2> QED BY <2>1, <2>2, <2>3, <2>4, <2>5, <2>6 DEF HookView
  <1>3. ASSUME NEW c \in Calls, NEW f \in Files, NEW e \in Epochs, <<f, e>> \in hook'[c].noted
        PROVE  e <= lock[f].last
    <2>1. HookView(c)
      BY HookViews
    <2>2. CASE Records(c)
      <3>1. f \in DOMAIN hook[c].obs /\ e = hook[c].obs[f].epoch
        BY <1>3, <2>2 DEF Records, Noted
      <3> QED BY <3>1 DEF TenureInv
    <2>3. CASE FailsOpen(c)
      BY <1>3, <2>3 DEF FailsOpen
    <2>4. CASE ~Records(c) /\ ~FailsOpen(c)
      <3>1. hook'[c].noted = hook[c].noted
        BY <2>1, <2>4 DEF HookView, Stays, Looks, Reads, Observes, Posts
      <3> QED BY <1>3, <3>1 DEF TenureInv
    <2> QED BY <2>2, <2>3, <2>4
  <1>4. ASSUME NEW c \in DOMAIN calls', NEW f \in DOMAIN calls'[c].paths, f \in Files
        PROVE  calls'[c].paths[f].epoch <= lock[f].last
    <2>1. RowView(c) /\ c \in Calls
      BY RowViews, RowsOfCalls
    <2>2. CASE NewRow(c)
      <3>1. f \in DOMAIN hook[c].obs /\ calls'[c].paths[f] = RowOf(hook[c].obs, f)
        BY <1>4, <2>2 DEF NewRow
      <3>2. calls'[c].paths[f].epoch = hook[c].obs[f].epoch
        BY <3>1 DEF RowOf
      <3> QED BY <2>1, <3>1, <3>2 DEF TenureInv
    <2>3. CASE PostedRow(c)
      <3>1. f \in DOMAIN hook[c].obs /\ calls'[c].paths[f] = Prior(c, f) /\ c \in DOMAIN calls
        BY <1>4, <2>3 DEF PostedRow
      <3>2. CASE f \in DOMAIN Recorded(c)
        <4>1. Prior(c, f) = Recorded(c)[f] /\ Recorded(c) = calls[c].paths
          BY <2>1, <3>1, <3>2, PriorTyped, RecordedTyped
        <4> QED BY <3>1, <3>2, <4>1 DEF TenureInv
      <3>3. CASE f \notin DOMAIN Recorded(c)
        <4>1. Prior(c, f).epoch = hook[c].obs[f].epoch
          BY <2>1, <3>1, <3>3, PriorTyped
        <4> QED BY <2>1, <3>1, <4>1 DEF TenureInv
      <3> QED BY <3>2, <3>3
    <2>4. CASE (c \in DOMAIN calls /\ calls'[c] = calls[c]) \/ DeadRow(c)
      BY <1>4, <2>4 DEF DeadRow, TenureInv
    <2> QED BY <2>1, <2>2, <2>3, <2>4 DEF RowView
  <1>5. \A f \in Files : lock[f].last \in Nat /\ lock'[f].last \in Nat /\ lock[f].last <= lock'[f].last
    BY LockViews
  <1>6. TypeInv'
    BY TypeStep
  <1>7. MaxEpoch \in Nat
    BY ObservationAssumption
  <1>8. \A c \in Calls : \A f \in DOMAIN hook'[c].obs : f \in Files /\ hook'[c].obs[f].epoch \in Epochs
    <2>1. ASSUME NEW c \in Calls
          PROVE  \A f \in DOMAIN hook'[c].obs : f \in Files /\ hook'[c].obs[f].epoch \in Epochs
      <3>1. hook'[c] \in Process
        BY <1>6 DEF TypeInv
      <3>2. hook'[c].obs \in Partial(Files, Seen)
        BY <3>1 DEF Process
      <3>3. DOMAIN hook'[c].obs \subseteq Files /\ hook'[c].obs \in [DOMAIN hook'[c].obs -> Seen]
        BY <3>2, PartialOut
      <3> QED BY <3>3 DEF Seen
    <2> QED BY <2>1
  <1>9. \A c \in DOMAIN calls' : \A f \in DOMAIN calls'[c].paths :
            f \in Files /\ calls'[c].paths[f].epoch \in Epochs
    <2>1. ASSUME NEW c \in DOMAIN calls'
          PROVE  \A f \in DOMAIN calls'[c].paths : f \in Files /\ calls'[c].paths[f].epoch \in Epochs
      <3>1. calls'[c] \in CallRow
        BY <1>6, PartialOut DEF TypeInv
      <3>2. calls'[c].paths \in Partial(Files, PathRow)
        BY <3>1 DEF CallRow
      <3>3. /\ DOMAIN calls'[c].paths \subseteq Files
            /\ calls'[c].paths \in [DOMAIN calls'[c].paths -> PathRow]
        BY <3>2, PartialOut
      <3> QED BY <3>3 DEF PathRow
    <2> QED BY <2>1
  <1>10. \A e \in Epochs : e \in Nat
    BY <1>7 DEF Epochs
  <1>11. \A c \in Calls : \A f \in DOMAIN hook'[c].obs : hook'[c].obs[f].epoch <= lock'[f].last
    BY <1>2, <1>5, <1>8, <1>10
  <1>12. \A c \in Calls, f \in Files, e \in Epochs : <<f, e>> \in hook'[c].noted => e <= lock'[f].last
    BY <1>3, <1>5, <1>10
  <1>13. \A c \in DOMAIN calls' : \A f \in DOMAIN calls'[c].paths :
             calls'[c].paths[f].epoch <= lock'[f].last
    BY <1>4, <1>5, <1>9, <1>10
  <1> QED BY <1>1, <1>2, <1>8, <1>11, <1>12, <1>13 DEF TenureInv

LEMMA RowsStep ==
    ASSUME TypeInv, RowsInv, [Next]_vars
    PROVE  RowsInv'
PROOF
  <1>0. DOMAIN calls \subseteq Calls /\ DOMAIN calls' \subseteq Calls
    BY CallsTyped, RowsOfCalls
  <1>1. ASSUME NEW c \in Calls, hook'[c].pc \notin {"running", "post", "done"}
        PROVE  hook'[c].noted = {} /\ c \notin DOMAIN calls' /\ ~hook'[c].lost
    <2>1. HookView(c)
      BY HookViews
    <2>2. hook[c].pc \notin {"running", "post", "done"} /\ ~Records(c) /\ ~FailsOpen(c)
      BY <1>1, <2>1 DEF HookView, Stays, Looks, Reads, Records, FailsOpen, Observes, Posts
    <2>3. hook[c].noted = {} /\ c \notin DOMAIN calls /\ ~hook[c].lost
      BY <2>2 DEF RowsInv
    <2>4. hook'[c].noted = hook[c].noted
      BY <2>1, <2>2 DEF HookView, Stays, Looks, Reads, Observes, Posts
    <2>5. ASSUME HookRecord(c) PROVE FALSE
      BY <1>1, <2>5, RecordMoves DEF Becomes
    <2>6. c \notin DOMAIN calls'
      <3>1. SUFFICES ASSUME c \in DOMAIN calls' PROVE FALSE
        OBVIOUS
      <3>2. RowView(c)
        BY <3>1, RowViews
      <3> QED BY <2>3, <2>5, <3>2 DEF RowView, NewRow, PostedRow, DeadRow
    <2>7. ~hook'[c].lost
      <3>1. CASE MarkDeadOwnerCalls
        <4>1. c \notin Swept
          BY <2>3 DEF Swept
        <4>2. hook'[c].lost = (hook[c].lost \/ c \in Swept)
          BY <3>1, MarkMoves
        <4> QED BY <2>3, <4>1, <4>2
      <3>2. CASE ~MarkDeadOwnerCalls
        BY <2>1, <2>2, <2>3, <3>2 DEF HookView, Looks, Reads, Observes, Posts
      <3> QED BY <3>1, <3>2
    <2> QED BY <2>3, <2>4, <2>6, <2>7
  <1>2. ASSUME NEW c \in Calls, hook'[c].pc \in {"running", "post"}, ~hook'[c].lost PROVE Open(c)'
    <2>1. HookView(c) /\ (hook[c].lost /\ hook[c].pc # "record" => hook'[c].lost)
      BY HookViews
    <2>2. CASE Records(c)
      BY <2>2, RecordRows DEF Records, Open
    <2>3. CASE ~Records(c)
      <3>1. hook[c].pc \in {"running", "post"} /\ hook'[c].pc # "done"
        BY <1>2, <2>1, <2>3 DEF HookView, Stays, Looks, Reads, FailsOpen, Observes, Posts
      <3>2. Open(c)
        BY <1>2, <2>1, <3>1 DEF RowsInv
      <3>3. c \in DOMAIN calls'
        BY <3>2, RowViews DEF Open, Forgotten
      <3>4. RowView(c)
        BY <3>3, RowViews
      <3>5. ASSUME PostedRow(c) PROVE FALSE
        <4>1. HookPost(c)
          BY <3>5 DEF PostedRow
        <4> QED BY <3>1, <4>1, PostMoves DEF Becomes
      <3> QED BY <1>2, <3>2, <3>3, <3>4, <3>5 DEF RowView, NewRow, DeadRow, Open
    <2> QED BY <2>2, <2>3
  <1>3. ASSUME NEW c \in DOMAIN calls'
        PROVE  /\ hook'[c].pc = "done" <=> calls'[c].state = "posted"
               /\ \A f \in Files, e \in Epochs : <<f, e>> \in hook'[c].noted =>
                      f \in DOMAIN calls'[c].paths /\ calls'[c].paths[f].epoch = e
               /\ hook'[c].pc = "post" => DOMAIN calls'[c].paths \subseteq DOMAIN hook'[c].obs
               /\ calls'[c].state = "posted" => /\ DOMAIN calls'[c].paths \subseteq DOMAIN calls'[c].post
                                                /\ calls'[c].ended \in Nat
    <2>1. RowView(c) /\ HookView(c) /\ c \in Calls
      BY <1>0, RowViews, HookViews
    <2>2. CASE NewRow(c)
      <3>1. Becomes(c, "running", 0, <<>>, hook[c].pending, Noted(hook[c].obs))
        BY <2>1, <2>2, RecordMoves DEF NewRow
      <3>2. hook'[c].pc = "running" /\ hook'[c].noted = Noted(hook[c].obs)
        BY <3>1 DEF Becomes
      <3>3. \A f \in DOMAIN hook[c].obs : calls'[c].paths[f].epoch = hook[c].obs[f].epoch
        <4>1. ASSUME NEW f \in DOMAIN hook[c].obs
              PROVE  calls'[c].paths[f].epoch = hook[c].obs[f].epoch
          <5>1. calls'[c].paths[f] = RowOf(hook[c].obs, f)
            BY <2>2 DEF NewRow
          <5> QED BY <5>1 DEF RowOf
        <4> QED BY <4>1
      <3>4. DOMAIN calls'[c].paths = DOMAIN hook[c].obs /\ calls'[c].state = "open"
        BY <2>2 DEF NewRow
      <3> QED BY <3>2, <3>3, <3>4 DEF Noted
    <2>3. CASE PostedRow(c)
      <3>1. Becomes(c, "done", hook[c].tpre, <<>>, hook[c].pending, hook[c].noted)
        BY <2>1, <2>3, PostMoves DEF PostedRow
      <3>2. hook'[c].pc = "done" /\ hook'[c].noted = hook[c].noted
        BY <3>1 DEF Becomes
      <3>3. c \in DOMAIN calls /\ hook[c].pc = "post"
        BY <2>3 DEF PostedRow, HookPost
      <3>4. ASSUME NEW f \in Files, NEW e \in Epochs, <<f, e>> \in hook[c].noted
            PROVE  f \in DOMAIN calls'[c].paths /\ calls'[c].paths[f].epoch = e
        <4>1. f \in DOMAIN calls[c].paths /\ calls[c].paths[f].epoch = e /\ f \in DOMAIN hook[c].obs
          BY <3>3, <3>4 DEF RowsInv
        <4>2. Prior(c, f) = calls[c].paths[f]
          BY <2>1, <3>3, <4>1, PriorTyped, RecordedTyped
        <4> QED BY <2>3, <4>1, <4>2 DEF PostedRow
      <3>5. now \in Nat
        BY DEF TypeInv
      <3> QED BY <2>3, <3>2, <3>4, <3>5 DEF PostedRow
    <2>4. CASE (c \in DOMAIN calls /\ calls'[c] = calls[c]) \/ DeadRow(c)
      <3>1. /\ c \in DOMAIN calls /\ calls'[c].paths = calls[c].paths
            /\ calls'[c].state = "posted" <=> calls[c].state = "posted"
            /\ calls'[c].state = "posted" => calls'[c] = calls[c]
        BY <2>4 DEF DeadRow
      <3>2. hook[c].pc \in {"running", "post", "done"}
        BY <2>1, <3>1 DEF RowsInv
      <3>3. CASE Posts(c)
        <4>1. HookPost(c) /\ hook[c].pc = "post"
          BY <3>3 DEF Posts
        <4>2. RecordCallPost(c)
          BY <3>1, <4>1 DEF HookPost
        <4>3. calls'[c].state = "posted"
          BY <2>1, <3>1, <4>2, PostRows
        <4> QED BY <3>1, <4>1, <4>3 DEF RowsInv
      <3>4. CASE Observes(c)
        <4>1. hook[c].pc = "running" /\ hook'[c].pc = "post" /\ hook'[c].noted = hook[c].noted
              /\ DOMAIN hook'[c].obs = Watched({}) \union DOMAIN Recorded(c)
          BY <2>1, <3>4, PostSeesTyped DEF Observes
        <4>2. Recorded(c) = calls[c].paths
          BY <3>1 DEF Recorded
        <4> QED BY <3>1, <4>1, <4>2 DEF RowsInv
      <3>5. CASE Stays(c)
        <4>1. hook'[c].pc = hook[c].pc /\ hook'[c].noted = hook[c].noted /\ hook'[c].obs = hook[c].obs
          BY <3>2, <3>5 DEF Stays
        <4> QED BY <3>1, <4>1 DEF RowsInv
      <3> QED BY <2>1, <3>2, <3>3, <3>4, <3>5 DEF HookView, Looks, Reads, Records, FailsOpen
    <2> QED BY <2>1, <2>2, <2>3, <2>4 DEF RowView
  <1> QED BY <1>1, <1>2, <1>3 DEF RowsInv

(* What a step leaves in a hook or a row was numbered before the step. *)
LEMMA LinesOld ==
    ASSUME TypeInv, SeqInv, [Next]_vars, NEW c \in Calls, NEW f \in DOMAIN hook'[c].obs,
           NEW e \in Epochs
    PROVE  /\ f \in Files /\ hook'[c].obs[f].line[e].seq \in Nat
           /\ hook'[c].obs[f].line[e].seq <= path_seq[f][e].seq
PROOF
  <1>0. \A g \in Files : path_seq[g] \in Line /\ path_seq[g][e].seq \in Nat
    BY SeqViews DEF TypeInv
  <1>1. HookView(c)
    BY HookViews
  <1>2. CASE Stays(c) \/ Reads(c)
    <2>1. f \in DOMAIN hook[c].obs /\ hook'[c].obs[f].line = hook[c].obs[f].line
      BY <1>2, ReadTyped, HookTyped DEF Stays, Reads
    <2>2. f \in Files /\ hook[c].obs[f].line \in Line
      BY <2>1, HookTyped
    <2>3. hook[c].obs[f].line[e].seq \in Nat
      BY <2>2 DEF Line
    <2>4. hook[c].obs[f].line[e].seq <= path_seq[f][e].seq
      BY <2>1 DEF SeqInv
    <2> QED BY <2>1, <2>2, <2>3, <2>4
  <1>3. CASE Looks(c)
    <2>1. Declares[c] \in SUBSET Files
      BY ObservationAssumption
    <2>2. f \in Watched(Declares[c]) /\ f \in Files /\ hook'[c].obs[f].line = path_seq[f]
      BY <1>3, <2>1, LookTyped DEF Looks, Watched
    <2> QED BY <1>0, <2>2
  <1>4. CASE Observes(c)
    <2>1. f \in Files /\ hook'[c].obs[f].line = path_seq[f]
      BY <1>4, PostSeesTyped DEF Observes
    <2> QED BY <1>0, <2>1
  <1>5. CASE Records(c) \/ FailsOpen(c) \/ Posts(c)
    <2>1. hook'[c].obs = <<>>
      BY <1>5 DEF Records, FailsOpen, Posts
    <2> QED BY <2>1
  <1> QED BY <1>1, <1>2, <1>3, <1>4, <1>5 DEF HookView

LEMMA RowsOld ==
    ASSUME TypeInv, SeqInv, [Next]_vars, NEW c \in DOMAIN calls', NEW f \in DOMAIN calls'[c].paths
    PROVE  /\ f \in Files /\ calls'[c].paths[f].epoch \in Epochs /\ calls'[c].paths[f].seq \in Nat
           /\ calls'[c].paths[f].seq <= path_seq[f][calls'[c].paths[f].epoch].seq
PROOF
  <1>1. RowView(c) /\ c \in Calls
    BY RowViews, RowsOfCalls
  <1>2. CASE NewRow(c)
    <2>1. f \in DOMAIN hook[c].obs /\ calls'[c].paths[f] = RowOf(hook[c].obs, f) /\ HasRead(c)
      BY <1>2 DEF NewRow, HookRecord, HasRead
    <2>2. /\ hook[c].obs \in Partial(Files, Seen) /\ hook[c].obs[f].state \in State
          /\ f \in Files /\ hook[c].obs[f].epoch \in Epochs
      BY <1>1, <2>1, HookTyped
    <2> QED BY <2>1, <2>2, RowTyped DEF PathRow
  <1>3. CASE PostedRow(c)
    <2>1. c \in DOMAIN calls /\ f \in DOMAIN hook[c].obs /\ calls'[c].paths[f] = Prior(c, f)
      BY <1>3 DEF PostedRow
    <2>2. f \in Files /\ Prior(c, f).epoch \in Epochs /\ Prior(c, f).seq \in Nat
      BY <1>1, <2>1, HookTyped, PriorTyped
    <2>3. path_seq[f][Prior(c, f).epoch].seq \in Nat
      BY <1>1, <2>1, SeqPostTyped
    <2>4. CASE f \in DOMAIN Recorded(c)
      <3>1. Prior(c, f) = calls[c].paths[f] /\ f \in DOMAIN calls[c].paths
        BY <1>1, <2>1, <2>4, PriorTyped, RecordedTyped
      <3> QED BY <2>1, <2>2, <3>1 DEF SeqInv
    <2>5. CASE f \notin DOMAIN Recorded(c)
      BY <1>1, <2>1, <2>2, <2>3, <2>5, PriorTyped
    <2> QED BY <2>4, <2>5
  <1>4. CASE (c \in DOMAIN calls /\ calls'[c] = calls[c]) \/ DeadRow(c)
    <2>1. c \in DOMAIN calls /\ calls'[c].paths = calls[c].paths
      BY <1>4 DEF DeadRow
    <2> QED BY <2>1, CallsTyped DEF SeqInv
  <1> QED BY <1>1, <1>2, <1>3, <1>4 DEF RowView

LEMMA SeqStep ==
    ASSUME TypeInv, SeqInv, [Next]_vars
    PROVE  SeqInv'
PROOF
  <1>0. \A f \in Files, e \in Epochs : /\ path_seq[f][e].seq \in Nat /\ path_seq'[f][e].seq \in Nat
                                       /\ path_seq[f][e].seq <= path_seq'[f][e].seq
    BY SeqViews
  <1>1. ASSUME NEW c \in Calls, NEW f \in DOMAIN hook'[c].obs, NEW e \in Epochs
        PROVE  hook'[c].obs[f].line[e].seq <= path_seq'[f][e].seq
    BY <1>0, LinesOld
  <1>2. ASSUME NEW c \in DOMAIN calls', NEW f \in DOMAIN calls'[c].paths
        PROVE  calls'[c].paths[f].seq <= path_seq'[f][calls'[c].paths[f].epoch].seq
    BY <1>0, RowsOld
  <1>3. ASSUME NEW c \in DOMAIN calls'
        PROVE  /\ \A f \in DOMAIN calls'[c].paths : f \in DOMAIN calls'[c].post =>
                      calls'[c].post[f] <= path_seq'[f][calls'[c].paths[f].epoch].seq
               /\ DOMAIN calls'[c].post \subseteq DOMAIN calls'[c].paths
    <2>1. RowView(c) /\ c \in Calls
      BY RowViews, RowsOfCalls
    <2>2. CASE NewRow(c)
      BY <2>2 DEF NewRow
    <2>3. CASE PostedRow(c)
      <3>1. ASSUME NEW f \in DOMAIN hook[c].obs
            PROVE  SeqPost(c, f) <= path_seq'[f][Prior(c, f).epoch].seq
        <4>1. c \in DOMAIN calls /\ RecordCallPost(c) /\ hook[c].pc = "post"
          BY <2>3 DEF PostedRow, HookPost
        <4>2. f \in Files /\ Prior(c, f).epoch \in Epochs /\ Prior(c, f).seq \in Nat
          BY <2>1, <3>1, HookTyped, PriorTyped
        <4>3. Prior(c, f).seq <= path_seq[f][Prior(c, f).epoch].seq
          BY <2>3, RowsOld DEF PostedRow
        <4>4. path_seq'[f][Prior(c, f).epoch]
                = IF f \in Numbered(c) THEN Numbering(f, Prior(c, f).epoch, hook[c].obs[f].state)
                  ELSE path_seq[f][Prior(c, f).epoch]
          BY <2>1, <4>1, <4>2, PostStores
        <4> QED BY <1>0, <4>2, <4>3, <4>4 DEF SeqPost, Numbering
      <3> QED BY <2>3, <3>1 DEF PostedRow
    <2>4. CASE (c \in DOMAIN calls /\ calls'[c] = calls[c]) \/ DeadRow(c)
      <3>1. c \in DOMAIN calls /\ calls'[c].paths = calls[c].paths /\ calls'[c].post = calls[c].post
        BY <2>4 DEF DeadRow
      <3>2. ASSUME NEW f \in DOMAIN calls[c].paths, f \in DOMAIN calls[c].post
            PROVE  calls[c].post[f] <= path_seq'[f][calls[c].paths[f].epoch].seq
        <4>1. f \in Files /\ calls[c].paths[f].epoch \in Epochs /\ calls[c].post[f] \in Nat
          BY <3>1, <3>2, CallsTyped
        <4>2. calls[c].post[f] <= path_seq[f][calls[c].paths[f].epoch].seq
          BY <3>1, <3>2 DEF SeqInv
        <4> QED BY <1>0, <4>1, <4>2
      <3>3. DOMAIN calls[c].post \subseteq DOMAIN calls[c].paths
        BY <3>1 DEF SeqInv
      <3> QED BY <3>1, <3>2, <3>3
    <2> QED BY <2>1, <2>2, <2>3, <2>4 DEF RowView
  <1> QED BY <1>1, <1>2, <1>3 DEF SeqInv

LEMMA ClockViews ==
    ASSUME TypeInv, [Next]_vars
    PROVE  /\ owner' = owner /\ dead \subseteq dead' /\ overtaken \subseteq overtaken'
           /\ now' = now \/ Tick
PROOF
  <1>1. ASSUME NEW c \in Calls, \/ HookLook(c) \/ HookRead(c) \/ HookPending(c) \/ HookDeliver(c)
                                \/ HookDeliverFails(c) \/ HookFailOpen(c) \/ HookRecord(c)
                                \/ PostObserve(c) \/ ToolWrites(c)
        PROVE  UNCHANGED <<owner, dead, now, overtaken>>
    BY <1>1 DEF HookLook, HookRead, HookPending, HookDeliver, HookDeliverFails, HookRecord,
                HookFailOpen, PostObserve, ToolWrites, Write, storeVars
  <1>2. ASSUME NEW c \in Calls, HookDrift(c)
        PROVE  UNCHANGED <<owner, dead, now>> /\ overtaken \subseteq overtaken'
    BY <1>2 DEF HookDrift, RecordDrift, storeVars
  <1>3. ASSUME NEW c \in Calls, HookPost(c)
        PROVE  UNCHANGED <<owner, dead, now>> /\ overtaken \subseteq overtaken'
    BY <1>3 DEF HookPost, RecordCallPost, storeVars
  <1>4. ASSUME \/ DropOldTreeEvents \/ DropFinishedCalls \/ MarkDeadOwnerCalls \/ OutsideWrites
               \/ LockTaken \/ LockEnds \/ UNCHANGED vars
        PROVE  UNCHANGED <<owner, dead, now, overtaken>>
    BY <1>4 DEF DropOldTreeEvents, DropFinishedCalls, MarkDeadOwnerCalls, OutsideWrites, Write,
                LockTaken, LockEnds, vars, storeVars
  <1>5. ASSUME SessionDies PROVE UNCHANGED <<owner, now, overtaken>> /\ dead \subseteq dead'
    BY <1>5 DEF SessionDies, storeVars
  <1>6. ASSUME Tick PROVE UNCHANGED <<owner, dead, overtaken>>
    BY <1>6 DEF Tick, storeVars
  <1> QED BY <1>1, <1>2, <1>3, <1>4, <1>5, <1>6 DEF Next

LEMMA TimelyStep ==
    ASSUME TypeInv, Timely, [Next]_vars
    PROVE  Timely'
PROOF
  <1>0. /\ now \in Nat /\ now' \in Nat /\ now <= now' /\ MaxHook \in Nat
        /\ now' = now \/ (Tick /\ now' = now + 1)
        /\ \A c \in Calls : hook[c].tpre \in Nat
        /\ \A c \in Calls : Alive(c)' => Alive(c)
    <2>1. now \in Nat /\ MaxHook \in Nat /\ \A c \in Calls : hook[c].tpre \in Nat
      BY HookTyped, ObservationAssumption DEF TypeInv
    <2>2. now' = now \/ (Tick /\ now' = now + 1)
      BY ClockViews DEF Tick
    <2>3. \A c \in Calls : Alive(c)' => Alive(c)
      BY ClockViews DEF Alive
    <2> QED BY <2>1, <2>2, <2>3
  <1>1. ASSUME NEW c \in Calls PROVE hook'[c].tpre <= now'
    <2>1. HookView(c) /\ hook[c].tpre <= now
      BY HookViews DEF Timely
    <2> QED BY <1>0, <2>1
            DEF HookView, Stays, Looks, Reads, Records, FailsOpen, Observes, Posts
  <1>2. ASSUME NEW c \in Calls, Preparing(c)', Alive(c)' PROVE now' <= hook'[c].tpre + MaxHook
    <2>1. HookView(c)
      BY HookViews
    <2>2. CASE Tick
      <3>1. hook' = hook /\ Preparing(c)
        BY <1>2, <2>2 DEF Tick, Preparing
      <3>2. now < hook[c].tpre + MaxHook
        BY <1>0, <1>2, <2>2, <3>1 DEF Tick
      <3>3. now' = now + 1
        BY <2>2 DEF Tick
      <3> QED BY <1>0, <3>1, <3>2, <3>3
    <2>3. CASE now' = now
      <3>1. CASE Looks(c)
        BY <1>0, <2>3, <3>1 DEF Looks
      <3>2. CASE Stays(c) \/ Reads(c)
        <4>1. Preparing(c) /\ hook'[c].tpre = hook[c].tpre
          BY <1>2, <3>2 DEF Stays, Reads, Preparing
        <4> QED BY <1>0, <1>2, <2>3, <4>1 DEF Timely
      <3> QED BY <1>2, <2>1, <3>1, <3>2 DEF HookView, Records, FailsOpen, Observes, Posts, Preparing
    <2> QED BY <1>0, <2>2, <2>3
  <1>3. ASSUME NEW c \in DOMAIN calls' PROVE calls'[c].tpre <= now'
    <2>1. RowView(c) /\ c \in Calls
      BY RowViews, RowsOfCalls
    <2>2. c \in DOMAIN calls => calls[c].tpre \in Nat /\ calls[c].tpre <= now
      BY CallsTyped DEF CallRow, Timely
    <2>3. hook[c].tpre <= now
      BY <2>1 DEF Timely
    <2> QED BY <1>0, <2>1, <2>2, <2>3 DEF RowView, NewRow, PostedRow, DeadRow
  <1> QED BY <1>1, <1>2, <1>3 DEF Timely

LEMMA BookInit ==
    ASSUME Init
    PROVE  BookInv
PROOF
  <1>0. TypeInv
    BY TypeInit
  <1>1. \A c \in Calls : /\ hook[c].pc = "idle" /\ hook[c].obs = <<>> /\ hook[c].noted = {}
                         /\ ~hook[c].lost /\ hook[c].tpre = 0
    BY DEF Init, Idle
  <1>2. DOMAIN calls = {} /\ DOMAIN <<>> = {}
    BY DEF Init
  <1>3. WritesInv
    <2>1. wrote = {[file |-> f, digest |-> Committed, stat |-> 1, by |-> Outside] : f \in Files}
      BY DEF Init
    <2>2. \A w \in wrote : w.stat <= writes[w.file].all + 1
      BY <2>1 DEF Init
    <2>3. \A w \in wrote : w.by \notin Calls
      BY <2>1, ObservationAssumption
    <2>4. ASSUME NEW f \in Files PROVE WroteState(f, disk[f])
      <3>1. disk[f] = [digest |-> Committed, stat |-> 1]
        BY DEF Init
      <3>2. [file |-> f, digest |-> Committed, stat |-> 1, by |-> Outside] \in wrote
        BY <2>1
      <3> QED BY <3>1, <3>2 DEF WroteState
    <2>5. \A f \in Files, e \in Epochs : path_seq[f][e].seq = 0
      BY DEF Init
    <2> QED BY <1>1, <1>2, <2>2, <2>3, <2>4, <2>5 DEF WritesInv, HasRead
  <1>4. TenureInv
    BY <1>1, <1>2 DEF Init, TenureInv
  <1>5. RowsInv
    BY <1>1, <1>2 DEF RowsInv
  <1>6. SeqInv
    BY <1>1, <1>2 DEF SeqInv
  <1>7. Timely
    <2>1. now = 0
      BY DEF Init
    <2> QED BY <1>1, <1>2, <2>1 DEF Timely, Preparing
  <1> QED BY <1>0, <1>3, <1>4, <1>5, <1>6, <1>7 DEF BookInv

LEMMA BookStep ==
    ASSUME BookInv, [Next]_vars
    PROVE  BookInv'
  BY TypeStep, WritesStep, TenureStep, RowsStep, SeqStep, TimelyStep DEF BookInv

------------------------------------------------------------------------------
(* Whose bytes are on disk. *)

(* Who wrote the bytes on disk has its record behind it. *)
LEMMA AuthorRan ==
    ASSUME BookInv, NEW c \in Calls, NEW f \in Files, Author(c, f)
    PROVE  hook[c].pc \in {"running", "post", "done"}
PROOF
  <1>1. PICK w \in wrote : w.file = f /\ w.digest = disk[f].digest
    BY DEF BookInv, WritesInv, WroteState
  <1>2. w.by = c
    BY <1>1 DEF Author
  <1> QED BY <1>2 DEF BookInv, WritesInv

LEMMA SoleAuthor ==
    ASSUME NEW c, NEW f, Sole(c, f)
    PROVE  Author(c, f) /\ disk[f].digest # NoDigest
  BY DEF Sole, Author

(* Authorship comes with a write of the call itself. *)
LEMMA AuthorBefore ==
    ASSUME BookInv, [Next]_vars, NEW c \in Calls, NEW f \in Files, Author(c, f)',
           hook[c].pc # "running" \/ ~Write(f, c)
    PROVE  Author(c, f) /\ disk'[f] = disk[f]
PROOF
  <1>0. TypeInv /\ wrote \subseteq wrote'
    BY WroteGrows DEF BookInv
  <1>1. CASE UNCHANGED <<disk, wrote, writes>>
    BY <1>1 DEF Author
  <1>2. ASSUME NEW g \in Files, NEW by \in Calls \union {Outside}, Write(g, by),
               by \in Calls => hook[by].pc = "running"
        PROVE  Author(c, f) /\ disk'[f] = disk[f]
    <2>1. PICK v \in [file : {g}, digest : Content, stat : {0, writes[g].all + 2}, by : {by}] :
              /\ wrote' = wrote \union {v}
              /\ disk' = [disk EXCEPT ![g] = [digest |-> v.digest, stat |-> v.stat]]
      BY <1>0, <1>2, WriteTyped
    <2>2. disk \in [Files -> State]
      BY <1>0 DEF TypeInv
    <2>3. g # f
      <3>1. SUFFICES ASSUME g = f PROVE FALSE
        OBVIOUS
      <3>2. disk'[f] = [digest |-> v.digest, stat |-> v.stat]
        BY <2>1, <2>2, <3>1
      <3>3. disk'[f].digest = v.digest /\ v.file = f /\ v.by = by /\ v \in wrote'
        BY <2>1, <3>1, <3>2
      <3>4. by = c
        BY <3>3 DEF Author
      <3> QED BY <1>2, <3>1, <3>4
    <2>4. disk'[f] = disk[f]
      BY <2>1, <2>2, <2>3
    <2> QED BY <1>0, <2>4 DEF Author
  <1> QED BY <1>0, <1>1, <1>2, TreeViews

LEMMA SoleBefore ==
    ASSUME BookInv, [Next]_vars, NEW c \in Calls, NEW f \in Files, Sole(c, f)'
    PROVE  \/ Sole(c, f) /\ disk'[f] = disk[f]
           \/ /\ hook[c].pc = "running" /\ ~Wrote(f, disk'[f].digest)
              /\ UNCHANGED <<lock, storeVars, hook, handed, owner, dead, now>>
PROOF
  <1>0. TypeInv /\ wrote \subseteq wrote'
    BY WroteGrows DEF BookInv
  <1>1. CASE hook[c].pc # "running" \/ ~Write(f, c)
    <2>1. disk'[f] = disk[f]
      BY <1>1, AuthorBefore DEF Sole, Author
    <2> QED BY <1>0, <2>1 DEF Sole
  <1>2. CASE hook[c].pc = "running" /\ Write(f, c)
    <2>1. PICK v \in [file : {f}, digest : Content, stat : {0, writes[f].all + 2}, by : {c}] :
              /\ wrote' = wrote \union {v}
              /\ disk' = [disk EXCEPT ![f] = [digest |-> v.digest, stat |-> v.stat]]
              /\ v.stat = 0 => v.digest = NoDigest
      BY <1>0, <1>2, WriteTyped
    <2>2. disk \in [Files -> State] /\ writes[f].all \in Nat
      BY <1>0 DEF TypeInv
    <2>3. disk'[f].digest = v.digest /\ disk'[f].stat = v.stat
      BY <2>1, <2>2
    <2>4. v.stat = writes[f].all + 2
      BY <2>1, <2>3 DEF Sole
    <2>5. ~Wrote(f, disk'[f].digest)
      <3>1. SUFFICES ASSUME NEW w \in wrote, w.file = f, w.digest = disk'[f].digest PROVE FALSE
        BY DEF Wrote
      <3>2. w.stat = disk'[f].stat
        BY <1>0, <3>1 DEF Sole
      <3>3. w.stat <= writes[f].all + 1
        BY <3>1 DEF BookInv, WritesInv
      <3> QED BY <2>2, <2>3, <2>4, <3>2, <3>3
    <2> QED BY <1>2, <2>5 DEF Write
  <1> QED BY <1>1, <1>2

(* What is left as last seen is on disk, or the file is overtaken. *)
LEMMA ObservedViews ==
    ASSUME TypeInv, [Next]_vars, NEW f \in Files, NEW e \in Epochs
    PROVE  \/ observed'[f][e] = observed[f][e]
           \/ f \in overtaken'
           \/ observed'[f][e] = disk[f] /\ disk' = disk
PROOF
  <1> DEFINE Goal == \/ observed'[f][e] = observed[f][e]
                     \/ f \in overtaken'
                     \/ observed'[f][e] = disk[f] /\ disk' = disk
  <1>1. ASSUME UNCHANGED observed PROVE Goal
    BY <1>1
  <1>2. ASSUME NEW c \in Calls, HookDrift(c), RecordDrift(c) PROVE Goal
    <2>1. observed'[f][e] = IF /\ f \in Drifted(hook[c].obs) \union FirstSeen(hook[c].obs)
                               /\ e = hook[c].obs[f].epoch
                            THEN hook[c].obs[f].state ELSE observed[f][e]
      BY <1>2, DriftStores DEF HookDrift
    <2>2. {g \in Drifted(hook[c].obs) \union FirstSeen(hook[c].obs) : hook[c].obs[g].state # disk[g]}
              \subseteq overtaken'
      BY <1>2 DEF RecordDrift
    <2>3. disk' = disk
      BY <1>2 DEF HookDrift, treeVars
    <2> QED BY <2>1, <2>2, <2>3
  <1>3. ASSUME NEW c \in Calls, HookPost(c), c \in DOMAIN calls, RecordCallPost(c) PROVE Goal
    <2>1. observed'[f][e] = IF /\ f \in DOMAIN hook[c].obs /\ hook[c].obs[f].locked
                               /\ e = hook[c].obs[f].epoch
                            THEN hook[c].obs[f].state ELSE observed[f][e]
      BY <1>3, PostStores DEF HookPost
    <2>2. {g \in DOMAIN hook[c].obs : hook[c].obs[g].state # disk[g]} \subseteq overtaken'
      BY <1>3 DEF RecordCallPost
    <2>3. disk' = disk
      BY <1>3 DEF HookPost, treeVars
    <2> QED BY <2>1, <2>2, <2>3
  <1>4. ASSUME NEW c \in Calls, \/ HookLook(c) \/ HookRead(c) \/ HookPending(c) \/ HookDeliver(c)
                                \/ HookDeliverFails(c) \/ HookFailOpen(c) \/ HookRecord(c)
                                \/ PostObserve(c) \/ ToolWrites(c)
                                \/ HookDrift(c) /\ UNCHANGED storeVars
                                \/ HookPost(c) /\ UNCHANGED storeVars
        PROVE  UNCHANGED observed
    BY <1>4 DEF HookLook, HookRead, HookPending, HookDeliver, HookDeliverFails, HookDrift, HookRecord,
                HookFailOpen, PostObserve, ToolWrites, Write, HookPost, storeVars
  <1>5. ASSUME \/ DropOldTreeEvents \/ DropFinishedCalls \/ MarkDeadOwnerCalls \/ OutsideWrites
               \/ LockTaken \/ LockEnds \/ SessionDies \/ Tick \/ UNCHANGED vars
        PROVE  UNCHANGED observed
    BY <1>5 DEF DropOldTreeEvents, DropFinishedCalls, MarkDeadOwnerCalls, OutsideWrites, Write,
                LockTaken, LockEnds, SessionDies, Tick, vars, storeVars
  <1> HIDE DEF Goal
  <1>6. ASSUME NEW c \in Calls, HookDrift(c) \/ HookPost(c) PROVE Goal
    BY <1>1, <1>2, <1>3, <1>4, <1>6 DEF HookDrift, HookPost
  <1>7. Goal
    BY <1>1, <1>4, <1>5, <1>6 DEF Next
  <1> QED BY <1>7 DEF Goal

LEMMA SeenStep ==
    ASSUME BookInv, SeenInv, [Next]_vars
    PROVE  SeenInv'
PROOF
  <1>0. TypeInv /\ TenureInv /\ RowsInv
    BY DEF BookInv
  <1> SUFFICES ASSUME NEW c \in Calls, NEW f \in Files, NEW e \in Epochs,
                      <<f, e>> \in hook'[c].noted, lock'[f].epoch = e, e # 0
               PROVE  /\ hook'[c].pc = "post" => /\ f \in DOMAIN hook'[c].obs
                                                 /\ hook'[c].obs[f].locked /\ hook'[c].obs[f].epoch = e
                      /\ hook'[c].pc = "done" /\ ~hook'[c].lost /\ f \notin overtaken' /\ Author(c, f)' =>
                             observed'[f][e] = disk'[f]
    BY DEF SeenInv
  <1>1. HookView(c) /\ (hook[c].lost /\ hook[c].pc # "record" => hook'[c].lost)
    BY <1>0, HookViews
  <1>2. ASSUME <<f, e>> \in hook[c].noted PROVE lock[f].epoch = e
    <2>1. e <= lock[f].last
      BY <1>0, <1>2 DEF TenureInv
    <2>2. LockView(f) /\ lock[f].last \in Nat /\ e \in Nat
      BY <1>0, LockViews, ObservationAssumption DEF Epochs
    <2> QED BY <2>1, <2>2 DEF LockView
  <1>3. ASSUME hook'[c].pc = "post"
        PROVE  f \in DOMAIN hook'[c].obs /\ hook'[c].obs[f].locked /\ hook'[c].obs[f].epoch = e
    <2>1. CASE Stays(c)
      <3>1. hook[c].pc = "post" /\ hook'[c].obs = hook[c].obs /\ <<f, e>> \in hook[c].noted
        BY <1>3, <2>1 DEF Stays
      <3> QED BY <1>2, <3>1 DEF SeenInv
    <2>2. CASE Observes(c)
      <3>1. hook'[c].obs = PostSees(c) /\ <<f, e>> \in hook[c].noted
        BY <2>2 DEF Observes
      <3>2. lock[f].owner # NoOwner /\ lock[f].epoch = e
        BY <1>0, <1>2, <3>1 DEF TenureInv
      <3>3. f \in Watched({})
        BY <3>2 DEF Watched
      <3> QED BY <1>0, <3>1, <3>2, <3>3, PostSeesTyped
    <2> QED BY <1>1, <1>3, <2>1, <2>2 DEF HookView, Looks, Reads, Records, FailsOpen, Posts
  <1>4. ASSUME hook'[c].pc = "done", ~hook'[c].lost, f \notin overtaken', Author(c, f)'
        PROVE  observed'[f][e] = disk'[f]
    <2>1. CASE Stays(c)
      <3>1. hook[c].pc = "done" /\ <<f, e>> \in hook[c].noted
        BY <1>4, <2>1 DEF Stays
      <3>2. Author(c, f) /\ disk'[f] = disk[f]
        BY <1>4, <3>1, AuthorBefore
      <3>3. ~hook[c].lost /\ f \notin overtaken
        BY <1>0, <1>1, <1>4, <3>1, ClockViews
      <3>4. observed[f][e] = disk[f]
        BY <1>2, <3>1, <3>2, <3>3 DEF SeenInv
      <3> QED BY <1>0, <1>4, <3>2, <3>4, ObservedViews
    <2>2. CASE FailsOpen(c)
      BY <2>2 DEF FailsOpen
    <2>3. CASE Posts(c)
      <3>1. /\ HookPost(c) /\ hook[c].pc = "post" /\ <<f, e>> \in hook[c].noted /\ ~hook[c].lost
        BY <1>4, <2>3 DEF Posts
      <3>2. Open(c)
        BY <1>0, <3>1 DEF RowsInv
      <3>3. RecordCallPost(c)
        BY <3>1, <3>2 DEF HookPost, Open
      <3>4. f \in DOMAIN hook[c].obs /\ hook[c].obs[f].locked /\ hook[c].obs[f].epoch = e
        BY <1>2, <3>1 DEF SeenInv
      <3>5. observed'[f][e] = hook[c].obs[f].state
        BY <1>0, <3>1, <3>3, <3>4, PostStores
      <3>6. {g \in DOMAIN hook[c].obs : hook[c].obs[g].state # disk[g]} \subseteq overtaken'
        BY <3>3 DEF RecordCallPost
      <3>7. disk' = disk
        BY <3>1 DEF HookPost, treeVars
      <3> QED BY <1>4, <3>4, <3>5, <3>6, <3>7
    <2> QED BY <1>1, <1>4, <2>1, <2>2, <2>3 DEF HookView, Looks, Reads, Records, Observes
  <1> QED BY <1>3, <1>4

LEMMA NumberStep ==
    ASSUME BookInv, NumberInv, [Next]_vars
    PROVE  NumberInv'
PROOF
  <1>0. TypeInv /\ WritesInv /\ RowsInv /\ SeqInv /\ RowsInv'
    BY BookStep DEF BookInv
  <1> SUFFICES ASSUME NEW c \in Calls, NEW f \in Files, NEW e \in Epochs,
                      Sole(c, f)', path_seq'[f][e].seq > 0, path_seq'[f][e].digest = disk'[f].digest
               PROVE  /\ \A k \in Calls :
                             /\ hook'[k].pc \in {"drift", "pending", "deliver", "record"}
                             /\ f \in DOMAIN hook'[k].obs
                             /\ hook'[k].obs[f].line[e].seq >= path_seq'[f][e].seq
                             => hook'[k].obs[f].state = disk'[f]
                      /\ \A k \in DOMAIN calls' :
                             /\ calls'[k].state # "posted"
                             /\ f \in DOMAIN calls'[k].paths /\ calls'[k].paths[f].epoch = e
                             /\ calls'[k].paths[f].seq >= path_seq'[f][e].seq
                             => calls'[k].paths[f].state = disk'[f]
                      /\ <<f, e>> \in hook'[c].noted /\ c \in DOMAIN calls' =>
                             calls'[c].paths[f].seq < path_seq'[f][e].seq
    BY DEF NumberInv
  <1>1. path_seq[f][e].seq \in Nat /\ path_seq'[f][e].seq \in Nat /\ SeqView(f, e)
    BY <1>0, SeqViews
  <1>2. Sole(c, f) /\ disk'[f] = disk[f]
    <2>1. ASSUME ~Wrote(f, disk'[f].digest), UNCHANGED storeVars PROVE FALSE
      <3>1. path_seq' = path_seq
        BY <2>1 DEF storeVars
      <3>2. Wrote(f, path_seq[f][e].digest)
        BY <1>0, <3>1 DEF WritesInv
      <3> QED BY <2>1, <3>1, <3>2
    <2> QED BY <2>1, SoleBefore
  <1>3. hook[c].pc \in {"running", "post", "done"}
    BY <1>2, SoleAuthor, AuthorRan
  <1>4. CASE path_seq'[f][e] = path_seq[f][e]
    <2>1. ASSUME NEW k \in Calls, hook[k].pc \in {"drift", "pending", "deliver", "record"},
                 f \in DOMAIN hook[k].obs, hook[k].obs[f].line[e].seq >= path_seq[f][e].seq
          PROVE  hook[k].obs[f].state = disk[f]
      BY <1>2, <1>4, <2>1 DEF NumberInv
    <2>2. ASSUME NEW k \in DOMAIN calls, calls[k].state # "posted", f \in DOMAIN calls[k].paths,
                 calls[k].paths[f].epoch = e, calls[k].paths[f].seq >= path_seq[f][e].seq
          PROVE  calls[k].paths[f].state = disk[f]
      BY <1>2, <1>4, <2>2 DEF NumberInv
    <2>3. ASSUME <<f, e>> \in hook[c].noted, c \in DOMAIN calls
          PROVE  calls[c].paths[f].seq < path_seq[f][e].seq
      BY <1>2, <1>4, <2>3 DEF NumberInv
    <2>4. ASSUME NEW k \in Calls, hook'[k].pc \in {"drift", "pending", "deliver", "record"},
                 f \in DOMAIN hook'[k].obs, hook'[k].obs[f].line[e].seq >= path_seq'[f][e].seq
          PROVE  hook'[k].obs[f].state = disk'[f]
      <3>1. HookView(k)
        BY <1>0, HookViews
      <3>2. CASE Stays(k)
        <4>1. /\ hook[k].pc \in {"drift", "pending", "deliver", "record"}
              /\ hook'[k].obs = hook[k].obs
          BY <2>4, <3>2 DEF Stays
        <4> QED BY <1>2, <1>4, <2>1, <2>4, <4>1
      <3>3. CASE Reads(k)
        BY <1>0, <1>2, <2>4, <3>3, ReadTyped, HookTyped DEF Reads
      <3> QED BY <2>4, <3>1, <3>2, <3>3 DEF HookView, Looks, Records, FailsOpen, Observes, Posts
    <2>5. ASSUME NEW k \in DOMAIN calls', calls'[k].state # "posted",
                 f \in DOMAIN calls'[k].paths, calls'[k].paths[f].epoch = e,
                 calls'[k].paths[f].seq >= path_seq'[f][e].seq
          PROVE  calls'[k].paths[f].state = disk'[f]
      <3>1. RowView(k) /\ k \in Calls
        BY <1>0, RowViews, RowsOfCalls
      <3>2. CASE NewRow(k)
        <4>1. /\ f \in DOMAIN hook[k].obs /\ calls'[k].paths[f] = RowOf(hook[k].obs, f)
              /\ HasRead(k) /\ hook[k].pc = "record"
          BY <2>5, <3>2 DEF NewRow, HookRecord, HasRead
        <4>2. /\ hook[k].obs \in Partial(Files, Seen) /\ hook[k].obs[f].state \in State
              /\ hook[k].obs[f].line \in Line
          BY <1>0, <3>1, <4>1, HookTyped
        <4>3. /\ hook[k].obs[f].epoch = e /\ calls'[k].paths[f].state = hook[k].obs[f].state
              /\ calls'[k].paths[f].seq <= hook[k].obs[f].line[e].seq
          BY <1>0, <2>5, <4>1, <4>2, RowTyped
        <4>4. hook[k].obs[f].line[e].seq \in Nat /\ calls'[k].paths[f].seq \in Nat
          BY <1>0, <2>5, <4>2, RowsOld DEF Line
        <4>5. hook[k].obs[f].line[e].seq >= path_seq[f][e].seq
          BY <1>1, <1>4, <2>5, <4>3, <4>4
        <4> QED BY <1>2, <2>1, <3>1, <4>1, <4>3, <4>5
      <3>3. CASE (k \in DOMAIN calls /\ calls'[k] = calls[k]) \/ DeadRow(k)
        <4>1. /\ k \in DOMAIN calls /\ calls'[k].paths = calls[k].paths /\ calls[k].state # "posted"
          BY <2>5, <3>3 DEF DeadRow
        <4> QED BY <1>2, <1>4, <2>2, <2>5, <4>1
      <3> QED BY <2>5, <3>1, <3>2, <3>3 DEF RowView, PostedRow
    <2>6. ASSUME <<f, e>> \in hook'[c].noted, c \in DOMAIN calls'
          PROVE  calls'[c].paths[f].seq < path_seq'[f][e].seq
      <3>1. HookView(c) /\ RowView(c)
        BY <1>0, <2>6, HookViews, RowViews
      <3>2. <<f, e>> \in hook[c].noted
        BY <1>3, <2>6, <3>1 DEF HookView, Stays, Looks, Reads, Records, FailsOpen, Observes, Posts
      <3>3. CASE NewRow(c)
        BY <1>3, <3>3 DEF NewRow, HookRecord
      <3>4. CASE PostedRow(c)
        <4>1. c \in DOMAIN calls /\ hook[c].pc = "post"
          BY <3>4 DEF PostedRow, HookPost
        <4>2. f \in DOMAIN calls[c].paths /\ f \in DOMAIN hook[c].obs
          BY <1>0, <3>2, <4>1 DEF RowsInv
        <4>3. Prior(c, f) = calls[c].paths[f]
          BY <1>0, <4>1, <4>2, PriorTyped, RecordedTyped
        <4>4. calls'[c].paths[f] = calls[c].paths[f]
          BY <3>4, <4>2, <4>3 DEF PostedRow
        <4> QED BY <1>4, <2>3, <3>2, <4>1, <4>4
      <3>5. CASE (c \in DOMAIN calls /\ calls'[c] = calls[c]) \/ DeadRow(c)
        <4>1. c \in DOMAIN calls /\ calls'[c].paths = calls[c].paths
          BY <3>5 DEF DeadRow
        <4> QED BY <1>4, <2>3, <3>2, <4>1
      <3> QED BY <3>1, <3>3, <3>4, <3>5 DEF RowView
    <2> QED BY <2>4, <2>5, <2>6
  <1>5. CASE path_seq'[f][e].seq = path_seq[f][e].seq + 1
    <2>1. ASSUME NEW k \in Calls, f \in DOMAIN hook'[k].obs
          PROVE  ~(hook'[k].obs[f].line[e].seq >= path_seq'[f][e].seq)
      <3>1. hook'[k].obs[f].line[e].seq <= path_seq[f][e].seq /\ hook'[k].obs[f].line[e].seq \in Nat
        BY <1>0, <2>1, LinesOld
      <3> QED BY <1>1, <1>5, <3>1
    <2>2. ASSUME NEW k \in DOMAIN calls', f \in DOMAIN calls'[k].paths, calls'[k].paths[f].epoch = e
          PROVE  calls'[k].paths[f].seq < path_seq'[f][e].seq
                 /\ ~(calls'[k].paths[f].seq >= path_seq'[f][e].seq)
      <3>1. calls'[k].paths[f].seq <= path_seq[f][e].seq /\ calls'[k].paths[f].seq \in Nat
        BY <1>0, <2>2, RowsOld
      <3> QED BY <1>1, <1>5, <3>1
    <2>3. ASSUME <<f, e>> \in hook'[c].noted, c \in DOMAIN calls'
          PROVE  f \in DOMAIN calls'[c].paths /\ calls'[c].paths[f].epoch = e
      BY <1>0, <2>3 DEF RowsInv
    <2> QED BY <2>1, <2>2, <2>3
  <1> QED BY <1>1, <1>4, <1>5 DEF SeqView

(* Who numbers a change. *)
LEMMA Renumbering ==
    ASSUME TypeInv, [Next]_vars, NEW f \in Files, NEW e \in Epochs, path_seq'[f][e] # path_seq[f][e]
    PROVE  \E d \in Calls :
               \/ /\ HookDrift(d) /\ RecordDrift(d)
                  /\ f \in Drifted(hook[d].obs) /\ e = hook[d].obs[f].epoch
               \/ /\ HookPost(d) /\ d \in DOMAIN calls /\ RecordCallPost(d)
                  /\ f \in Numbered(d) /\ e = Prior(d, f).epoch
PROOF
  <1> DEFINE Goal == \E d \in Calls :
               \/ /\ HookDrift(d) /\ RecordDrift(d)
                  /\ f \in Drifted(hook[d].obs) /\ e = hook[d].obs[f].epoch
               \/ /\ HookPost(d) /\ d \in DOMAIN calls /\ RecordCallPost(d)
                  /\ f \in Numbered(d) /\ e = Prior(d, f).epoch
  <1>1. ASSUME NEW c \in Calls, HookDrift(c), RecordDrift(c) PROVE Goal
    <2>1. path_seq'[f][e] = IF f \in Drifted(hook[c].obs) /\ e = hook[c].obs[f].epoch
                            THEN Numbering(f, e, hook[c].obs[f].state) ELSE path_seq[f][e]
      BY <1>1, DriftStores DEF HookDrift
    <2> QED BY <1>1, <2>1
  <1>2. ASSUME NEW c \in Calls, HookPost(c), c \in DOMAIN calls, RecordCallPost(c) PROVE Goal
    <2>1. path_seq'[f][e] = IF f \in Numbered(c) /\ e = Prior(c, f).epoch
                            THEN Numbering(f, e, hook[c].obs[f].state) ELSE path_seq[f][e]
      BY <1>2, PostStores DEF HookPost
    <2> QED BY <1>2, <2>1
  <1>3. ASSUME NEW c \in Calls, \/ HookLook(c) \/ HookRead(c) \/ HookPending(c) \/ HookDeliver(c)
                                \/ HookDeliverFails(c) \/ HookFailOpen(c) \/ HookRecord(c)
                                \/ PostObserve(c) \/ ToolWrites(c)
                                \/ HookDrift(c) /\ UNCHANGED storeVars
                                \/ HookPost(c) /\ UNCHANGED storeVars
        PROVE  FALSE
    BY <1>3 DEF HookLook, HookRead, HookPending, HookDeliver, HookDeliverFails, HookDrift, HookRecord,
                HookFailOpen, PostObserve, ToolWrites, Write, HookPost, storeVars
  <1>4. ASSUME \/ DropOldTreeEvents \/ DropFinishedCalls \/ MarkDeadOwnerCalls \/ OutsideWrites
               \/ LockTaken \/ LockEnds \/ SessionDies \/ Tick \/ UNCHANGED vars
        PROVE  FALSE
    BY <1>4 DEF DropOldTreeEvents, DropFinishedCalls, MarkDeadOwnerCalls, OutsideWrites, Write,
                LockTaken, LockEnds, SessionDies, Tick, vars, storeVars
  <1> HIDE DEF Goal
  <1>5. ASSUME NEW c \in Calls, HookDrift(c) \/ HookPost(c) PROVE Goal
    BY <1>1, <1>2, <1>3, <1>5 DEF HookDrift, HookPost
  <1>6. Goal
    BY <1>3, <1>4, <1>5 DEF Next
  <1> QED BY <1>6 DEF Goal

(* What a drift pass numbers is on disk, in a tenure under way, or the     *)
(* file is overtaken.                                                      *)
LEMMA DriftSees ==
    ASSUME TypeInv, TenureInv, NEW d \in Calls, hook[d].pc = "drift", RecordDrift(d),
           NEW f \in Drifted(hook[d].obs), f \notin overtaken'
    PROVE  LET e == lock[f].epoch
           IN  /\ f \in DOMAIN hook[d].obs /\ f \in Files /\ hook[d].obs[f].epoch = e
               /\ e \in Epochs /\ e # 0
               /\ hook[d].obs[f].state = disk[f] /\ observed[f][e] # disk[f] /\ ~Covered(f, e)
PROOF
  <1>1. /\ f \in DOMAIN hook[d].obs /\ hook[d].obs[f].locked
        /\ observed[f][hook[d].obs[f].epoch] # hook[d].obs[f].state
        /\ ~Covered(f, hook[d].obs[f].epoch)
    BY DEF Drifted
  <1>2. /\ {g \in Drifted(hook[d].obs) \union FirstSeen(hook[d].obs) : hook[d].obs[g].state # disk[g]}
              \subseteq overtaken'
        /\ {g \in Drifted(hook[d].obs) : hook[d].obs[g].epoch # lock[g].epoch} \subseteq overtaken'
    BY DEF RecordDrift
  <1>3. hook[d].obs[f].state = disk[f] /\ hook[d].obs[f].epoch = lock[f].epoch
    BY <1>2
  <1>4. hook[d].obs[f].epoch # 0
    BY <1>1 DEF TenureInv
  <1>5. f \in Files /\ hook[d].obs[f].epoch \in Epochs
    BY <1>1, HookTyped
  <1> QED BY <1>1, <1>3, <1>4, <1>5

(* What a post records is on disk, and numbered once, or the file is       *)
(* overtaken.                                                              *)
LEMMA PostSaw ==
    ASSUME TypeInv, NEW d \in Calls, RecordCallPost(d), NEW f \in DOMAIN hook[d].obs,
           f \notin overtaken'
    PROVE  /\ hook[d].obs[f].state = disk[f]
           /\ f \in Numbered(d) /\ f \notin DOMAIN Recorded(d) =>
                  path_seq[f][Prior(d, f).epoch].digest # disk[f].digest
PROOF
  <1>1. /\ {g \in DOMAIN hook[d].obs : hook[d].obs[g].state # disk[g]} \subseteq overtaken'
        /\ {g \in Numbered(d) \ DOMAIN Recorded(d) :
               path_seq[g][Prior(d, g).epoch].digest = hook[d].obs[g].state.digest} \subseteq overtaken'
    BY DEF RecordCallPost, Numbered, Changed, Prior
  <1>2. hook[d].obs[f].state = disk[f]
    BY <1>1
  <1> QED BY <1>1, <1>2

LEMMA AuthorStep ==
    ASSUME BookInv, SeenInv, NumberInv, AuthorInv, [Next]_vars
    PROVE  AuthorInv'
PROOF
  <1>0. TypeInv /\ WritesInv /\ TenureInv /\ RowsInv /\ SeqInv /\ RowsInv'
    BY BookStep DEF BookInv
  <1> SUFFICES ASSUME NEW c \in Calls, NEW f \in Files, Sole(c, f)', c \in DOMAIN calls'
               PROVE  /\ calls'[c].state # "posted" /\ f \in DOMAIN calls'[c].paths =>
                             calls'[c].paths[f].state.digest # disk'[f].digest
                      /\ calls'[c].state = "posted" /\ ~hook'[c].lost /\ f \notin overtaken' =>
                             \A e \in Epochs : <<f, e>> \in hook'[c].noted =>
                                 /\ path_seq'[f][e].seq > 0 /\ path_seq'[f][e].digest = disk'[f].digest
                                 /\ f \in DOMAIN calls'[c].post /\ calls'[c].post[f] = path_seq'[f][e].seq
    BY DEF AuthorInv
  <1>1. RowView(c) /\ HookView(c) /\ (hook[c].lost /\ hook[c].pc # "record" => hook'[c].lost)
    BY <1>0, RowViews, HookViews
  <1>2. hook[c].pc \in {"running", "post", "done"}
    BY SoleBefore, SoleAuthor, AuthorRan
  <1>3. c \in DOMAIN calls /\ ~NewRow(c)
    BY <1>1, <1>2 DEF RowView, NewRow, PostedRow, DeadRow, HookRecord
  <1>4. ASSUME calls'[c].state # "posted", f \in DOMAIN calls'[c].paths
        PROVE  calls'[c].paths[f].state.digest # disk'[f].digest
    <2>1. calls'[c].paths = calls[c].paths /\ calls[c].state # "posted"
      BY <1>1, <1>3, <1>4 DEF RowView, PostedRow, DeadRow
    <2>2. CASE Sole(c, f) /\ disk'[f] = disk[f]
      BY <1>3, <1>4, <2>1, <2>2 DEF AuthorInv
    <2>3. CASE ~Wrote(f, disk'[f].digest)
      <3>1. WroteState(f, calls[c].paths[f].state)
        BY <1>0, <1>3, <1>4, <2>1 DEF WritesInv
      <3> QED BY <2>1, <2>3, <3>1 DEF Wrote, WroteState
    <2> QED BY <2>2, <2>3, SoleBefore
  <1>5. ASSUME calls'[c].state = "posted", ~hook'[c].lost, f \notin overtaken',
               NEW e \in Epochs, <<f, e>> \in hook'[c].noted
        PROVE  /\ path_seq'[f][e].seq > 0 /\ path_seq'[f][e].digest = disk'[f].digest
               /\ f \in DOMAIN calls'[c].post /\ calls'[c].post[f] = path_seq'[f][e].seq
    <2>0. path_seq[f][e].seq \in Nat
      BY <1>0, SeqViews
    <2>1. hook'[c].noted = hook[c].noted
      BY <1>1, <1>2 DEF HookView, Stays, Looks, Reads, Records, FailsOpen, Observes, Posts
    <2>2. CASE PostedRow(c)
      <3>1. HookPost(c) /\ RecordCallPost(c) /\ hook[c].pc = "post" /\ disk' = disk
        BY <2>2 DEF PostedRow, HookPost, treeVars
      <3>2. Sole(c, f)
        BY <3>1, SoleBefore
      <3>3. /\ f \in DOMAIN calls[c].paths /\ calls[c].paths[f].epoch = e /\ f \in DOMAIN hook[c].obs
            /\ calls[c].state # "posted"
        BY <1>0, <1>3, <1>5, <2>1, <3>1 DEF RowsInv
      <3>4. Prior(c, f) = calls[c].paths[f] /\ Prior(c, f).seq \in Nat
        BY <1>0, <1>3, <3>3, PriorTyped, RecordedTyped
      <3>5. Prior(c, f).state.digest # disk[f].digest
        BY <1>3, <3>2, <3>3, <3>4 DEF AuthorInv
      <3>6. hook[c].obs[f].state = disk[f]
        BY <1>0, <1>5, <3>1, <3>3, PostSaw
      <3>7. f \in Changed(c)
        BY <3>3, <3>5, <3>6 DEF Changed, PathChanged
      <3>8. path_seq'[f][e] = IF f \in Numbered(c) THEN Numbering(f, e, hook[c].obs[f].state)
                              ELSE path_seq[f][e]
        BY <1>0, <3>1, <3>3, <3>4, PostStores
      <3>9. f \in DOMAIN calls'[c].post /\ calls'[c].post[f] = SeqPost(c, f)
        BY <2>2, <3>3 DEF PostedRow
      <3>10. CASE f \in Numbered(c)
        <4>1. path_seq'[f][e].seq = path_seq[f][e].seq + 1 /\ path_seq'[f][e].digest = disk[f].digest
          BY <3>6, <3>8, <3>10 DEF Numbering
        <4>2. SeqPost(c, f) = path_seq[f][e].seq + 1
          BY <3>3, <3>4, <3>10 DEF SeqPost
        <4> QED BY <2>0, <3>1, <3>9, <4>1, <4>2
      <3>11. CASE f \notin Numbered(c)
        <4>1. AlreadyNumbered(f, Prior(c, f), hook[c].obs[f])
          BY <3>7, <3>11 DEF Numbered
        <4>2. path_seq[f][e].seq > Prior(c, f).seq /\ path_seq[f][e].digest = disk[f].digest
          BY <3>3, <3>4, <3>6, <4>1 DEF AlreadyNumbered
        <4>3. SeqPost(c, f) = path_seq[f][e].seq
          BY <3>3, <3>4, <3>7, <3>11 DEF SeqPost
        <4> QED BY <2>0, <3>1, <3>4, <3>8, <3>9, <3>11, <4>2, <4>3
      <3> QED BY <3>10, <3>11
    <2>3. CASE ~PostedRow(c)
      <3>1. calls'[c] = calls[c]
        BY <1>1, <1>3, <1>5, <2>3 DEF RowView, DeadRow
      <3>2. hook[c].pc = "done" /\ ~hook[c].lost /\ f \notin overtaken /\ calls[c].state = "posted"
        BY <1>0, <1>1, <1>3, <1>5, <3>1, ClockViews DEF RowsInv
      <3>3. Sole(c, f) /\ disk'[f] = disk[f]
        BY <3>2, SoleBefore
      <3>4. /\ path_seq[f][e].seq > 0 /\ path_seq[f][e].digest = disk[f].digest
            /\ f \in DOMAIN calls[c].post /\ calls[c].post[f] = path_seq[f][e].seq
        BY <1>3, <1>5, <2>1, <3>2, <3>3 DEF AuthorInv
      <3>5. ASSUME path_seq'[f][e] # path_seq[f][e] PROVE FALSE
        <4>1. PICK d \in Calls :
               \/ /\ HookDrift(d) /\ RecordDrift(d)
                  /\ f \in Drifted(hook[d].obs) /\ e = hook[d].obs[f].epoch
               \/ /\ HookPost(d) /\ d \in DOMAIN calls /\ RecordCallPost(d)
                  /\ f \in Numbered(d) /\ e = Prior(d, f).epoch
          BY <1>0, <3>5, Renumbering
        <4>2. CASE HookDrift(d) /\ RecordDrift(d) /\ f \in Drifted(hook[d].obs)
                   /\ e = hook[d].obs[f].epoch
          <5>1. hook[d].pc = "drift"
            BY <4>2 DEF HookDrift
          <5>2. e = lock[f].epoch /\ e # 0 /\ observed[f][e] # disk[f]
            BY <1>0, <1>5, <4>2, <5>1, DriftSees
          <5>3. observed[f][e] = disk[f]
            BY <1>5, <2>1, <3>2, <3>3, <5>2, SoleAuthor DEF SeenInv
          <5> QED BY <5>2, <5>3
        <4>3. CASE /\ HookPost(d) /\ d \in DOMAIN calls /\ RecordCallPost(d)
                   /\ f \in Numbered(d) /\ e = Prior(d, f).epoch
          <5>1. /\ f \in DOMAIN hook[d].obs /\ PathChanged(Prior(d, f), hook[d].obs[f])
                /\ ~AlreadyNumbered(f, Prior(d, f), hook[d].obs[f]) /\ hook[d].pc = "post"
            BY <4>3 DEF Numbered, Changed, HookPost
          <5>2. hook[d].obs[f].state = disk[f] /\ f \in DOMAIN Recorded(d)
            BY <1>0, <1>5, <3>4, <4>3, <5>1, PostSaw
          <5>3. Prior(d, f) = calls[d].paths[f] /\ f \in DOMAIN calls[d].paths /\ Prior(d, f).seq \in Nat
            BY <1>0, <4>3, <5>1, <5>2, PriorTyped, RecordedTyped
          <5>4. calls[d].state # "posted"
            BY <1>0, <4>3, <5>1 DEF RowsInv
          <5>5. ~(path_seq[f][e].seq > Prior(d, f).seq)
            BY <3>4, <4>3, <5>1, <5>2 DEF AlreadyNumbered
          <5>6. calls[d].paths[f].seq >= path_seq[f][e].seq
            BY <2>0, <5>3, <5>5
          <5>7. Prior(d, f).state = disk[f]
            BY <3>3, <3>4, <4>3, <5>3, <5>4, <5>6 DEF NumberInv
          <5>8. disk[f].digest # NoDigest
            BY <3>3, SoleAuthor
          <5> QED BY <5>1, <5>2, <5>7, <5>8 DEF PathChanged
        <4> QED BY <4>1, <4>2, <4>3
      <3> QED BY <3>1, <3>3, <3>4, <3>5
    <2> QED BY <2>2, <2>3
  <1> QED BY <1>4, <1>5

LEMMA ReadStep ==
    ASSUME BookInv, ReadInv, [Next]_vars
    PROVE  ReadInv'
PROOF
  <1>0. TypeInv /\ RowsInv /\ Timely /\ Timely' /\ TypeInv'
    BY BookStep DEF BookInv
  <1> SUFFICES ASSUME NEW c \in Calls, NEW f \in Files, Sole(c, f)', hook'[c].pc = "done",
                      ~hook'[c].lost
               PROVE  /\ \A k \in Calls :
                             /\ hook'[k].pc \in {"drift", "pending", "deliver", "record"} /\ Alive(k)'
                             /\ f \in DOMAIN hook'[k].obs
                             /\ c \in DOMAIN calls' => hook'[k].tpre > calls'[c].ended
                             => hook'[k].obs[f].state = disk'[f]
                      /\ \A k \in DOMAIN calls' :
                             /\ Open(k)' /\ f \in DOMAIN calls'[k].paths
                             /\ c \in DOMAIN calls' => calls'[k].tpre > calls'[c].ended
                             => calls'[k].paths[f].state = disk'[f]
    BY DEF ReadInv
  <1>1. HookView(c) /\ (hook[c].lost /\ hook[c].pc # "record" => hook'[c].lost)
    BY <1>0, HookViews
  <1>2. Sole(c, f) /\ disk'[f] = disk[f]
    BY SoleBefore
  <1>3. hook[c].pc \in {"running", "post", "done"}
    BY <1>2, SoleAuthor, AuthorRan
  <1>4. ~hook[c].lost /\ (hook[c].pc = "done" \/ Posts(c))
    BY <1>1, <1>3 DEF HookView, Stays, Looks, Reads, Records, FailsOpen, Observes, Posts
  <1>5. CASE Posts(c)
    <2>1. HookPost(c) /\ hook[c].pc = "post" /\ now' = now
      BY <1>5 DEF Posts, HookPost
    <2>2. Open(c)
      BY <1>0, <1>4, <2>1 DEF RowsInv
    <2>3. c \in DOMAIN calls /\ RecordCallPost(c)
      BY <2>1, <2>2 DEF HookPost, Open
    <2>4. c \in DOMAIN calls' /\ calls'[c].ended = now
      BY <1>0, <2>3, PostRows
    <2>5. now \in Nat /\ \A k \in Calls : hook'[k].tpre \in Nat /\ hook'[k].tpre <= now
      <3>1. \A k \in Calls : hook'[k].tpre \in Nat
        BY <1>0 DEF TypeInv, Process
      <3> QED BY <1>0, <2>1, <3>1 DEF TypeInv, Timely
    <2>6. \A k \in DOMAIN calls' : calls'[k].tpre \in Nat /\ calls'[k].tpre <= now
      <3>1. \A k \in DOMAIN calls' : calls'[k] \in CallRow
        BY <1>0, PartialOut DEF TypeInv
      <3> QED BY <1>0, <2>1, <3>1 DEF CallRow, Timely
    <2> QED BY <2>4, <2>5, <2>6
  <1>6. CASE hook[c].pc = "done"
    <2>1. ASSUME c \in DOMAIN calls
          PROVE  /\ calls[c].state = "posted" /\ calls[c].ended \in Nat
                 /\ c \in DOMAIN calls' => calls'[c] = calls[c]
      <3>1. calls[c].state = "posted" /\ calls[c].ended \in Nat
        BY <1>0, <1>6, <2>1 DEF RowsInv
      <3>2. ASSUME c \in DOMAIN calls' PROVE calls'[c] = calls[c]
        BY <1>0, <1>6, <3>1, <3>2, RowViews
           DEF RowView, NewRow, PostedRow, DeadRow, HookRecord, HookPost
      <3> QED BY <3>1, <3>2
    <2>2. ASSUME NEW k \in Calls, hook'[k].pc \in {"drift", "pending", "deliver", "record"},
                 Alive(k)', f \in DOMAIN hook'[k].obs,
                 c \in DOMAIN calls' => hook'[k].tpre > calls'[c].ended
          PROVE  hook'[k].obs[f].state = disk'[f]
      <3>1. HookView(k) /\ Alive(k)
        BY <1>0, <2>2, HookViews, ClockViews DEF Alive
      <3>2. CASE Stays(k)
        <4>1. /\ hook[k].pc \in {"drift", "pending", "deliver", "record"}
              /\ hook'[k].obs = hook[k].obs /\ hook'[k].tpre = hook[k].tpre
          BY <2>2, <3>2 DEF Stays
        <4>2. ASSUME c \in DOMAIN calls PROVE hook[k].tpre > calls[c].ended
          <5>1. CASE c \in DOMAIN calls'
            BY <2>1, <2>2, <4>1, <4>2, <5>1
          <5>2. CASE c \notin DOMAIN calls'
            <6>1. c \in Forgotten
              BY <1>0, <4>2, <5>2, RowViews
            <6>2. calls[c].ended + TReport < now
              BY <6>1 DEF Forgotten
            <6>3. now <= hook[k].tpre + MaxHook
              BY <1>0, <3>1, <4>1 DEF Timely, Preparing
            <6>4. TReport \in Nat /\ MaxHook \in Nat /\ MaxHook <= TReport
              BY ObservationAssumption
            <6>5. now \in Nat /\ hook[k].tpre \in Nat /\ calls[c].ended \in Nat
              BY <1>0, <2>1, <4>2, HookTyped DEF TypeInv
            <6> QED BY <6>2, <6>3, <6>4, <6>5
          <5> QED BY <5>1, <5>2
        <4> QED BY <1>2, <1>4, <1>6, <2>2, <3>1, <4>1, <4>2 DEF ReadInv
      <3>3. CASE Reads(k)
        BY <1>0, <1>2, <2>2, <3>3, ReadTyped, HookTyped DEF Reads
      <3> QED BY <2>2, <3>1, <3>2, <3>3 DEF HookView, Looks, Records, FailsOpen, Observes, Posts
    <2>3. ASSUME NEW k \in DOMAIN calls', Open(k)', f \in DOMAIN calls'[k].paths,
                 c \in DOMAIN calls' => calls'[k].tpre > calls'[c].ended
          PROVE  calls'[k].paths[f].state = disk'[f]
      <3>1. RowView(k) /\ k \in Calls /\ calls'[k].state = "open"
        BY <1>0, <2>3, RowViews, RowsOfCalls DEF Open
      <3>2. CASE NewRow(k)
        <4>1. /\ HookRecord(k) /\ f \in DOMAIN hook[k].obs /\ calls'[k].tpre = hook[k].tpre
              /\ calls'[k].paths[f] = RowOf(hook[k].obs, f)
          BY <2>3, <3>2 DEF NewRow
        <4>2. hook[k].pc = "record" /\ Alive(k)
          BY <4>1 DEF HookRecord
        <4>3. calls'[k].paths[f].state = hook[k].obs[f].state
          BY <4>1 DEF RowOf
        <4>4. DOMAIN calls' = DOMAIN calls \union {k}
          BY <1>0, <3>1, <4>1, RecordRows
        <4>5. c \in DOMAIN calls => hook[k].tpre > calls[c].ended
          BY <2>1, <2>3, <4>1, <4>4
        <4> QED BY <1>2, <1>4, <1>6, <3>1, <4>1, <4>2, <4>3, <4>5 DEF ReadInv
      <3>3. CASE k \in DOMAIN calls /\ calls'[k] = calls[k]
        <4>1. Open(k)
          BY <3>1, <3>3 DEF Open
        <4>2. ASSUME c \in DOMAIN calls PROVE calls[k].tpre > calls[c].ended
          <5>1. CASE c \in DOMAIN calls'
            BY <2>1, <2>3, <3>3, <4>2, <5>1
          <5>2. CASE c \notin DOMAIN calls'
            <6>1. c \in Forgotten
              BY <1>0, <4>2, <5>2, RowViews
            <6> QED BY <3>3, <4>1, <6>1 DEF Forgotten
          <5> QED BY <5>1, <5>2
        <4> QED BY <1>2, <1>4, <1>6, <2>3, <3>3, <4>1, <4>2 DEF ReadInv
      <3> QED BY <3>1, <3>2, <3>3 DEF RowView, PostedRow, DeadRow
    <2> QED BY <2>2, <2>3
  <1> QED BY <1>4, <1>5, <1>6

------------------------------------------------------------------------------
(* Events. *)

LEMMA EventViews ==
    ASSUME TypeInv, [Next]_vars, NEW e \in events'
    PROVE  \/ e \in events
           \/ \E d \in Calls : /\ HookDrift(d) /\ RecordDrift(d)
                               /\ \E f \in Drifted(hook[d].obs) : e = TreeEvent(DriftIn(d, f))
           \/ \E d \in Calls : /\ HookPost(d) /\ d \in DOMAIN calls /\ RecordCallPost(d)
                               /\ \E f \in Changed(d) : e = TreeEvent(PostIn(d, f))
PROOF
  <1> DEFINE Goal ==
           \/ e \in events
           \/ \E d \in Calls : /\ HookDrift(d) /\ RecordDrift(d)
                               /\ \E f \in Drifted(hook[d].obs) : e = TreeEvent(DriftIn(d, f))
           \/ \E d \in Calls : /\ HookPost(d) /\ d \in DOMAIN calls /\ RecordCallPost(d)
                               /\ \E f \in Changed(d) : e = TreeEvent(PostIn(d, f))
  <1>1. ASSUME NEW c \in Calls, HookDrift(c), RecordDrift(c) PROVE Goal
    <2>1. events' = events \union {TreeEvent(in) : in \in DriftIns(c)}
      BY <1>1, DriftFiles DEF File
    <2>2. ASSUME e \notin events PROVE \E f \in Drifted(hook[c].obs) : e = TreeEvent(DriftIn(c, f))
      BY <2>1, <2>2 DEF DriftIns
    <2> QED BY <1>1, <2>2
  <1>2. ASSUME NEW c \in Calls, HookPost(c), c \in DOMAIN calls, RecordCallPost(c) PROVE Goal
    <2>1. events' = events \union {TreeEvent(in) : in \in PostIns(c)}
      BY <1>2, PostFiles DEF File
    <2>2. ASSUME e \notin events PROVE \E f \in Changed(c) : e = TreeEvent(PostIn(c, f))
      BY <2>1, <2>2 DEF PostIns
    <2> QED BY <1>2, <2>2
  <1>3. ASSUME NEW c \in Calls, \/ HookLook(c) \/ HookRead(c) \/ HookPending(c) \/ HookDeliver(c)
                                \/ HookDeliverFails(c) \/ HookFailOpen(c) \/ HookRecord(c)
                                \/ PostObserve(c) \/ ToolWrites(c)
                                \/ HookDrift(c) /\ UNCHANGED storeVars
                                \/ HookPost(c) /\ UNCHANGED storeVars
        PROVE  e \in events
    BY <1>3 DEF HookLook, HookRead, HookPending, HookDeliver, HookDeliverFails, HookDrift, HookRecord,
                HookFailOpen, PostObserve, ToolWrites, Write, HookPost, storeVars
  <1>4. ASSUME \/ DropOldTreeEvents \/ DropFinishedCalls \/ MarkDeadOwnerCalls \/ OutsideWrites
               \/ LockTaken \/ LockEnds \/ SessionDies \/ Tick \/ UNCHANGED vars
        PROVE  e \in events
    BY <1>4 DEF DropOldTreeEvents, DropFinishedCalls, MarkDeadOwnerCalls, OutsideWrites, Write,
                LockTaken, LockEnds, SessionDies, Tick, vars, storeVars
  <1>5. e \in events => Goal
    OBVIOUS
  <1> HIDE DEF Goal
  <1>6. ASSUME NEW c \in Calls, HookDrift(c) \/ HookPost(c) PROVE Goal
    BY <1>1, <1>2, <1>3, <1>5, <1>6 DEF HookDrift, HookPost
  <1>7. Goal
    BY <1>3, <1>4, <1>5, <1>6 DEF Next
  <1> QED BY <1>7 DEF Goal

LEMMA EventFields ==
    ASSUME NEW in
    PROVE  /\ TreeEvent(in).call = in.id[1] /\ TreeEvent(in).file = in.file
           /\ TreeEvent(in).epoch = in.epoch /\ TreeEvent(in).post = in.post
           /\ TreeEvent(in).seen = in.seen
           /\ TreeEvent(in).spanners = Spanners(in.file, in.epoch, in.seq, in.observer)
           /\ in.drift = TRUE => TreeEvent(in).rule = "drift"
           /\ in.drift = FALSE => TreeEvent(in).rule # "drift"
PROOF
  <1>1. in.drift = TRUE => \A b \in BOOLEAN : Verdict(in, b) = "drift"
    BY DEF Verdict
  <1>2. in.drift = FALSE => \A b \in BOOLEAN : Verdict(in, b) # "drift"
    BY DEF Verdict
  <1>3. (Spanners(in.file, in.epoch, in.seq, in.observer) # {}) \in BOOLEAN
    OBVIOUS
  <1> QED BY <1>1, <1>2, <1>3 DEF TreeEvent

(* Who is known to have written bytes that were there before the step was  *)
(* known then.                                                             *)
LEMMA KnownBefore ==
    ASSUME BookInv, [Next]_vars, NEW c \in Calls, NEW f \in Files, NEW e \in Epochs, NEW d,
           Wrote(f, d), KnownWriter(c, f, e, d)'
    PROVE  KnownWriter(c, f, e, d)
PROOF
  <1>0. TypeInv /\ WritesInv /\ wrote \subseteq wrote'
    BY WroteGrows DEF BookInv
  <1>1. PICK w \in wrote : w.file = f /\ w.digest = d
    BY DEF Wrote
  <1>2. \A v \in wrote' : v.file = f /\ v.digest = d => v.by = c
    BY DEF KnownWriter
  <1>3. \A v \in wrote : v.file = f /\ v.digest = d => v.by = c
    BY <1>0, <1>2
  <1>4. {v.by : v \in {u \in wrote : u.file = f /\ u.digest = d}} = {c}
    BY <1>1, <1>3
  <1>5. hook[c].pc \in {"running", "post", "done"}
    BY <1>0, <1>1, <1>3 DEF WritesInv
  <1>6. HookView(c) /\ (hook[c].lost => hook'[c].lost)
    BY <1>0, <1>5, HookViews
  <1>7. hook'[c].noted = hook[c].noted
    BY <1>5, <1>6 DEF HookView, Stays, Looks, Reads, Records, FailsOpen, Observes, Posts
  <1> QED BY <1>4, <1>6, <1>7 DEF KnownWriter

LEMMA KnownAuthor ==
    ASSUME BookInv, NEW c \in Calls, NEW f \in Files, NEW e, KnownWriter(c, f, e, disk[f].digest)
    PROVE  Author(c, f) /\ (WrittenOnce(f, disk[f].digest) => Sole(c, f))
PROOF
  <1>1. \A w \in wrote : w.file = f /\ w.digest = disk[f].digest => w.by = c
    BY DEF KnownWriter
  <1>2. PICK v \in wrote : v.file = f /\ v.digest = disk[f].digest /\ v.stat = disk[f].stat
    BY DEF BookInv, WritesInv, WroteState
  <1>3. ASSUME WrittenOnce(f, disk[f].digest), NEW w \in wrote, w.file = f, w.digest = disk[f].digest
        PROVE  w.stat = disk[f].stat
    BY <1>2, <1>3 DEF WrittenOnce
  <1> QED BY <1>1, <1>3 DEF Author, Sole, WrittenOnce

(* A drift pass numbers a change no call covers: whoever wrote the bytes   *)
(* on record is open, and covers them, or has left them as last seen.      *)
LEMMA DriftFiled ==
    ASSUME BookInv, SeenInv, NEW d \in Calls, hook[d].pc = "drift", RecordDrift(d),
           NEW f \in Drifted(hook[d].obs)
    PROVE  LET e == hook[d].obs[f].epoch
           IN  /\ Spanners(f, e, path_seq[f][e].seq + 1, owner[d]) = {}
               /\ f \notin overtaken' =>
                      \A c \in Calls : ~KnownWriter(c, f, e, hook[d].obs[f].state.digest)
PROOF
  <1> DEFINE e == hook[d].obs[f].epoch
  <1>0. TypeInv /\ WritesInv /\ TenureInv /\ RowsInv /\ SeqInv
    BY DEF BookInv
  <1>1. f \in DOMAIN hook[d].obs /\ ~Covered(f, e)
    BY DEF Drifted
  <1>2. f \in Files /\ e \in Epochs
    BY <1>0, <1>1, HookTyped
  <1>3. path_seq[f][e].seq \in Nat
    BY <1>0, <1>2 DEF TypeInv, Line
  <1>4. ASSUME NEW c \in Spanners(f, e, path_seq[f][e].seq + 1, owner[d]) PROVE FALSE
    <2>1. /\ c \in DOMAIN calls /\ f \in DOMAIN calls[c].paths /\ calls[c].paths[f].epoch = e
          /\ Open(c) \/ (f \in DOMAIN calls[c].post /\ calls[c].post[f] >= path_seq[f][e].seq + 1)
      BY <1>4 DEF Spanners
    <2>2. ~Open(c)
      BY <1>1, <2>1 DEF Covered
    <2>3. f \in DOMAIN calls[c].post /\ calls[c].post[f] \in Nat
      BY <1>0, <2>1, <2>2, CallsTyped
    <2>4. calls[c].post[f] <= path_seq[f][e].seq
      BY <1>0, <2>1, <2>3 DEF SeqInv
    <2> QED BY <1>3, <2>1, <2>2, <2>3, <2>4
  <1>5. ASSUME f \notin overtaken', NEW c \in Calls,
               KnownWriter(c, f, e, hook[d].obs[f].state.digest)
        PROVE  FALSE
    <2>1. /\ e = lock[f].epoch /\ e # 0 /\ hook[d].obs[f].state = disk[f]
          /\ observed[f][e] # disk[f]
      BY <1>0, <1>5, DriftSees
    <2>2. Author(c, f)
      BY <1>2, <1>5, <2>1, KnownAuthor
    <2>3. <<f, e>> \in hook[c].noted /\ ~hook[c].lost
      BY <1>5 DEF KnownWriter
    <2>4. CASE hook[c].pc \in {"running", "post"}
      <3>1. Open(c)
        BY <1>0, <2>3, <2>4 DEF RowsInv
      <3>2. c \in DOMAIN calls /\ f \in DOMAIN calls[c].paths /\ calls[c].paths[f].epoch = e
        BY <1>0, <1>2, <2>3, <3>1 DEF RowsInv, Open
      <3> QED BY <1>1, <3>1, <3>2 DEF Covered
    <2>5. CASE hook[c].pc = "done"
      <3>1. f \notin overtaken
        BY <1>5 DEF RecordDrift
      <3>2. observed[f][e] = disk[f]
        BY <1>2, <2>1, <2>2, <2>3, <2>5, <3>1 DEF SeenInv
      <3> QED BY <2>1, <3>2
    <2> QED BY <1>2, <2>2, <2>4, <2>5, AuthorRan
  <1> QED BY <1>4, <1>5

(* A post that had seen other bytes before spans the transition to the     *)
(* writer's, and so does the writer: it is open, or its row is kept as     *)
(* long as a call is open that began before it ended.                      *)
LEMMA PostFiled ==
    ASSUME BookInv, NumberInv, AuthorInv, ReadInv,
           NEW d \in Calls, hook[d].pc = "post", d \in DOMAIN calls, RecordCallPost(d),
           ~hook[d].lost, NEW f \in Changed(d), f \in DOMAIN Recorded(d), f \notin overtaken',
           NEW c \in Calls, owner[c] # owner[d],
           KnownWriter(c, f, Prior(d, f).epoch, hook[d].obs[f].state.digest),
           WrittenOnce(f, hook[d].obs[f].state.digest)
    PROVE  c \in Spanners(f, Prior(d, f).epoch, SeqPost(d, f), owner[d])
PROOF
  <1> DEFINE e == Prior(d, f).epoch
             n == path_seq[f][e].seq
  <1>0. TypeInv /\ WritesInv /\ RowsInv /\ SeqInv
    BY DEF BookInv
  <1>1. f \in DOMAIN hook[d].obs /\ PathChanged(Prior(d, f), hook[d].obs[f])
    BY DEF Changed
  <1>2. f \in Files /\ e \in Epochs /\ n \in Nat
    BY <1>0, <1>1, HookTyped, PriorTyped, SeqPostTyped
  <1>3. Prior(d, f) = calls[d].paths[f] /\ f \in DOMAIN calls[d].paths /\ Prior(d, f).seq \in Nat
    BY <1>0, <1>1, PriorTyped, RecordedTyped
  <1>4. hook[d].obs[f].state = disk[f] /\ f \notin overtaken
    <2>1. hook[d].obs[f].state = disk[f]
      BY <1>0, <1>1, PostSaw
    <2> QED BY <2>1 DEF RecordCallPost
  <1>5. Sole(c, f) /\ <<f, e>> \in hook[c].noted /\ ~hook[c].lost
    BY <1>2, <1>4, KnownAuthor DEF KnownWriter
  <1>6. hook[c].pc \in {"running", "post", "done"} /\ disk[f].digest # NoDigest
    BY <1>2, <1>5, SoleAuthor, AuthorRan
  <1>7. Prior(d, f).state.digest # disk[f].digest
    BY <1>1, <1>4, <1>6 DEF PathChanged
  <1>8. AlreadyNumbered(f, Prior(d, f), hook[d].obs[f]) <=>
            n > Prior(d, f).seq /\ path_seq[f][e].digest = disk[f].digest
    BY <1>4 DEF AlreadyNumbered
  <1>9. SeqPost(d, f) = IF AlreadyNumbered(f, Prior(d, f), hook[d].obs[f]) THEN n ELSE n + 1
    BY DEF SeqPost, Numbered
  <1>10. ASSUME c \in DOMAIN calls
         PROVE  /\ f \in DOMAIN calls[c].paths /\ calls[c].paths[f].epoch = e
                /\ calls[c].paths[f].seq < SeqPost(d, f)
    <2>1. f \in DOMAIN calls[c].paths /\ calls[c].paths[f].epoch = e
      BY <1>0, <1>2, <1>5, <1>10 DEF RowsInv
    <2>2. calls[c].paths[f].seq \in Nat /\ calls[c].paths[f].seq <= n
      BY <1>0, <1>10, <2>1, CallsTyped DEF SeqInv
    <2>3. ASSUME n > 0, path_seq[f][e].digest = disk[f].digest PROVE calls[c].paths[f].seq < n
      BY <1>2, <1>5, <1>10, <2>3 DEF NumberInv
    <2>4. CASE AlreadyNumbered(f, Prior(d, f), hook[d].obs[f])
      <3>1. n > Prior(d, f).seq /\ path_seq[f][e].digest = disk[f].digest /\ SeqPost(d, f) = n
        BY <1>8, <1>9, <2>4
      <3>2. n > 0
        BY <1>2, <1>3, <3>1
      <3> QED BY <2>1, <2>3, <3>1, <3>2
    <2>5. CASE ~AlreadyNumbered(f, Prior(d, f), hook[d].obs[f])
      BY <1>2, <1>9, <2>1, <2>2, <2>5
    <2> QED BY <2>4, <2>5
  <1>11. CASE hook[c].pc \in {"running", "post"}
    <2>1. Open(c) /\ c \in DOMAIN calls
      BY <1>0, <1>5, <1>11 DEF RowsInv, Open
    <2>2. /\ f \in DOMAIN calls[c].paths /\ calls[c].paths[f].epoch = e
          /\ calls[c].paths[f].seq < SeqPost(d, f)
      BY <1>10, <2>1
    <2> QED BY <2>1, <2>2, SMTT(30) DEF Spanners
  <1>12. CASE hook[c].pc = "done"
    <2>1. Open(d)
      BY <1>0 DEF RowsInv
    <2>2. c \in DOMAIN calls
      BY <1>2, <1>3, <1>5, <1>7, <1>12, <2>1 DEF ReadInv
    <2>3. calls[c].state = "posted"
      BY <1>0, <1>12, <2>2 DEF RowsInv
    <2>4. /\ n > 0 /\ path_seq[f][e].digest = disk[f].digest
          /\ f \in DOMAIN calls[c].post /\ calls[c].post[f] = n
      BY <1>2, <1>4, <1>5, <2>2, <2>3 DEF AuthorInv
    <2>5. n > Prior(d, f).seq
      <3>1. ~(calls[d].paths[f].seq >= n)
        <4>1. \A k \in DOMAIN calls :
                 /\ calls[k].state # "posted" /\ f \in DOMAIN calls[k].paths
                 /\ calls[k].paths[f].epoch = e /\ calls[k].paths[f].seq >= n
                 => calls[k].paths[f].state = disk[f]
          BY <1>2, <1>5, <2>4 DEF NumberInv
        <4>2. calls[d].state = "open"
          BY <2>1 DEF Open
        <4>3. /\ f \in DOMAIN calls[d].paths /\ calls[d].paths[f].epoch = e
              /\ calls[d].paths[f].state.digest # disk[f].digest
          BY <1>3, <1>7
        <4> HIDE DEF e, n
        <4> QED BY <4>1, <4>2, <4>3
      <3>2. calls[d].paths[f].seq = Prior(d, f).seq
        BY <1>3
      <3> HIDE DEF n
      <3> QED BY <1>2, <1>3, <3>1, <3>2
    <2>6. SeqPost(d, f) = n
      BY <1>8, <1>9, <2>4, <2>5
    <2>7. calls[c].post[f] >= SeqPost(d, f)
      BY <1>2, <2>4, <2>6
    <2> QED BY <1>10, <2>2, <2>4, <2>7 DEF Spanners
  <1> QED BY <1>6, <1>11, <1>12

LEMMA EventsStep ==
    ASSUME ObsInv, [Next]_vars
    PROVE  EventsInv'
PROOF
  <1>0. /\ BookInv /\ SeenInv /\ NumberInv /\ AuthorInv /\ ReadInv /\ EventsInv
        /\ TypeInv /\ WritesInv /\ RowsInv /\ wrote \subseteq wrote'
        /\ owner' = owner /\ overtaken \subseteq overtaken'
    BY WroteGrows, ClockViews DEF ObsInv, BookInv
  <1>1. ASSUME NEW f, NEW d, Wrote(f, d)
        PROVE  Wrote(f, d)' /\ (WrittenOnce(f, d)' => WrittenOnce(f, d))
    BY <1>0, <1>1 DEF Wrote, WrittenOnce
  <1> DEFINE Named(e) ==
        \A c \in Calls :
            /\ e.rule # "drift" /\ e.seen /\ ~hook'[e.call].lost
            /\ c # e.call /\ owner'[c] # owner'[e.call]
            /\ KnownWriter(c, e.file, e.epoch, e.post)'
            /\ WrittenOnce(e.file, e.post)'
            /\ e.file \notin overtaken'
            => c \in e.spanners
      Uncovered(e) ==
        e.rule = "drift" =>
            /\ e.spanners = {}
            /\ e.file \notin overtaken' =>
                   \A c \in Calls : ~KnownWriter(c, e.file, e.epoch, e.post)'
      Sound(e) ==
        e.call \in Calls /\ e.file \in Files /\ e.epoch \in Epochs /\ Wrote(e.file, e.post)
  <1>2. ASSUME NEW e \in events PROVE Sound(e) /\ Named(e) /\ Uncovered(e)
    <2>1. Sound(e)
      BY <1>0 DEF EventsInv
    <2>2. \A c \in Calls : KnownWriter(c, e.file, e.epoch, e.post)' =>
                               KnownWriter(c, e.file, e.epoch, e.post)
      BY <1>0, <2>1, KnownBefore
    <2>3. Named(e)
      <3>1. SUFFICES ASSUME NEW c \in Calls, e.rule # "drift", e.seen, ~hook'[e.call].lost,
                            c # e.call, owner'[c] # owner'[e.call],
                            KnownWriter(c, e.file, e.epoch, e.post)',
                            WrittenOnce(e.file, e.post)', e.file \notin overtaken'
                     PROVE  c \in e.spanners
        OBVIOUS
      <3>2. ~hook[e.call].lost
        <4>1. hook[e.call].lost /\ hook[e.call].pc # "record" => hook'[e.call].lost
          BY <1>0, <2>1, HookViews
        <4>2. hook[e.call].pc = "record" => ~hook[e.call].lost
          BY <1>0, <2>1 DEF RowsInv
        <4> QED BY <3>1, <4>1, <4>2
      <3>3. KnownWriter(c, e.file, e.epoch, e.post) /\ WrittenOnce(e.file, e.post)
        BY <1>1, <2>1, <2>2, <3>1
      <3>4. NamesTheWriter
        BY <1>0 DEF EventsInv
      <3> QED BY <1>0, <3>1, <3>2, <3>3, <3>4 DEF NamesTheWriter
    <2>4. Uncovered(e)
      <3>1. DriftIsUncovered
        BY <1>0 DEF EventsInv
      <3> QED BY <1>0, <2>2, <3>1 DEF DriftIsUncovered
    <2> QED BY <2>1, <2>3, <2>4
  <1>3. ASSUME NEW d \in Calls, HookDrift(d), RecordDrift(d), NEW f \in Drifted(hook[d].obs),
               NEW e, e = TreeEvent(DriftIn(d, f))
        PROVE  Sound(e) /\ Named(e) /\ Uncovered(e)
    <2>0. hook[d].pc = "drift" /\ HasRead(d)
      BY <1>3 DEF HookDrift, HasRead
    <2>1. f \in DOMAIN hook[d].obs
      BY DEF Drifted
    <2>2. f \in Files /\ hook[d].obs[f].epoch \in Epochs /\ Wrote(f, hook[d].obs[f].state.digest)
      <3>1. WroteState(f, hook[d].obs[f].state)
        BY <1>0, <2>0, <2>1 DEF WritesInv
      <3> QED BY <1>0, <2>1, <3>1, HookTyped DEF WroteState, Wrote
    <2> DEFINE in == DriftIn(d, f)
    <2>3. /\ in.id[1] = d /\ in.file = f /\ in.epoch = hook[d].obs[f].epoch
          /\ in.post = hook[d].obs[f].state.digest /\ in.drift = TRUE /\ in.observer = owner[d]
          /\ in.seq = path_seq[f][hook[d].obs[f].epoch].seq + 1
      BY DEF DriftIn
    <2> HIDE DEF in
    <2>4. /\ e.call = d /\ e.file = f /\ e.epoch = hook[d].obs[f].epoch
          /\ e.post = hook[d].obs[f].state.digest /\ e.rule = "drift"
          /\ e.spanners = Spanners(f, hook[d].obs[f].epoch,
                                   path_seq[f][hook[d].obs[f].epoch].seq + 1, owner[d])
      BY <1>3, <2>3, EventFields DEF in
    <2>5. Sound(e) /\ Named(e)
      BY <2>2, <2>4
    <2>6. e.spanners = {}
      BY <1>0, <1>3, <2>0, <2>4, DriftFiled
    <2>7. ASSUME e.file \notin overtaken', NEW c \in Calls, KnownWriter(c, e.file, e.epoch, e.post)'
          PROVE  FALSE
      <3>1. KnownWriter(c, e.file, e.epoch, e.post)
        BY <1>0, <2>5, <2>7, KnownBefore
      <3> QED BY <1>0, <1>3, <2>0, <2>4, <2>7, <3>1, DriftFiled
    <2> QED BY <2>5, <2>6, <2>7
  <1>4. ASSUME NEW d \in Calls, HookPost(d), d \in DOMAIN calls, RecordCallPost(d),
               NEW f \in Changed(d), NEW e, e = TreeEvent(PostIn(d, f))
        PROVE  Sound(e) /\ Named(e) /\ Uncovered(e)
    <2>0. hook[d].pc = "post" /\ HasRead(d)
      BY <1>4 DEF HookPost, HasRead
    <2>1. f \in DOMAIN hook[d].obs
      BY DEF Changed
    <2>2. f \in Files /\ Prior(d, f).epoch \in Epochs /\ Wrote(f, hook[d].obs[f].state.digest)
      <3>1. WroteState(f, hook[d].obs[f].state)
        BY <1>0, <2>0, <2>1 DEF WritesInv
      <3> QED BY <1>0, <2>1, <3>1, HookTyped, PriorTyped DEF WroteState, Wrote
    <2> DEFINE in == PostIn(d, f)
    <2>3. /\ in.id[1] = d /\ in.file = f /\ in.epoch = Prior(d, f).epoch
          /\ in.post = hook[d].obs[f].state.digest /\ in.drift = FALSE /\ in.observer = owner[d]
          /\ in.seq = SeqPost(d, f) /\ in.seen = (f \in DOMAIN Recorded(d))
      BY DEF PostIn
    <2> HIDE DEF in
    <2>4. /\ e.call = d /\ e.file = f /\ e.epoch = Prior(d, f).epoch
          /\ e.post = hook[d].obs[f].state.digest /\ e.rule # "drift"
          /\ e.seen = (f \in DOMAIN Recorded(d))
          /\ e.spanners = Spanners(f, Prior(d, f).epoch, SeqPost(d, f), owner[d])
      <3>1. e = TreeEvent(in)
        BY <1>4 DEF in
      <3>2. /\ e.call = in.id[1] /\ e.file = in.file /\ e.epoch = in.epoch /\ e.post = in.post
            /\ e.seen = in.seen /\ e.rule # "drift"
            /\ e.spanners = Spanners(in.file, in.epoch, in.seq, in.observer)
        <4>1. in.drift = FALSE
          BY <2>3
        <4> QED BY <3>1, <4>1, EventFields
      <3> HIDE DEF Uncovered, Named, Sound
      <3> QED BY <2>3, <3>2
    <2>5. Sound(e) /\ Uncovered(e)
      <3>1. Sound(e)
        <4>1. e.call = d /\ e.file = f /\ e.epoch = Prior(d, f).epoch
              /\ e.post = hook[d].obs[f].state.digest
          BY <2>4
        <4> QED BY <2>2, <4>1
      <3>2. e.rule # "drift"
        BY <2>4
      <3> QED BY <3>1, <3>2
    <2>6. ASSUME NEW c \in Calls, e.seen, ~hook'[d].lost, owner'[c] # owner'[d],
                 KnownWriter(c, e.file, e.epoch, e.post)', WrittenOnce(e.file, e.post)',
                 e.file \notin overtaken'
          PROVE  c \in e.spanners
      <3>1. KnownWriter(c, e.file, e.epoch, e.post) /\ WrittenOnce(e.file, e.post)
        BY <1>0, <1>1, <2>5, <2>6, KnownBefore
      <3>2. ~hook[d].lost
        BY <1>0, <2>0, <2>6, HookViews
      <3> QED BY <1>0, <1>4, <2>0, <2>4, <2>6, <3>1, <3>2, PostFiled
    <2> QED BY <2>4, <2>5, <2>6
  <1>5. ASSUME NEW e \in events' PROVE Sound(e) /\ Named(e) /\ Uncovered(e)
    <2> HIDE DEF Sound, Named, Uncovered
    <2> QED BY <1>0, <1>2, <1>3, <1>4, EventViews
  <1>6. \A e \in events' : e.call \in Calls /\ e.file \in Files /\ e.epoch \in Epochs
                           /\ Wrote(e.file, e.post)'
    BY <1>1, <1>5
  <1>7. NamesTheWriter'
    BY <1>5 DEF NamesTheWriter
  <1>8. DriftIsUncovered'
    BY <1>5 DEF DriftIsUncovered
  <1> QED BY <1>6, <1>7, <1>8 DEF EventsInv

LEMMA ObsInit ==
    ASSUME Init
    PROVE  ObsInv
PROOF
  <1>1. BookInv
    BY BookInit
  <1>2. \A c \in Calls : hook[c].pc = "idle" /\ hook[c].noted = {}
    BY DEF Init, Idle
  <1>3. DOMAIN calls = {} /\ events = {}
    BY DEF Init
  <1>4. \A f \in Files, e \in Epochs : ~(path_seq[f][e].seq > 0)
    BY DEF Init
  <1>5. SeenInv /\ AuthorInv /\ ReadInv /\ EventsInv
    BY <1>2, <1>3 DEF SeenInv, AuthorInv, ReadInv, EventsInv, NamesTheWriter, DriftIsUncovered
  <1>6. NumberInv
    BY <1>4 DEF NumberInv
  <1> QED BY <1>1, <1>5, <1>6 DEF ObsInv

LEMMA ObsInductive == Spec => []ObsInv
PROOF
  <1>1. Init => ObsInv
    BY ObsInit
  <1>2. ObsInv /\ [Next]_vars => ObsInv'
    <2> SUFFICES ASSUME ObsInv, [Next]_vars PROVE ObsInv'
      OBVIOUS
    <2>1. BookInv /\ SeenInv /\ NumberInv /\ AuthorInv /\ ReadInv
      BY DEF ObsInv
    <2> QED BY <2>1, BookStep, SeenStep, NumberStep, AuthorStep, ReadStep, EventsStep DEF ObsInv
  <1> QED BY <1>1, <1>2, PTL DEF Spec

(* HookPathState.SeqAtObserve and spannersTx (hook_calls.go,               *)
(* tree_events.go): the numbers a hook reads before the bytes, the interval*)
(* a posted call keeps and the retention of finished calls are enough that *)
(* an event of a call which had looked before names the one recorded call  *)
(* whose bytes it found, for any number of calls, files and tenures.       *)
THEOREM WriterIsNamed == Spec => []NamesTheWriter
PROOF
  <1>1. ObsInv => NamesTheWriter
    BY DEF ObsInv, EventsInv
  <1> QED BY <1>1, ObsInductive, PTL

(* driftOnePathTx: what the drift pass files has no call covering it, and, *)
(* unless the file changed between look and record, is not the work of a   *)
(* call on record: that one is open, or its post left its bytes as last    *)
(* seen for the tenure.                                                    *)
THEOREM DriftHasNoCall == Spec => []DriftIsUncovered
PROOF
  <1>1. ObsInv => DriftIsUncovered
    BY DEF ObsInv, EventsInv
  <1> QED BY <1>1, ObsInductive, PTL
=============================================================================
