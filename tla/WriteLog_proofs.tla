--------------------------- MODULE WriteLog_proofs --------------------------
(***************************************************************************)
(* Proofs about the write log: doio's use of it, for any number of         *)
(* children, blocks and requests, and the scan of one backwards, for any   *)
(* records and any buffer that can hold one.                               *)
(***************************************************************************)
EXTENDS DoioLog, LogScan, SequenceTheorems, WellFoundedInduction, TLAPS

Locked == {"log", "seek", "write", "verify", "done", "unlock"}

(* What each child has: its request, its locks, and nothing it has not     *)
(* asked for yet in the log or the file.                                   *)
RequestOK(p) ==
  /\ doio[p].pc \in {"lock"} \cup Locked =>
       doio[p].region \in Regions /\ doio[p].n >= 1
  /\ doio[p].pc \in {"lock", "log"} => doio[p].rec = 0
  /\ doio[p].pc = "idle" => doio[p].good
  /\ doio[p].pc = "compare" => ~ doio[p].good
  /\ doio[p].pc \in Locked => doio[p].region \subseteq flocks[p]

LocksApart == \A p, q \in Doios : p # q => flocks[p] \cap flocks[q] = {}

FileOK(p) ==
  \A b \in 1 .. Blocks : file[b].who = p =>
    /\ file[b].n <= doio[p].n
    /\ doio[p].pc \in {"lock", "log", "seek", "write"} => file[b].n < doio[p].n

LogOK(p) ==
  \A i \in 1 .. Len(wlog) : wlog[i].data.who = p =>
    /\ wlog[i].data.n <= doio[p].n
    /\ doio[p].pc \in {"lock", "log"} => wlog[i].data.n < doio[p].n

(* The record of the child's request, once it is in the log: no other      *)
(* record after it covers a block of its region while it is locked.        *)
RecordAt(p, j) ==
  /\ j \in 1 .. Len(wlog)
  /\ wlog[j].data = Mine(p) /\ ~ wlog[j].done
  /\ wlog[j].region = doio[p].region
  /\ \A k \in 1 .. Len(wlog) :
       /\ k > j => wlog[k].region \cap doio[p].region = {}
       /\ wlog[k].data = Mine(p) => k = j

RecordOK(p) ==
  /\ doio[p].pc = "seek" => RecordAt(p, doio[p].pos)
  /\ doio[p].pc \in {"write", "verify", "done"} =>
       IF doio[p].rec = 0
       THEN \A i \in 1 .. Len(wlog) : wlog[i].data # Mine(p)
       ELSE RecordAt(p, doio[p].rec)

WroteOK(p) ==
  \/ /\ doio[p].pc \in {"verify", "done", "unlock"} /\ doio[p].good
  \/ /\ doio[p].pc \in {"done", "unlock"} /\ v_opt
  => \A b \in doio[p].region : file[b] = Mine(p)

(***************************************************************************)
(* LogTellsFile for the last record that covers a block, without CHOOSE.   *)
(***************************************************************************)
LastFor(b, i) ==
  /\ i \in 1 .. Len(wlog) /\ b \in wlog[i].region
  /\ \A j \in 1 .. Len(wlog) : b \in wlog[j].region => j <= i

Tells(b, i) ==
  /\ LastFor(b, i) /\ wlog[i].done
  /\ file[b] = Nothing \/ Logged(file[b])
  /\ v_opt \/ GoodOf(wlog[i].data)
  => file[b] = wlog[i].data

KidOK(p) == RequestOK(p) /\ FileOK(p) /\ LogOK(p) /\ RecordOK(p) /\ WroteOK(p)

WlInv ==
  /\ WlTypeOK
  /\ LocksApart
  /\ \A p \in Doios : KidOK(p)
  /\ \A b \in 1 .. Blocks, i \in 1 .. Len(wlog) : Tells(b, i)

LEMMA WlInitInv == WlInit => WlInv
<1> SUFFICES ASSUME WlInit PROVE WlInv
  OBVIOUS
<1>1. /\ wlog = <<>> /\ Len(wlog) = 0 /\ v_opt \in BOOLEAN
      /\ wlog \in Seq(Records)
  BY DEF WlInit
<1>2. file \in [1 .. Blocks -> Data] /\ \A b \in 1 .. Blocks : file[b].n = 0
  BY DEF WlInit, Nothing, Data
<1>3. doio \in [Doios -> Children] /\ flocks \in [Doios -> SUBSET (1 .. Blocks)]
  BY DEF WlInit, Children
<1>4. \A p \in Doios :
        doio[p].pc = "idle" /\ doio[p].n = 0 /\ doio[p].good /\ flocks[p] = {}
        /\ doio[p].rec = 0 /\ doio[p].pos = 0
  BY DEF WlInit
<1>5. WlTypeOK
  BY <1>1, <1>2, <1>3, <1>4 DEF WlTypeOK
<1>6. LocksApart
  BY <1>4 DEF LocksApart
<1>7. ASSUME NEW p \in Doios PROVE KidOK(p)
  BY <1>1, <1>2, <1>4
     DEF KidOK, RequestOK, FileOK, LogOK, RecordOK, WroteOK, Locked
<1> QED BY <1>1, <1>5, <1>6, <1>7 DEF WlInv

-----------------------------------------------------------------------------

(***************************************************************************)
(* What a step of p may do to what others rely on: it writes only into its *)
(* region, and to the log only records of its present request.             *)
(***************************************************************************)
Minds(p) ==
  /\ \A q \in Doios \ {p} : doio'[q] = doio[q] /\ flocks'[q] = flocks[q]
  /\ v_opt' = v_opt
  /\ \A b \in 1 .. Blocks :
       file'[b] = file[b] \/ (file'[b] = Mine(p) /\ b \in doio[p].region)
  /\ Len(wlog') >= Len(wlog) /\ Len(wlog') \in Nat
  /\ \A i \in 1 .. Len(wlog') :
       IF i <= Len(wlog)
       THEN /\ wlog'[i].data = wlog[i].data /\ wlog'[i].region = wlog[i].region
            /\ wlog[i].data # Mine(p) => wlog'[i].done = wlog[i].done
       ELSE wlog'[i].data = Mine(p) /\ wlog'[i].region = doio[p].region
  /\ doio[p].pc \in Locked \/ (file' = file /\ wlog' = wlog)

LEMMA LogLen == WlInv => Len(wlog) \in Nat
BY DEF WlInv, WlTypeOK

(* Two children that hold locks are in different regions.                  *)
LEMMA RegionsApart ==
  ASSUME WlInv, NEW p \in Doios, NEW q \in Doios, p # q,
         doio[p].pc \in Locked, doio[q].pc \in Locked
  PROVE  doio[p].region \cap doio[q].region = {}
BY DEF WlInv, LocksApart, KidOK, RequestOK

(* The others keep what they have.                                         *)
LEMMA OtherKids ==
  ASSUME WlInv, NEW p \in Doios, NEW q \in Doios, q # p, Minds(p)
  PROVE  KidOK(q)'
<1>1. doio'[q] = doio[q] /\ flocks'[q] = flocks[q] /\ v_opt' = v_opt
  BY DEF Minds
<1>2. Mine(q)' = Mine(q) /\ Mine(p).who = p /\ Mine(q).who = q
  BY <1>1 DEF Mine
<1>3. KidOK(q) /\ Len(wlog) \in Nat /\ Len(wlog') \in Nat
  BY LogLen DEF WlInv, Minds
<1>4. RequestOK(q)'
  BY <1>1, <1>3 DEF KidOK, RequestOK
<1>5. FileOK(q)'
  BY <1>1, <1>2, <1>3 DEF KidOK, FileOK, Minds
<1>6. LogOK(q)'
  BY <1>1, <1>2, <1>3 DEF KidOK, LogOK, Minds
<1>7. doio[q].pc \in Locked /\ (file' # file \/ wlog' # wlog) =>
        doio[p].region \cap doio[q].region = {}
  BY RegionsApart DEF Minds
<1>8. WroteOK(q)'
  <2>1. CASE doio[q].pc \in {"verify", "done", "unlock"}
    <3>1. doio[q].pc \in Locked /\ doio[q].region \subseteq 1 .. Blocks
      BY <1>3, <2>1 DEF KidOK, RequestOK, Locked, Regions
    <3>2. \A b \in doio[q].region : file'[b] = file[b]
      BY <1>7, <3>1 DEF Minds
    <3> QED BY <1>1, <1>2, <1>3, <3>2 DEF KidOK, WroteOK
  <2>2. CASE doio[q].pc \notin {"verify", "done", "unlock"}
    BY <1>1, <2>2 DEF WroteOK
  <2> QED BY <2>1, <2>2
<1>9. ASSUME NEW j \in Nat, RecordAt(q, j), doio[q].pc \in Locked
      PROVE  RecordAt(q, j)'
  <2>1. /\ j \in 1 .. Len(wlog') /\ wlog'[j].data = Mine(q)
        /\ wlog'[j].region = doio[q].region /\ ~ wlog'[j].done
    BY <1>2, <1>3, <1>9 DEF RecordAt, Minds
  <2>2. ASSUME NEW k \in 1 .. Len(wlog')
        PROVE  /\ k > j => wlog'[k].region \cap doio[q].region = {}
               /\ wlog'[k].data = Mine(q) => k = j
    <3>1. CASE k <= Len(wlog)
      BY <1>3, <1>9, <3>1 DEF RecordAt, Minds
    <3>2. CASE k > Len(wlog)
      <4>1. wlog'[k].data = Mine(p) /\ wlog'[k].region = doio[p].region
        BY <1>3, <3>2 DEF Minds
      <4>2. wlog' # wlog
        BY <1>3, <3>2
      <4> QED BY <1>2, <1>7, <1>9, <4>1, <4>2
    <3> QED BY <1>3, <3>1, <3>2
  <2> QED BY <1>1, <1>2, <2>1, <2>2 DEF RecordAt
<1>10. ASSUME \A i \in 1 .. Len(wlog) : wlog[i].data # Mine(q)
       PROVE  \A i \in 1 .. Len(wlog') : wlog'[i].data # Mine(q)
  BY <1>2, <1>3, <1>10 DEF Minds
<1>11. doio[q].pos \in Nat /\ doio[q].rec \in Nat
  BY DEF WlInv, WlTypeOK, Children
<1>12. RecordOK(q)'
  BY <1>1, <1>2, <1>3, <1>9, <1>10, <1>11 DEF KidOK, RecordOK, Locked
<1> QED BY <1>4, <1>5, <1>6, <1>8, <1>12 DEF KidOK

(***************************************************************************)
(* A step of p that touches neither the file nor the log.                  *)
(***************************************************************************)
LEMMA QuietStep ==
  ASSUME WlInv, NEW p \in Doios, NEW c \in Children,
         doio' = [doio EXCEPT ![p] = c],
         flocks' \in [Doios -> SUBSET (1 .. Blocks)],
         \A q \in Doios \ {p} : flocks'[q] = flocks[q] /\ flocks[q] \cap flocks'[p] = {},
         UNCHANGED <<v_opt, wlog, file>>,
         doio[p].good \/ (c.n = doio[p].n /\ c.good = doio[p].good),
         c.rec <= Len(wlog), c.pos <= Len(wlog),
         doio'[p] = c => KidOK(p)'
  PROVE  WlInv'
<1>1. doio'[p] = c /\ \A q \in Doios \ {p} : doio'[q] = doio[q]
  BY DEF WlInv, WlTypeOK
<1>2. WlTypeOK'
  BY <1>1 DEF WlInv, WlTypeOK
<1>3. LocksApart'
  BY <1>1 DEF WlInv, LocksApart
<1>4. Len(wlog) \in Nat
  BY LogLen
<1>5. Minds(p)
  BY <1>1, <1>4 DEF Minds
<1>6. \A q \in Doios : KidOK(q)'
  BY <1>1, <1>5, OtherKids
<1>7. ASSUME NEW b \in 1 .. Blocks, NEW i \in 1 .. Len(wlog)' PROVE Tells(b, i)'
  <2> DEFINE d == wlog[i].data
  <2>1. Tells(b, i)
    BY <1>7 DEF WlInv
  <2>2. ASSUME GoodOf(d)' PROVE GoodOf(d)
    <3> SUFFICES ASSUME NEW q \in Doios, d = Mine(q) PROVE doio[q].good
      BY DEF GoodOf
    <3>1. CASE q # p
      <4>1. d = Mine(q)'
        BY <1>1, <3>1 DEF Mine
      <4> QED BY <1>1, <2>2, <3>1, <4>1 DEF GoodOf
    <3>2. CASE q = p /\ ~ doio[p].good
      <4>1. c.n = doio[p].n /\ c.good = doio[p].good
        BY <3>2
      <4>2. d = Mine(p)'
        BY <1>1, <3>2, <4>1 DEF Mine
      <4> QED BY <1>1, <2>2, <3>2, <4>1, <4>2 DEF GoodOf
    <3> QED BY <3>1, <3>2
  <2>3. Logged(file[b])' => Logged(file[b])
    BY DEF Logged
  <2>4. LastFor(b, i)' => LastFor(b, i)
    BY DEF LastFor
  <2> QED BY <2>1, <2>2, <2>3, <2>4 DEF Tells
<1> QED BY <1>2, <1>3, <1>6, <1>7 DEF WlInv

(* exit() and death.                                                       *)
LEMMA ExitsStep ==
  ASSUME WlInv, NEW p \in Doios,
         NEW how \in {"exited", "killed", "compare", "unread"},
         how = "compare" => ~ doio[p].good, Exits(p, how)
  PROVE  WlInv'
<1> DEFINE c == [doio[p] EXCEPT !.pc = how]
<1>1. doio[p] \in Children /\ doio \in [Doios -> Children]
  BY DEF WlInv, WlTypeOK
<1>2. /\ c \in Children /\ c.pc = how /\ c.n = doio[p].n /\ c.good = doio[p].good
      /\ c.rec = doio[p].rec /\ c.pos = doio[p].pos
  BY <1>1 DEF Children
<1>3. doio' = [doio EXCEPT ![p] = c]
  BY <1>1 DEF Exits, Goes
<1> HIDE DEF c
<1>4. /\ flocks' = [flocks EXCEPT ![p] = {}] /\ UNCHANGED <<v_opt, wlog, file>>
      /\ flocks' \in [Doios -> SUBSET (1 .. Blocks)]
      /\ flocks'[p] = {} /\ \A q \in Doios \ {p} : flocks'[q] = flocks[q]
  BY DEF Exits, WlInv, WlTypeOK
<1>5. c.rec <= Len(wlog) /\ c.pos <= Len(wlog)
  BY <1>2 DEF WlInv, WlTypeOK
<1>6. ASSUME doio'[p] = c PROVE KidOK(p)'
  <2>1. KidOK(p)
    BY DEF WlInv
  <2>2. RequestOK(p)' /\ RecordOK(p)' /\ WroteOK(p)'
    BY <1>2, <1>6 DEF RequestOK, RecordOK, WroteOK, Locked
  <2>3. FileOK(p)' /\ LogOK(p)'
    BY <1>2, <1>4, <1>6, <2>1 DEF KidOK, FileOK, LogOK
  <2> QED BY <2>2, <2>3 DEF KidOK
<1>7. \A q \in Doios \ {p} :
        flocks'[q] = flocks[q] /\ flocks[q] \cap flocks'[p] = {}
  BY <1>4
<1>8. doio[p].good \/ (c.n = doio[p].n /\ c.good = doio[p].good)
  BY <1>2
<1>9. c \in Children /\ flocks' \in [Doios -> SUBSET (1 .. Blocks)]
  BY <1>2, <1>4
<1>10. UNCHANGED <<v_opt, wlog, file>>
  BY <1>4
<1> QED BY <1>3, <1>5, <1>6, <1>7, <1>8, <1>9, <1>10, QuietStep

(* The facts that the proofs of the quiet steps begin with.                *)
LEMMA OneKid ==
  ASSUME WlInv, NEW p \in Doios
  PROVE  /\ doio[p] \in Children /\ doio \in [Doios -> Children]
         /\ flocks \in [Doios -> SUBSET (1 .. Blocks)]
         /\ doio[p].rec <= Len(wlog) /\ doio[p].pos <= Len(wlog)
         /\ Len(wlog) \in Nat /\ KidOK(p)
         /\ \A q \in Doios \ {p} : flocks[q] \cap flocks[p] = {}
BY LogLen DEF WlInv, WlTypeOK, LocksApart

LEMMA RequestStep ==
  ASSUME WlInv, NEW p \in Doios, NEW region \in Regions, Request(p, region)
  PROVE  WlInv'
<1> DEFINE c == [doio[p] EXCEPT !.pc = "lock", !.n = doio[p].n + 1,
                                !.region = region, !.rec = 0, !.short = FALSE]
<1>1. doio[p] \in Children /\ KidOK(p) /\ doio[p].pc = "idle" /\ Len(wlog) \in Nat
  BY OneKid DEF Request
<1>2. /\ c \in Children /\ c.pc = "lock" /\ c.n = doio[p].n + 1 /\ c.rec = 0
      /\ c.pos = doio[p].pos /\ c.region = region /\ c.good = doio[p].good
  <2>1. doio[p].n + 1 \in Nat /\ region \in Regions \cup {{}} /\ 0 \in Nat
    BY <1>1 DEF Children
  <2> DEFINE n == doio[p].n + 1
  <2> HIDE DEF n
  <2>2. [doio[p] EXCEPT !.pc = "lock", !.n = n, !.region = region, !.rec = 0,
                        !.short = FALSE] \in Children
    BY <1>1, <2>1 DEF Children, n
  <2>3. /\ c.pc = "lock" /\ c.n = doio[p].n + 1 /\ c.rec = 0
        /\ c.pos = doio[p].pos /\ c.region = region /\ c.good = doio[p].good
    BY <1>1 DEF Children
  <2> QED BY <2>2, <2>3 DEF n
<1>3. doio' = [doio EXCEPT ![p] = c] /\ UNCHANGED <<v_opt, wlog, file, flocks>>
  BY DEF Request
<1> HIDE DEF c
<1>4. doio[p].good /\ doio[p].n \in Nat
  BY <1>1 DEF KidOK, RequestOK, Children
<1>5. ASSUME doio'[p] = c PROVE KidOK(p)'
  <2>1. RequestOK(p)' /\ RecordOK(p)' /\ WroteOK(p)'
    BY <1>2, <1>4, <1>5 DEF RequestOK, RecordOK, WroteOK, Locked
  <2>2. \A b \in 1 .. Blocks : file[b].who = p => file[b].n <= doio[p].n
    BY <1>1 DEF KidOK, FileOK
  <2>3. \A b \in 1 .. Blocks : file[b].n \in Nat
    BY DEF WlInv, WlTypeOK, Data, Nothing
  <2>4. FileOK(p)'
    BY <1>2, <1>3, <1>4, <1>5, <2>2, <2>3 DEF FileOK
  <2>5. \A i \in 1 .. Len(wlog) : wlog[i].data.who = p => wlog[i].data.n <= doio[p].n
    BY <1>1 DEF KidOK, LogOK
  <2>6. \A i \in 1 .. Len(wlog) : wlog[i].data.n \in Nat
    <3>1. \A i \in 1 .. Len(wlog) : wlog[i] \in Records
      BY ElementOfSeq DEF WlInv, WlTypeOK
    <3>2. \A d \in Data : d.n \in Nat
      BY DEF Data, Nothing
    <3> QED BY <3>1, <3>2 DEF Records
  <2>7. LogOK(p)'
    BY <1>2, <1>3, <1>4, <1>5, <2>5, <2>6 DEF LogOK
  <2> QED BY <2>1, <2>4, <2>7 DEF KidOK
<1>6. \A q \in Doios \ {p} :
        flocks'[q] = flocks[q] /\ flocks[q] \cap flocks'[p] = {}
  BY <1>3, OneKid
<1>7. flocks' \in [Doios -> SUBSET (1 .. Blocks)]
  BY <1>3, OneKid
<1>8. c.rec <= Len(wlog) /\ c.pos <= Len(wlog)
  BY <1>1, <1>2, OneKid
<1>9. c \in Children /\ UNCHANGED <<v_opt, wlog, file>>
  BY <1>2, <1>3
<1> QED BY <1>3, <1>4, <1>5, <1>6, <1>7, <1>8, <1>9, QuietStep

(* A step that changes at most pc and rec, and keeps what the child has.   *)
Moves(p, pc, rec) ==
  /\ [doio[p] EXCEPT !.pc = pc, !.rec = rec] \in Children
  /\ doio' = [doio EXCEPT ![p] = [doio[p] EXCEPT !.pc = pc, !.rec = rec]]
  /\ flocks' \in [Doios -> SUBSET (1 .. Blocks)]
  /\ \A q \in Doios \ {p} :
       flocks'[q] = flocks[q] /\ flocks[q] \cap flocks'[p] = {}
  /\ v_opt' = v_opt /\ wlog' = wlog /\ file' = file
  /\ rec <= Len(wlog)
  /\ pc \in {"lock"} \cup Locked => doio[p].pc \in {"lock"} \cup Locked
  /\ pc = "idle" => doio[p].good
  /\ pc = "compare" => ~ doio[p].good
  /\ pc \in Locked => doio[p].region \subseteq flocks'[p]
  /\ pc \in {"lock", "log", "seek", "write"} =>
       doio[p].pc \in {"lock", "log", "seek", "write"}
  /\ pc \in {"lock", "log"} => doio[p].pc \in {"lock", "log"} /\ rec = 0
  /\ pc # "seek"
  /\ pc \in {"write", "verify", "done"} =>
       IF rec = 0 THEN \A i \in 1 .. Len(wlog) : wlog[i].data # Mine(p)
       ELSE RecordAt(p, rec)
  /\ \/ pc \in {"verify", "done", "unlock"} /\ doio[p].good
     \/ pc \in {"done", "unlock"} /\ v_opt
     => \A b \in doio[p].region : file[b] = Mine(p)

LEMMA MoveStep ==
  ASSUME WlInv, NEW p \in Doios, NEW pc, NEW rec, Moves(p, pc, rec)
  PROVE  WlInv'
<1> DEFINE c == [doio[p] EXCEPT !.pc = pc, !.rec = rec]
<1> USE DEF Moves
<1>1. doio[p] \in Children /\ KidOK(p) /\ Len(wlog) \in Nat
  BY OneKid
<1>2. /\ c \in Children /\ c.pc = pc /\ c.n = doio[p].n /\ c.rec = rec
      /\ c.pos = doio[p].pos /\ c.region = doio[p].region
      /\ c.good = doio[p].good
  BY <1>1 DEF Children
<1>3. doio' = [doio EXCEPT ![p] = c]
  OBVIOUS
<1> HIDE DEF c
<1>4. ASSUME doio'[p] = c PROVE KidOK(p)'
  <2>1. Mine(p)' = Mine(p)
    BY <1>2, <1>4 DEF Mine
  <2>2. RequestOK(p)'
    BY <1>1, <1>2, <1>4 DEF KidOK, RequestOK
  <2>3. FileOK(p)'
    BY <1>1, <1>2, <1>4 DEF KidOK, FileOK
  <2>4. LogOK(p)'
    BY <1>1, <1>2, <1>4 DEF KidOK, LogOK
  <2>5. RecordAt(p, rec) => RecordAt(p, rec)'
    BY <1>2, <1>4, <2>1 DEF RecordAt
  <2>6. RecordOK(p)'
    BY <1>2, <1>4, <2>1, <2>5 DEF RecordOK
  <2>7. WroteOK(p)'
    BY <1>2, <1>4, <2>1 DEF WroteOK
  <2> QED BY <2>2, <2>3, <2>4, <2>6, <2>7 DEF KidOK
<1>5. c.rec <= Len(wlog) /\ c.pos <= Len(wlog)
  BY <1>2, OneKid
<1>6. doio[p].good \/ (c.n = doio[p].n /\ c.good = doio[p].good)
  BY <1>2
<1>7. c \in Children
  BY <1>2
<1> QED BY <1>3, <1>4, <1>5, <1>6, <1>7, QuietStep

(* The record that MoveStep leaves in a child.                             *)
LEMMA MovedIsChild ==
  ASSUME WlInv, NEW p \in Doios, NEW rec \in Nat,
         NEW pc \in {"idle", "lock", "log", "seek", "write", "verify", "done",
                     "unlock", "exited", "killed", "compare", "unread"}
  PROVE  [doio[p] EXCEPT !.pc = pc, !.rec = rec] \in Children
BY OneKid DEF Children

LEMMA KeepsRec ==
  ASSUME WlInv, NEW p \in Doios, NEW pc
  PROVE  /\ [doio[p] EXCEPT !.pc = pc] =
              [doio[p] EXCEPT !.pc = pc, !.rec = doio[p].rec]
         /\ doio[p].rec \in Nat /\ doio[p].rec <= Len(wlog)
BY OneKid DEF Children

LEMMA LockStep ==
  ASSUME WlInv, NEW p \in Doios, LockFileRegion(p) PROVE WlInv'
<1> DEFINE r == doio[p].region
           rec == doio[p].rec
<1>1. /\ doio[p].pc = "lock" /\ \A q \in Doios \ {p} : flocks[q] \cap r = {}
      /\ flocks' = [flocks EXCEPT ![p] = @ \cup r]
      /\ doio' = [doio EXCEPT ![p] = [doio[p] EXCEPT !.pc = "log"]]
      /\ UNCHANGED <<v_opt, wlog, file>>
  BY OneKid DEF LockFileRegion, LockRegion, Goes
<1>2. r \in Regions /\ r \subseteq 1 .. Blocks /\ rec = 0
  BY <1>1, OneKid DEF KidOK, RequestOK, Regions, Locked
<1>3. /\ flocks' \in [Doios -> SUBSET (1 .. Blocks)] /\ r \subseteq flocks'[p]
      /\ \A q \in Doios \ {p} :
           flocks'[q] = flocks[q] /\ flocks[q] \cap flocks'[p] = {}
  BY <1>1, <1>2, OneKid
<1>4. /\ doio' = [doio EXCEPT ![p] = [doio[p] EXCEPT !.pc = "log", !.rec = rec]]
      /\ [doio[p] EXCEPT !.pc = "log", !.rec = rec] \in Children
      /\ rec <= Len(wlog)
  BY <1>1, KeepsRec, MovedIsChild
<1> HIDE DEF rec, r
<1>5. Moves(p, "log", rec)
  BY <1>1, <1>2, <1>3, <1>4 DEF Moves, Locked, r
<1> QED BY <1>5, MoveStep

(* The steps that leave the locks alone.                                   *)
LEMMA SeekStep == ASSUME WlInv, NEW p \in Doios, LogSeek(p) PROVE WlInv'
<1> DEFINE pos == doio[p].pos
<1>1. /\ doio[p].pc = "seek" /\ UNCHANGED <<v_opt, wlog, file, flocks>>
      /\ doio' = [doio EXCEPT ![p] = [doio[p] EXCEPT !.pc = "write", !.rec = pos]]
  BY OneKid DEF LogSeek, Offset
<1>2. RecordAt(p, pos) /\ pos \in Nat /\ pos <= Len(wlog) /\ pos # 0
  BY <1>1, OneKid DEF KidOK, RecordOK, RecordAt, Children
<1>3. [doio[p] EXCEPT !.pc = "write", !.rec = pos] \in Children
  BY <1>2, MovedIsChild
<1>4. /\ flocks' \in [Doios -> SUBSET (1 .. Blocks)]
      /\ doio[p].region \subseteq flocks'[p]
      /\ \A q \in Doios \ {p} :
           flocks'[q] = flocks[q] /\ flocks[q] \cap flocks'[p] = {}
  BY <1>1, OneKid DEF KidOK, RequestOK, Locked
<1> HIDE DEF pos
<1>5. Moves(p, "write", pos)
  BY <1>1, <1>2, <1>3, <1>4 DEF Moves, Locked
<1> QED BY <1>5, MoveStep

LEMMA LogFailsStep == ASSUME WlInv, NEW p \in Doios, LogFails(p) PROVE WlInv'
<1> DEFINE rec == doio[p].rec
<1>1. /\ doio[p].pc = "log" /\ UNCHANGED <<v_opt, wlog, file, flocks>>
      /\ doio' = [doio EXCEPT ![p] = [doio[p] EXCEPT !.pc = "write"]]
  BY OneKid DEF LogFails, Goes
<1>2. /\ doio' = [doio EXCEPT ![p] = [doio[p] EXCEPT !.pc = "write", !.rec = rec]]
      /\ [doio[p] EXCEPT !.pc = "write", !.rec = rec] \in Children
      /\ rec <= Len(wlog)
  BY <1>1, KeepsRec, MovedIsChild
<1>3. rec = 0
  BY <1>1, OneKid DEF KidOK, RequestOK
<1>4. \A i \in 1 .. Len(wlog) : wlog[i].data # Mine(p)
  BY <1>1, OneKid DEF KidOK, LogOK, Mine, Children
<1>5. /\ flocks' \in [Doios -> SUBSET (1 .. Blocks)]
      /\ doio[p].region \subseteq flocks'[p]
      /\ \A q \in Doios \ {p} :
           flocks'[q] = flocks[q] /\ flocks[q] \cap flocks'[p] = {}
  BY <1>1, OneKid DEF KidOK, RequestOK, Locked
<1> HIDE DEF rec
<1>6. Moves(p, "write", rec)
  BY <1>1, <1>2, <1>3, <1>4, <1>5 DEF Moves, Locked
<1> QED BY <1>6, MoveStep

LEMMA VerifyStep == ASSUME WlInv, NEW p \in Doios, Verify(p) PROVE WlInv'
<1> DEFINE rec == doio[p].rec
<1>1. CASE Checks(doio[p].region, Mine(p))
  <2>1. /\ doio[p].pc = "verify" /\ UNCHANGED <<v_opt, wlog, file, flocks>>
        /\ doio' = [doio EXCEPT ![p] = [doio[p] EXCEPT !.pc = "done"]]
    BY <1>1, OneKid DEF Verify, Goes
  <2>2. /\ doio' = [doio EXCEPT ![p] = [doio[p] EXCEPT !.pc = "done", !.rec = rec]]
        /\ [doio[p] EXCEPT !.pc = "done", !.rec = rec] \in Children
        /\ rec <= Len(wlog)
    BY <2>1, KeepsRec, MovedIsChild
  <2>3. IF rec = 0 THEN \A i \in 1 .. Len(wlog) : wlog[i].data # Mine(p)
        ELSE RecordAt(p, rec)
    BY <2>1, OneKid DEF KidOK, RecordOK
  <2>4. /\ flocks' \in [Doios -> SUBSET (1 .. Blocks)]
        /\ doio[p].region \subseteq flocks'[p]
        /\ \A q \in Doios \ {p} :
             flocks'[q] = flocks[q] /\ flocks[q] \cap flocks'[p] = {}
    BY <2>1, OneKid DEF KidOK, RequestOK, Locked
  <2>5. \A b \in doio[p].region : file[b] = Mine(p)
    BY <1>1 DEF Checks
  <2> HIDE DEF rec
  <2>6. Moves(p, "done", rec)
    BY <2>1, <2>2, <2>3, <2>4, <2>5 DEF Moves, Locked
  <2> QED BY <2>6, MoveStep
<1>2. CASE ~ Checks(doio[p].region, Mine(p))
  <2>1. Exits(p, "compare") /\ doio[p].pc = "verify"
    BY <1>2 DEF Verify
  <2>2. ~ doio[p].good
    BY <1>2, <2>1, OneKid DEF KidOK, WroteOK, Checks
  <2> QED BY <2>1, <2>2, ExitsStep
<1> QED BY <1>1, <1>2

LEMMA UnlockStep == ASSUME WlInv, NEW p \in Doios, UnlockFileRegion(p) PROVE WlInv'
<1> DEFINE rec == doio[p].rec
           pc == IF doio[p].good THEN "idle" ELSE "exited"
           left == IF doio[p].good THEN flocks[p] \ doio[p].region ELSE {}
<1>1. /\ doio[p].pc = "unlock" /\ UNCHANGED <<v_opt, wlog, file>>
      /\ doio' = [doio EXCEPT ![p] = [doio[p] EXCEPT !.pc = pc]]
      /\ flocks' = [flocks EXCEPT ![p] = left]
  BY OneKid DEF UnlockFileRegion, Goes, LockRegion
<1>2. /\ doio' = [doio EXCEPT ![p] = [doio[p] EXCEPT !.pc = pc, !.rec = rec]]
      /\ [doio[p] EXCEPT !.pc = pc, !.rec = rec] \in Children
      /\ rec <= Len(wlog)
  BY <1>1, KeepsRec, MovedIsChild
<1>3. /\ flocks' \in [Doios -> SUBSET (1 .. Blocks)]
      /\ \A q \in Doios \ {p} :
           flocks'[q] = flocks[q] /\ flocks[q] \cap flocks'[p] = {}
  BY <1>1, OneKid
<1>4. pc \in {"idle", "exited"} /\ (pc = "idle" => doio[p].good)
  OBVIOUS
<1> HIDE DEF rec, pc, left
<1>5. Moves(p, pc, rec)
  BY <1>1, <1>2, <1>3, <1>4 DEF Moves, Locked
<1> QED BY <1>5, MoveStep

-----------------------------------------------------------------------------

(***************************************************************************)
(* The steps that change the log or the file.                              *)
(***************************************************************************)
LEMMA LoudStep ==
  ASSUME WlInv, NEW p \in Doios, Minds(p), UNCHANGED flocks, WlTypeOK', KidOK(p)',
         \A b \in 1 .. Blocks, i \in 1 .. Len(wlog') : Tells(b, i)'
  PROVE  WlInv'
<1>1. LocksApart'
  BY DEF WlInv, LocksApart
<1>2. \A q \in Doios : KidOK(q)'
  BY OtherKids
<1> QED BY <1>1, <1>2 DEF WlInv

LEMMA AppendStep ==
  ASSUME WlInv, NEW p \in Doios, NEW whole \in BOOLEAN, LogAppend(p, whole)
  PROVE  WlInv'
<1> DEFINE n == Len(wlog) + 1
           new == Record(p, FALSE, whole)
           c == [doio[p] EXCEPT !.pc = "seek", !.pos = n, !.short = ~ whole]
<1>1. /\ doio[p].pc = "log" /\ wlog' = Append(wlog, new)
      /\ UNCHANGED <<v_opt, file, flocks>>
      /\ doio' = [doio EXCEPT ![p] = c]
  BY OneKid DEF LogAppend
<1>2. /\ doio[p] \in Children /\ KidOK(p) /\ Len(wlog) \in Nat
      /\ doio[p].region \in Regions /\ doio[p].rec = 0
      /\ doio[p].region \subseteq flocks[p]
  BY <1>1, OneKid DEF KidOK, RequestOK, Locked
<1>3. new \in Records
  <2>1. Mine(p) \in Data
    BY <1>2 DEF Mine, Data, Children
  <2> QED BY <1>2, <2>1 DEF Record, Records
<1>4. new.data = Mine(p) /\ new.region = doio[p].region /\ new.done = FALSE
  BY DEF Record
<1> HIDE DEF new
<1>5. /\ wlog' \in Seq(Records) /\ Len(wlog') = n
      /\ \A i \in 1 .. n : wlog'[i] = IF i = n THEN new ELSE wlog[i]
  BY <1>1, <1>3 DEF WlInv, WlTypeOK
<1>6. n \in Nat /\ n > Len(wlog) /\ n \in 1 .. n
  BY <1>2
<1>7. /\ c \in Children /\ c.pc = "seek" /\ c.n = doio[p].n
      /\ c.region = doio[p].region /\ c.rec = doio[p].rec /\ c.pos = n
      /\ c.good = doio[p].good
  BY <1>2, <1>6 DEF Children
<1> HIDE DEF c
<1>8. doio'[p] = c /\ \A q \in Doios \ {p} : doio'[q] = doio[q]
  BY <1>1, OneKid
<1>9. WlTypeOK'
  <2>1. doio' \in [Doios -> Children]
    BY <1>1, <1>7, OneKid
  <2>2. \A q \in Doios : doio'[q].rec <= Len(wlog') /\ doio'[q].pos <= Len(wlog')
    <3> SUFFICES ASSUME NEW q \in Doios
                 PROVE  doio'[q].rec <= n /\ doio'[q].pos <= n
      BY <1>5
    <3>1. CASE q = p
      BY <1>2, <1>6, <1>7, <1>8, <3>1
    <3>2. CASE q # p
      <4>1. /\ doio[q].rec <= Len(wlog) /\ doio[q].pos <= Len(wlog)
            /\ doio[q].rec \in Nat /\ doio[q].pos \in Nat
        BY OneKid DEF Children
      <4> QED BY <1>2, <1>6, <1>8, <3>2, <4>1
    <3> QED BY <3>1, <3>2
  <2> QED BY <1>1, <1>5, <2>1, <2>2 DEF WlInv, WlTypeOK
<1>10. Minds(p)
  BY <1>1, <1>2, <1>4, <1>5, <1>6, <1>8 DEF Minds, Locked
<1>11. Mine(p)' = Mine(p) /\ Mine(p).who = p /\ Mine(p).n = doio[p].n
  BY <1>7, <1>8 DEF Mine
<1>12. \A i \in 1 .. Len(wlog) : wlog[i].data # Mine(p)
  BY <1>1, <1>2, <1>11 DEF KidOK, LogOK, Children
<1>13. KidOK(p)'
  <2>1. RequestOK(p)'
    BY <1>1, <1>2, <1>7, <1>8 DEF KidOK, RequestOK, Locked
  <2>2. FileOK(p)'
    BY <1>1, <1>2, <1>7, <1>8 DEF KidOK, FileOK
  <2>3. LogOK(p)'
    <3> SUFFICES ASSUME NEW i \in 1 .. n, wlog'[i].data.who = p
                 PROVE  wlog'[i].data.n <= doio[p].n
      BY <1>5, <1>7, <1>8 DEF LogOK
    <3>1. CASE i = n
      BY <1>2, <1>4, <1>5, <1>11, <3>1 DEF Children
    <3>2. CASE i # n
      BY <1>2, <1>5, <3>2 DEF KidOK, LogOK
    <3> QED BY <3>1, <3>2
  <2>4. RecordAt(p, doio[p].pos)'
    <3>1. /\ n \in 1 .. Len(wlog') /\ wlog'[n].data = Mine(p)
          /\ ~ wlog'[n].done /\ wlog'[n].region = doio[p].region
      BY <1>4, <1>5, <1>6
    <3>2. \A k \in 1 .. Len(wlog') : ~ (k > n) /\ (wlog'[k].data = Mine(p) => k = n)
      BY <1>2, <1>5, <1>6, <1>12
    <3>3. doio'[p].pos = n /\ doio'[p].region = doio[p].region
      BY <1>7, <1>8
    <3> HIDE DEF n
    <3> QED BY <1>11, <3>1, <3>2, <3>3 DEF RecordAt
  <2>5. RecordOK(p)' /\ WroteOK(p)'
    BY <1>7, <1>8, <2>4 DEF RecordOK, WroteOK
  <2> QED BY <2>1, <2>2, <2>3, <2>5 DEF KidOK
<1>14. ASSUME NEW b \in 1 .. Blocks, NEW i \in 1 .. Len(wlog') PROVE Tells(b, i)'
  <2>1. CASE i = n
    BY <1>4, <1>5, <2>1 DEF Tells
  <2>2. CASE i # n
    <3>1. i \in 1 .. Len(wlog) /\ wlog'[i] = wlog[i]
      BY <1>2, <1>5, <2>2
    <3>2. Tells(b, i)
      BY <3>1 DEF WlInv
    <3>3. LastFor(b, i)' => LastFor(b, i)
      BY <1>2, <1>5, <3>1 DEF LastFor
    <3>4. file[b] # Mine(p)
      BY <1>1, <1>2, <1>11 DEF KidOK, FileOK, Children
    <3>5. Logged(file[b])' => Logged(file[b])
      BY <1>1, <1>2, <1>4, <1>5, <3>4 DEF Logged
    <3>6. GoodOf(wlog[i].data)' => GoodOf(wlog[i].data)
      BY <1>1, <1>7, <1>8, <3>1, <1>5 DEF GoodOf, Mine
    <3> QED BY <1>1, <3>1, <3>2, <3>3, <3>5, <3>6 DEF Tells, GoodOf
  <2> QED BY <2>1, <2>2
<1> QED BY <1>1, <1>9, <1>10, <1>13, <1>14, LoudStep

LEMMA WriteStep ==
  ASSUME WlInv, NEW p \in Doios, NEW written \in SUBSET doio[p].region,
         Write(p, written)
  PROVE  WlInv'
<1> DEFINE g == (written = doio[p].region)
           pc == IF v_opt THEN "verify" ELSE "done"
           c == [doio[p] EXCEPT !.good = g, !.pc = pc]
<1>1. /\ doio[p].pc = "write" /\ UNCHANGED <<v_opt, wlog, flocks>>
      /\ file' = [b \in 1 .. Blocks |-> IF b \in written THEN Mine(p) ELSE file[b]]
      /\ doio' = [doio EXCEPT ![p] = c]
  BY OneKid DEF Write
<1>2. /\ doio[p] \in Children /\ KidOK(p) /\ Len(wlog) \in Nat
      /\ doio[p].region \in Regions /\ doio[p].region \subseteq 1 .. Blocks
      /\ doio[p].region \subseteq flocks[p] /\ doio[p].n >= 1 /\ doio[p].n \in Nat
      /\ doio[p].rec \in Nat
  BY <1>1, OneKid DEF KidOK, RequestOK, Locked, Regions, Children
<1>3. g \in BOOLEAN /\ pc \in {"verify", "done"} /\ (pc = "done" => ~ v_opt)
  OBVIOUS
<1>4. g => \A b \in doio[p].region : b \in written
  OBVIOUS
<1> HIDE DEF g, pc
<1>5. c \in Children
  BY <1>2, <1>3 DEF Children
<1>6. /\ c.pc = pc /\ c.n = doio[p].n /\ c.region = doio[p].region
      /\ c.rec = doio[p].rec /\ c.pos = doio[p].pos /\ (c.good <=> g)
  BY <1>2 DEF Children
<1> HIDE DEF c
<1>7. doio'[p] = c /\ \A q \in Doios \ {p} : doio'[q] = doio[q]
  BY <1>1, OneKid
<1>8. Mine(p)' = Mine(p) /\ Mine(p).who = p /\ Mine(p).n = doio[p].n
  BY <1>6, <1>7 DEF Mine
<1>9. Mine(p) \in Data /\ Mine(p) # Nothing
  BY <1>2, <1>8 DEF Mine, Data, Nothing
<1>10. WlTypeOK'
  <2>1. doio' \in [Doios -> Children]
    BY <1>1, <1>5, OneKid
  <2>2. file' \in [1 .. Blocks -> Data]
    BY <1>1, <1>9 DEF WlInv, WlTypeOK
  <2>3. \A q \in Doios : doio'[q].rec <= Len(wlog') /\ doio'[q].pos <= Len(wlog')
    BY <1>1, <1>6, <1>7, OneKid
  <2> QED BY <1>1, <2>1, <2>2, <2>3 DEF WlInv, WlTypeOK
<1>11. Minds(p)
  BY <1>1, <1>2, <1>7 DEF Minds, Locked
<1>12. IF doio[p].rec = 0 THEN \A i \in 1 .. Len(wlog) : wlog[i].data # Mine(p)
       ELSE RecordAt(p, doio[p].rec)
  BY <1>1, <1>2 DEF KidOK, RecordOK
<1>13. KidOK(p)'
  <2>1. RequestOK(p)' /\ LogOK(p)'
    BY <1>1, <1>2, <1>3, <1>6, <1>7 DEF KidOK, RequestOK, LogOK, Locked
  <2>2. FileOK(p)'
    <3> SUFFICES ASSUME NEW b \in 1 .. Blocks, file'[b].who = p
                 PROVE  file'[b].n <= doio[p].n
      BY <1>3, <1>6, <1>7 DEF FileOK
    <3>1. file'[b] = Mine(p) \/ file'[b] = file[b]
      BY <1>1
    <3>2. file'[b] = file[b] => file[b].n <= doio[p].n
      BY <1>2 DEF KidOK, FileOK
    <3>3. file'[b] = Mine(p) => file'[b].n <= doio[p].n
      BY <1>2, <1>8
    <3> QED BY <3>1, <3>2, <3>3
  <2>3. RecordAt(p, doio[p].rec) => RecordAt(p, doio[p].rec)'
    BY <1>1, <1>6, <1>7, <1>8 DEF RecordAt
  <2>4. RecordOK(p)'
    BY <1>1, <1>3, <1>6, <1>7, <1>8, <1>12, <2>3 DEF RecordOK
  <2>5. g => \A b \in doio[p].region : file'[b] = Mine(p)
    BY <1>1, <1>2, <1>4
  <2>6. WroteOK(p)'
    BY <1>1, <1>3, <1>6, <1>7, <1>8, <2>5 DEF WroteOK
  <2> QED BY <2>1, <2>2, <2>4, <2>6 DEF KidOK
<1>14. ASSUME NEW b \in 1 .. Blocks, NEW i \in 1 .. Len(wlog') PROVE Tells(b, i)'
  <2>1. i \in 1 .. Len(wlog) /\ Tells(b, i)
    BY <1>1, <1>14 DEF WlInv
  <2>2. SUFFICES ASSUME LastFor(b, i), wlog[i].done,
                        file'[b] = Nothing \/ Logged(file'[b]),
                        v_opt \/ GoodOf(wlog[i].data)'
                 PROVE  file'[b] = wlog[i].data
    BY <1>1 DEF Tells, LastFor, Logged, GoodOf
  <2>3. wlog[i].data # Mine(p)
    BY <1>12, <2>1, <2>2 DEF RecordAt
  <2>4. CASE b \in written
    <3>1. file'[b] = Mine(p) /\ b \in doio[p].region
      BY <1>1, <2>4
    <3>2. Logged(Mine(p))
      BY <1>9, <2>2, <3>1
    <3>3. RecordAt(p, doio[p].rec)
      BY <1>12, <3>2 DEF Logged
    <3>4. doio[p].rec <= i
      BY <2>2, <3>1, <3>3 DEF RecordAt, LastFor
    <3>5. ~ (i > doio[p].rec)
      BY <2>1, <2>2, <3>1, <3>3 DEF RecordAt, LastFor
    <3>6. i = doio[p].rec
      BY <1>2, <2>1, <3>4, <3>5
    <3> QED BY <2>3, <3>3, <3>6 DEF RecordAt
  <2>5. CASE b \notin written
    <3>1. file'[b] = file[b]
      BY <1>1, <2>5
    <3>2. GoodOf(wlog[i].data)' => GoodOf(wlog[i].data)
      <4> SUFFICES ASSUME GoodOf(wlog[i].data)', NEW q \in Doios,
                          wlog[i].data = Mine(q)
                   PROVE  doio[q].good
        BY DEF GoodOf
      <4>1. q # p
        BY <2>3
      <4>2. doio'[q] = doio[q] /\ Mine(q)' = Mine(q) /\ wlog' = wlog
        BY <1>1, <1>7, <4>1 DEF Mine
      <4> QED BY <4>2 DEF GoodOf
    <3> QED BY <2>1, <2>2, <3>1, <3>2 DEF Tells
  <2> QED BY <2>4, <2>5
<1> QED BY <1>1, <1>10, <1>11, <1>13, <1>14, LoudStep

(***************************************************************************)
(* What an overlay may do to the log: it sets w_done of the record of p,   *)
(* spoils another, or appends one more for the same request.               *)
(***************************************************************************)
Overlays(p) ==
  /\ wlog' \in Seq(Records) /\ Len(wlog') \in Nat /\ Len(wlog') >= Len(wlog)
  /\ \A i \in 1 .. Len(wlog') :
       IF i <= Len(wlog)
       THEN /\ wlog'[i].data = wlog[i].data /\ wlog'[i].region = wlog[i].region
            /\ i # doio[p].rec => wlog'[i].done = wlog[i].done
       ELSE wlog'[i].data = Mine(p) /\ wlog'[i].region = doio[p].region

LEMMA OverlaidIs ==
  ASSUME WlInv, NEW p \in Doios, RecordAt(p, doio[p].rec),
         wlog' \in Overlaid(p), doio[p].region \in Regions
  PROVE  Overlays(p)
<1> DEFINE rec == doio[p].rec
<1>1. /\ Len(wlog) \in Nat /\ wlog \in Seq(Records) /\ rec \in 1 .. Len(wlog)
      /\ \A i \in 1 .. Len(wlog) : wlog[i] \in Records
  BY LogLen, ElementOfSeq DEF WlInv, WlTypeOK, RecordAt
<1>2. CASE wlog' = [wlog EXCEPT ![rec].done = TRUE]
  <2> DEFINE r == [wlog[rec] EXCEPT !.done = TRUE]
  <2>1. wlog' = [wlog EXCEPT ![rec] = r]
    BY <1>1, <1>2
  <2>2. r \in Records /\ r.data = wlog[rec].data /\ r.region = wlog[rec].region
    BY <1>1 DEF Records
  <2> HIDE DEF r
  <2>3. /\ wlog' \in Seq(Records) /\ Len(wlog') = Len(wlog)
        /\ \A i \in 1 .. Len(wlog) : wlog'[i] = IF i = rec THEN r ELSE wlog[i]
    BY <1>1, <2>1, <2>2, ExceptSeq
  <2> QED BY <1>1, <2>2, <2>3 DEF Overlays
<1>3. ASSUME NEW j \in 1 .. (rec - 1), wlog' = [wlog EXCEPT ![j].whole = FALSE]
      PROVE  Overlays(p)
  <2> DEFINE r == [wlog[j] EXCEPT !.whole = FALSE]
  <2>1. j \in 1 .. Len(wlog) /\ wlog' = [wlog EXCEPT ![j] = r]
    BY <1>1, <1>3
  <2>2. /\ r \in Records /\ r.data = wlog[j].data /\ r.region = wlog[j].region
        /\ r.done = wlog[j].done
    BY <1>1, <2>1 DEF Records
  <2> HIDE DEF r
  <2>3. /\ wlog' \in Seq(Records) /\ Len(wlog') = Len(wlog)
        /\ \A i \in 1 .. Len(wlog) : wlog'[i] = IF i = j THEN r ELSE wlog[i]
    BY <1>1, <2>1, <2>2, ExceptSeq
  <2> QED BY <1>1, <2>2, <2>3 DEF Overlays
<1>4. ASSUME NEW whole \in BOOLEAN, wlog' = Append(wlog, Record(p, whole, whole))
      PROVE  Overlays(p)
  <2> DEFINE r == Record(p, whole, whole)
             n == Len(wlog) + 1
  <2>1. doio[p].n \in Nat
    BY OneKid DEF Children
  <2>2. Mine(p) \in Data
    BY <2>1 DEF Mine, Data
  <2>3. r \in Records /\ r.data = Mine(p) /\ r.region = doio[p].region
    BY <2>2 DEF Record, Records
  <2> HIDE DEF r
  <2>4. /\ wlog' \in Seq(Records) /\ Len(wlog') = n
        /\ \A i \in 1 .. n : wlog'[i] = IF i = n THEN r ELSE wlog[i]
    BY <1>1, <1>4, <2>3 DEF r
  <2> QED BY <1>1, <2>3, <2>4 DEF Overlays
<1> QED BY <1>2, <1>3, <1>4 DEF Overlaid

LEMMA DoneStep == ASSUME WlInv, NEW p \in Doios, LogDone(p) PROVE WlInv'
<1> DEFINE rec == doio[p].rec
           c == [doio[p] EXCEPT !.pc = "unlock", !.rec = rec]
<1>1. /\ doio[p].pc = "done" /\ UNCHANGED <<v_opt, file, flocks>>
      /\ wlog' \in {wlog} \cup IF rec = 0 THEN {} ELSE Overlaid(p)
      /\ doio' = [doio EXCEPT ![p] = [doio[p] EXCEPT !.pc = "unlock"]]
  BY OneKid DEF LogDone, Goes
<1>2. doio' = [doio EXCEPT ![p] = c] /\ c \in Children /\ rec \in Nat
  BY <1>1, KeepsRec, MovedIsChild
<1>3. /\ flocks' \in [Doios -> SUBSET (1 .. Blocks)]
      /\ doio[p].region \subseteq flocks'[p]
      /\ \A q \in Doios \ {p} :
           flocks'[q] = flocks[q] /\ flocks[q] \cap flocks'[p] = {}
  BY <1>1, OneKid DEF KidOK, RequestOK, Locked
<1>4. doio[p].good \/ v_opt => \A b \in doio[p].region : file[b] = Mine(p)
  BY <1>1, OneKid DEF KidOK, WroteOK
<1>5. /\ rec <= Len(wlog) /\ Len(wlog) \in Nat /\ KidOK(p)
      /\ doio[p] \in Children
  BY OneKid
<1>6. CASE wlog' = wlog
  <2> HIDE DEF rec
  <2>1. Moves(p, "unlock", rec)
    BY <1>1, <1>2, <1>3, <1>4, <1>5, <1>6 DEF Moves, Locked
  <2> QED BY <2>1, MoveStep
<1>7. CASE rec # 0 /\ wlog' \in Overlaid(p)
  <2>1. RecordAt(p, rec)
    BY <1>1, <1>5, <1>7 DEF KidOK, RecordOK
  <2>2. Overlays(p)
    BY <1>1, <1>5, <1>7, <2>1, OverlaidIs DEF KidOK, RequestOK, Locked
  <2>3. /\ c.pc = "unlock" /\ c.n = doio[p].n /\ c.region = doio[p].region
        /\ c.rec = doio[p].rec /\ c.pos = doio[p].pos
        /\ (c.good <=> doio[p].good)
    BY <1>5 DEF Children
  <2> HIDE DEF c
  <2>4. doio'[p] = c /\ \A q \in Doios \ {p} : doio'[q] = doio[q]
    BY <1>2, OneKid
  <2>5. WlTypeOK'
    <3>1. doio' \in [Doios -> Children]
      BY <1>2, OneKid
    <3>2. \A q \in Doios : doio'[q].rec <= Len(wlog') /\ doio'[q].pos <= Len(wlog')
      <4> SUFFICES ASSUME NEW q \in Doios
                   PROVE  doio'[q].rec <= Len(wlog') /\ doio'[q].pos <= Len(wlog')
        OBVIOUS
      <4>1. /\ doio[q].rec \in Nat /\ doio[q].pos \in Nat
            /\ doio[q].rec <= Len(wlog) /\ doio[q].pos <= Len(wlog)
        BY OneKid DEF Children
      <4>2. doio'[q].rec = doio[q].rec /\ doio'[q].pos = doio[q].pos
        BY <2>3, <2>4
      <4> QED BY <1>5, <2>2, <4>1, <4>2 DEF Overlays
    <3> QED BY <1>1, <2>2, <3>1, <3>2 DEF WlInv, WlTypeOK, Overlays
  <2>6. Minds(p)
    <3>1. wlog[rec].data = Mine(p)
      BY <2>1 DEF RecordAt
    <3>2. \A i \in 1 .. Len(wlog') :
            IF i <= Len(wlog)
            THEN /\ wlog'[i].data = wlog[i].data /\ wlog'[i].region = wlog[i].region
                 /\ wlog[i].data # Mine(p) => wlog'[i].done = wlog[i].done
            ELSE wlog'[i].data = Mine(p) /\ wlog'[i].region = doio[p].region
      BY <2>2, <3>1 DEF Overlays
    <3> QED BY <1>1, <2>2, <2>4, <3>2 DEF Minds, Overlays, Locked
  <2>7. Mine(p)' = Mine(p) /\ Mine(p).who = p /\ Mine(p).n = doio[p].n
    BY <2>3, <2>4 DEF Mine
  <2>8. KidOK(p)'
    <3>1. RequestOK(p)'
      BY <1>1, <1>3, <1>5, <2>3, <2>4 DEF KidOK, RequestOK, Locked
    <3>2. FileOK(p)'
      BY <1>1, <1>5, <2>3, <2>4 DEF KidOK, FileOK
    <3>3. LogOK(p)'
      <4> SUFFICES ASSUME NEW i \in 1 .. Len(wlog'), wlog'[i].data.who = p
                   PROVE  wlog'[i].data.n <= doio[p].n
        BY <2>3, <2>4 DEF LogOK
      <4>1. CASE i <= Len(wlog)
        BY <1>5, <2>2, <4>1 DEF KidOK, LogOK, Overlays
      <4>2. CASE i > Len(wlog)
        <5>1. wlog'[i].data = Mine(p) /\ doio[p].n \in Nat
          BY <1>5, <2>2, <4>2 DEF Overlays, Children
        <5> QED BY <2>7, <5>1
      <4>3. Len(wlog') \in Nat
        BY <2>2 DEF Overlays
      <4> QED BY <1>5, <4>1, <4>2, <4>3
    <3>4. RecordOK(p)'
      BY <2>3, <2>4 DEF RecordOK
    <3>5. WroteOK(p)'
      BY <1>1, <1>4, <2>3, <2>4, <2>7 DEF WroteOK
    <3> QED BY <3>1, <3>2, <3>3, <3>4, <3>5 DEF KidOK
  <2>9. ASSUME NEW b \in 1 .. Blocks, NEW i \in 1 .. Len(wlog') PROVE Tells(b, i)'
    <3>1. CASE wlog'[i].data = Mine(p) /\ wlog'[i].region = doio[p].region
      <4>1. LastFor(b, i)' => b \in doio[p].region
        BY <3>1 DEF LastFor
      <4>2. GoodOf(wlog[i].data)' => doio[p].good
        <5>1. ASSUME GoodOf(wlog[i].data)' PROVE doio'[p].good
          BY <2>7, <3>1, <5>1 DEF GoodOf
        <5> QED BY <2>3, <2>4, <5>1
      <4> QED BY <1>1, <1>4, <3>1, <4>1, <4>2 DEF Tells, GoodOf
    <3>2. CASE ~ (wlog'[i].data = Mine(p) /\ wlog'[i].region = doio[p].region)
      <4>1. /\ i \in 1 .. Len(wlog) /\ wlog'[i].data = wlog[i].data
            /\ wlog'[i].region = wlog[i].region
            /\ (wlog'[i].done <=> wlog[i].done)
        <5>1. i <= Len(wlog) /\ i \in Nat /\ i >= 1
          BY <1>5, <2>2, <3>2 DEF Overlays
        <5>2. i \in 1 .. Len(wlog)
          BY <1>5, <5>1
        <5>3. i = rec => wlog'[i].data = Mine(p) /\ wlog'[i].region = doio[p].region
          BY <2>1, <2>2, <5>1 DEF Overlays, RecordAt
        <5> QED BY <2>2, <3>2, <5>1, <5>2, <5>3 DEF Overlays
      <4>2. Tells(b, i)
        BY <4>1 DEF WlInv
      <4>3. LastFor(b, i)' => LastFor(b, i)
        <5> SUFFICES ASSUME LastFor(b, i)', NEW j \in 1 .. Len(wlog),
                            b \in wlog[j].region
                     PROVE  j <= i
          BY <4>1 DEF LastFor
        <5>1. j \in 1 .. Len(wlog') /\ b \in wlog'[j].region
          BY <1>5, <2>2 DEF Overlays
        <5> QED BY <5>1 DEF LastFor
      <4>4. Logged(file[b])' => Logged(file[b])
        <5> SUFFICES ASSUME NEW j \in 1 .. Len(wlog'), wlog'[j].data = file[b]
                     PROVE  Logged(file[b])
          BY <1>1 DEF Logged
        <5>1. CASE j <= Len(wlog)
          <6>1. j \in 1 .. Len(wlog) /\ wlog[j].data = file[b]
            BY <1>5, <2>2, <5>1 DEF Overlays
          <6> QED BY <6>1 DEF Logged
        <5>2. CASE ~ (j <= Len(wlog))
          <6>1. file[b] = wlog[rec].data /\ rec \in 1 .. Len(wlog)
            BY <1>5, <2>1, <2>2, <5>2 DEF Overlays, RecordAt
          <6> QED BY <6>1 DEF Logged
        <5> QED BY <5>1, <5>2
      <4>5. GoodOf(wlog[i].data)' => GoodOf(wlog[i].data)
        <5> SUFFICES ASSUME GoodOf(wlog[i].data)', NEW q \in Doios,
                            wlog[i].data = Mine(q)
                     PROVE  doio[q].good
          BY DEF GoodOf
        <5>1. Mine(q)' = Mine(q) /\ (doio'[q].good <=> doio[q].good)
          BY <2>3, <2>4 DEF Mine
        <5> QED BY <4>1, <5>1 DEF GoodOf
      <4> QED BY <1>1, <4>1, <4>2, <4>3, <4>4, <4>5 DEF Tells, GoodOf
    <3> QED BY <3>1, <3>2
  <2> QED BY <1>1, <2>5, <2>6, <2>8, <2>9, LoudStep
<1>8. wlog' = wlog \/ (rec # 0 /\ wlog' \in Overlaid(p))
  BY <1>1
<1> QED BY <1>6, <1>7, <1>8

-----------------------------------------------------------------------------

LEMMA WlStepInv == WlInv /\ [WlNext]_wlVars => WlInv'
<1> SUFFICES ASSUME WlInv, [WlNext]_wlVars PROVE WlInv'
  OBVIOUS
<1>1. CASE UNCHANGED wlVars
  <2> USE <1>1 DEF wlVars
  <2>1. WlTypeOK' /\ LocksApart'
    BY DEF WlInv, WlTypeOK, LocksApart
  <2>2. ASSUME NEW p \in Doios PROVE KidOK(p)'
    <3>1. KidOK(p)
      BY DEF WlInv
    <3>2. RequestOK(p)' /\ FileOK(p)' /\ LogOK(p)'
      BY <3>1 DEF KidOK, RequestOK, FileOK, LogOK
    <3>3. RecordOK(p)'
      BY <3>1 DEF KidOK, RecordOK, RecordAt, Mine
    <3>4. WroteOK(p)'
      BY <3>1 DEF KidOK, WroteOK, Mine
    <3> QED BY <3>2, <3>3, <3>4 DEF KidOK
  <2>3. ASSUME NEW b \in 1 .. Blocks, NEW i \in 1 .. Len(wlog)' PROVE Tells(b, i)'
    <3>1. Tells(b, i)
      BY <2>3 DEF WlInv
    <3> QED BY <3>1 DEF Tells, LastFor, Logged, GoodOf, Mine
  <2> QED BY <2>1, <2>2, <2>3 DEF WlInv
<1>2. ASSUME NEW p \in Doios,
             \/ LockFileRegion(p) \/ LockFails(p) \/ LogSeek(p) \/ LogFails(p)
             \/ SeekFileFails(p) \/ Verify(p) \/ VerifyFails(p) \/ LogDone(p)
             \/ UnlockFileRegion(p) \/ UnlockFails(p) \/ Killed(p)
      PROVE  WlInv'
  <2>1. CASE LockFileRegion(p)
    BY <2>1, LockStep
  <2>2. CASE \/ LockFails(p) \/ SeekFileFails(p) \/ VerifyFails(p)
             \/ UnlockFails(p) \/ Killed(p)
    <3>1. \E how \in {"exited", "killed", "unread"} : Exits(p, how)
      BY <2>2 DEF LockFails, SeekFileFails, VerifyFails, UnlockFails, Killed
    <3>2. PICK how \in {"exited", "killed", "unread"} : Exits(p, how)
      BY <3>1
    <3>3. how \in {"exited", "killed", "compare", "unread"} /\ how # "compare"
      OBVIOUS
    <3> QED BY <3>2, <3>3, ExitsStep
  <2>3. CASE LogSeek(p)
    BY <2>3, SeekStep
  <2>4. CASE LogFails(p)
    BY <2>4, LogFailsStep
  <2>5. CASE Verify(p)
    BY <2>5, VerifyStep
  <2>6. CASE LogDone(p)
    BY <2>6, DoneStep
  <2>7. CASE UnlockFileRegion(p)
    BY <2>7, UnlockStep
  <2> QED BY <1>2, <2>1, <2>2, <2>3, <2>4, <2>5, <2>6, <2>7
<1>3. ASSUME NEW p \in Doios, NEW r \in Regions, Request(p, r) PROVE WlInv'
  BY <1>3, RequestStep
<1>4. ASSUME NEW p \in Doios, NEW w \in SUBSET doio[p].region, Write(p, w)
      PROVE  WlInv'
  BY <1>4, WriteStep
<1>5. ASSUME NEW p \in Doios, NEW whole \in BOOLEAN, LogAppend(p, whole)
      PROVE  WlInv'
  BY <1>5, AppendStep
<1> QED BY <1>1, <1>2, <1>3, <1>4, <1>5 DEF WlNext

LEMMA WlInvariant == WlSpec => []WlInv
BY WlInitInv, WlStepInv, PTL DEF WlSpec

(***************************************************************************)
(* The log, the file, the locks and the children keep their types.         *)
(***************************************************************************)
THEOREM WlTypeCorrect == WlSpec => []WlTypeOK
<1>1. WlInv => WlTypeOK
  BY DEF WlInv
<1> QED BY <1>1, WlInvariant, PTL

(***************************************************************************)
(* do_write(): however many children write wherever in the file, a child   *)
(* whose own write() was whole never reads back other data.                *)
(***************************************************************************)
THEOREM NoFalseAlarmCorrect == WlSpec => []NoFalseAlarm
<1>1. WlInv => NoFalseAlarm
  BY DEF WlInv, KidOK, RequestOK, NoFalseAlarm
<1> QED BY <1>1, WlInvariant, PTL

(***************************************************************************)
(* A set of places in the log has a last one.                              *)
(***************************************************************************)
LEMMA LastExists ==
  ASSUME NEW n \in Nat, NEW S \in SUBSET (1 .. n), S # {}
  PROVE  LastOf(S) \in S /\ \A j \in S : j <= LastOf(S)
<1> DEFINE T == {n - k : k \in S}
<1>1. T \subseteq Nat /\ T # {}
  <2>1. \A k \in S : n - k \in Nat
    OBVIOUS
  <2> QED BY <2>1
<1>2. PICK m \in T : \A y \in T : ~ (<<y, m>> \in OpToRel(<, Nat))
  BY <1>1, NatLessThanWellFounded, WFMin
<1>3. PICK i \in S : m = n - i
  OBVIOUS
<1>4. \A j \in S : j <= i
  <2> SUFFICES ASSUME NEW j \in S, j > i PROVE FALSE
    OBVIOUS
  <2>1. n - j \in T /\ n - j \in Nat /\ m \in Nat /\ n - j < m
    BY <1>3
  <2> QED BY <1>2, <2>1 DEF OpToRel
<1> QED BY <1>4 DEF LastOf

(***************************************************************************)
(* "doio_check can do corruption detection across an interrupt/crash":     *)
(* wherever children were killed or failed, could not log or logged only   *)
(* part of a record, the last record of a block among those that can be    *)
(* read back names, with w_done set, what the block holds.                 *)
(***************************************************************************)
THEOREM LogTellsFileCorrect == WlSpec => []LogTellsFile
<1>1. WlInv => LogTellsFile
  <2> SUFFICES ASSUME WlInv, NEW b \in 1 .. Blocks, Covering(b) # {},
                      file[b] = Nothing \/ Logged(file[b]),
                      wlog[LastOf(Covering(b))].done,
                      v_opt \/ GoodOf(wlog[LastOf(Covering(b))].data)
               PROVE  file[b] = wlog[LastOf(Covering(b))].data
    BY DEF LogTellsFile
  <2> DEFINE i == LastOf(Covering(b))
  <2>1. Len(wlog) \in Nat /\ Covering(b) \in SUBSET (1 .. Len(wlog))
    BY LogLen DEF Covering
  <2>2. i \in Covering(b) /\ \A j \in Covering(b) : j <= i
    BY <2>1, LastExists
  <2> HIDE DEF i
  <2>3. /\ i \in 1 .. Len(wlog) /\ b \in wlog[i].region
        /\ \A k \in i .. Len(wlog) : wlog[k].whole
    BY <2>2 DEF Covering, Readable
  <2>4. ASSUME NEW j \in 1 .. Len(wlog), b \in wlog[j].region, j > i
        PROVE  FALSE
    <3>1. Readable(j)
      BY <2>1, <2>3, <2>4 DEF Readable
    <3>2. j \in Covering(b)
      BY <2>4, <3>1 DEF Covering
    <3> QED BY <2>1, <2>2, <2>3, <2>4, <3>2
  <2>5. LastFor(b, i)
    BY <2>1, <2>3, <2>4 DEF LastFor
  <2>6. Tells(b, i)
    BY <2>3 DEF WlInv
  <2> QED BY <2>5, <2>6 DEF Tells, i
<1> QED BY <1>1, WlInvariant, PTL

-----------------------------------------------------------------------------

(***************************************************************************)
(* A set with 0 and with the successor of each of its members has all of   *)
(* them: a smallest number that is missing would have a predecessor.       *)
(***************************************************************************)
LEMMA EveryNumber ==
  ASSUME NEW S \in SUBSET Nat, 0 \in S, \A n \in S : n + 1 \in S
  PROVE  S = Nat
<1> SUFFICES ASSUME Nat \ S # {} PROVE FALSE
  OBVIOUS
<1>1. PICK m \in Nat \ S : \A y \in Nat \ S : ~ (<<y, m>> \in OpToRel(<, Nat))
  BY NatLessThanWellFounded, WFMin
<1>2. m - 1 \in S
  <2>1. m \in Nat /\ m - 1 \in Nat /\ m - 1 < m
    OBVIOUS
  <2>2. <<m - 1, m>> \in OpToRel(<, Nat)
    BY <2>1 DEF OpToRel
  <2> QED BY <1>1, <2>1, <2>2
<1>3. m - 1 + 1 \in S
  BY <1>2
<1> QED BY <1>3

(***************************************************************************)
(* Where the records end.                                                  *)
(***************************************************************************)
Ends(f, n) ==
  f = [i \in 0 .. n |-> IF i = 0 THEN 0 ELSE f[i - 1] + lens[i] + 2]

LEMMA EndsExist ==
  ASSUME NEW n \in Nat
  PROVE  \E f : Ends(f, n)
<1> DEFINE S == {k \in Nat : \E f : Ends(f, k)}
<1>1. 0 \in S
  <2>1. Ends([i \in 0 .. 0 |-> 0], 0)
    BY DEF Ends
  <2> QED BY <2>1
<1>2. ASSUME NEW k \in S PROVE k + 1 \in S
  <2>1. PICK f : Ends(f, k)
    OBVIOUS
  <2> DEFINE g == [i \in 0 .. k + 1 |-> IF i <= k THEN f[i] ELSE f[k] + lens[k + 1] + 2]
  <2>2. ASSUME NEW i \in 0 .. k + 1
        PROVE  g[i] = IF i = 0 THEN 0 ELSE g[i - 1] + lens[i] + 2
    <3>1. CASE i = 0
      BY <2>1, <3>1 DEF Ends
    <3>2. CASE i \in 1 .. k
      <4>1. f[i] = f[i - 1] + lens[i] + 2
        BY <2>1, <3>2 DEF Ends
      <4> QED BY <3>2, <4>1
    <3>3. CASE i = k + 1
      BY <3>3
    <3> QED BY <3>1, <3>2, <3>3
  <2>3. Ends(g, k + 1)
    BY <2>2 DEF Ends
  <2> QED BY <2>3
<1>3. S = Nat
  <2> HIDE DEF S
  <2>1. S \in SUBSET Nat
    BY DEF S
  <2> QED BY <1>1, <1>2, <2>1, EveryNumber
<1> QED BY <1>3

LEMMA RecEndIs ==
  ASSUME lens \in Seq(RecLens)
  PROVE  /\ RecEnd = [i \in 0 .. Len(lens) |-> RecEnd[i]]
         /\ RecEnd[0] = 0
         /\ \A i \in 1 .. Len(lens) : RecEnd[i] = RecEnd[i - 1] + lens[i] + 2
<1>1. \E f : Ends(f, Len(lens))
  BY EndsExist
<1>2. RecEnd = CHOOSE f : Ends(f, Len(lens))
  BY DEF RecEnd, Ends
<1>3. Ends(RecEnd, Len(lens))
  BY <1>1, <1>2
<1> QED BY <1>3 DEF Ends

LEMMA RecEndStays == ASSUME lens' = lens PROVE RecEnd' = RecEnd
BY DEF RecEnd


LEMMA LensAre ==
  ASSUME lens \in Seq(RecLens)
  PROVE  /\ Len(lens) \in Nat
         /\ \A i \in 1 .. Len(lens) : lens[i] \in RecLens /\ lens[i] \in Nat \ {0}
<1>1. \A i \in 1 .. Len(lens) : lens[i] \in RecLens
  BY ElementOfSeq
<1>2. RecLens \subseteq Nat \ {0}
  BY LsAssumption
<1>3. Len(lens) \in Nat
  BY LenProperties
<1> QED BY <1>1, <1>2, <1>3

LEMMA RecEndsGrow ==
  ASSUME lens \in Seq(RecLens)
  PROVE  \A j \in 0 .. Len(lens) :
           /\ RecEnd[j] \in Nat
           /\ \A i \in 0 .. j : i # j => RecEnd[i] < RecEnd[j]
<1> DEFINE Grow(j) == /\ RecEnd[j] \in Nat
                      /\ \A i \in 0 .. j : i # j => RecEnd[i] < RecEnd[j]
           S == {j \in Nat : j <= Len(lens) => \A k \in 0 .. j : Grow(k)}
<1>0. /\ Len(lens) \in Nat /\ \A i \in 1 .. Len(lens) : lens[i] \in Nat \ {0}
  BY LensAre
<1>1. 0 \in S
  <2>1. RecEnd[0] = 0
    BY RecEndIs
  <2> QED BY <2>1
<1>2. ASSUME NEW j \in S PROVE j + 1 \in S
  <2>0. j \in Nat
    OBVIOUS
  <2> SUFFICES ASSUME j + 1 <= Len(lens) PROVE \A k \in 0 .. j + 1 : Grow(k)
    OBVIOUS
  <2>1. \A k \in 0 .. j : Grow(k)
    BY <1>0, <2>0
  <2>2. RecEnd[j + 1] = RecEnd[j] + lens[j + 1] + 2 /\ lens[j + 1] \in Nat
    <3>1. j + 1 \in 1 .. Len(lens) /\ (j + 1) - 1 = j
      BY <1>0, <2>0
    <3>2. RecEnd[j + 1] = RecEnd[(j + 1) - 1] + lens[j + 1] + 2
      BY <3>1, RecEndIs
    <3> QED BY <1>0, <3>1, <3>2
  <2>3. RecEnd[j] \in Nat /\ \A i \in 0 .. j : i # j => RecEnd[i] < RecEnd[j]
    BY <2>0, <2>1
  <2>4. \A i \in 0 .. j : RecEnd[i] \in Nat
    BY <2>1
  <2>5. RecEnd[j + 1] \in Nat /\ RecEnd[j] < RecEnd[j + 1]
    BY <2>2, <2>3
  <2>6. \A i \in 0 .. j : RecEnd[i] < RecEnd[j + 1]
    BY <2>3, <2>4, <2>5
  <2>7. Grow(j + 1)
    BY <2>0, <2>5, <2>6
  <2> QED BY <2>0, <2>1, <2>7
<1>3. S = Nat
  <2> HIDE DEF S
  <2>1. S \in SUBSET Nat
    BY DEF S
  <2> QED BY <1>1, <1>2, <2>1, EveryNumber
<1>4. Len(lens) \in S
  BY <1>0, <1>3
<1>5. \A k \in 0 .. Len(lens) : Grow(k)
  BY <1>0, <1>4
<1> QED BY <1>5

(* Where a record ends only that one does.                                 *)
LEMMA EndsAtIs ==
  ASSUME lens \in Seq(RecLens), NEW i \in 0 .. Len(lens)
  PROVE  EndsAt(RecEnd[i]) = i
<1>0. Len(lens) \in Nat
  BY LensAre
<1>1. ASSUME NEW j \in 0 .. Len(lens), NEW k \in 0 .. Len(lens), RecEnd[j] = RecEnd[k]
      PROVE  j = k
  <2>1. CASE j < k
    <3>1. j \in 0 .. k /\ j # k
      BY <2>1
    <3> QED BY <1>1, <3>1, RecEndsGrow
  <2>2. CASE k < j
    <3>1. k \in 0 .. j /\ j # k
      BY <2>2
    <3> QED BY <1>1, <3>1, RecEndsGrow
  <2> QED BY <1>0, <2>1, <2>2
<1>2. CASE i = 0
  <2>1. ~ \E j \in 1 .. Len(lens) : RecEnd[j] = RecEnd[i]
    BY <1>0, <1>1, <1>2
  <2> QED BY <1>2, <2>1 DEF EndsAt
<1>3. CASE i # 0
  <2>1. \A j \in 1 .. Len(lens) : RecEnd[j] = RecEnd[i] <=> j = i
    BY <1>0, <1>1
  <2>2. i \in 1 .. Len(lens)
    BY <1>0, <1>3
  <2>3. (CHOOSE j \in 1 .. Len(lens) : RecEnd[j] = RecEnd[i]) = i
    BY <2>1, <2>2
  <2> QED BY <2>1, <2>2, <2>3 DEF EndsAt
<1> QED BY <1>2, <1>3

LEMMA EndsAtIn ==
  ASSUME lens \in Seq(RecLens), NEW p
  PROVE  /\ EndsAt(p) \in 0 .. Len(lens)
         /\ EndsAt(p) # 0 => lens[EndsAt(p)] \in RecLens /\ lens[EndsAt(p)] \in Nat
<1>1. EndsAt(p) \in 0 .. Len(lens)
  <2>1. CASE \E i \in 1 .. Len(lens) : RecEnd[i] = p
    <3>1. EndsAt(p) \in 1 .. Len(lens)
      BY <2>1 DEF EndsAt
    <3> QED BY <3>1, LensAre
  <2>2. CASE ~ \E i \in 1 .. Len(lens) : RecEnd[i] = p
    <3>1. EndsAt(p) = 0
      BY <2>2 DEF EndsAt
    <3> QED BY <3>1, LensAre
  <2> QED BY <2>1, <2>2
<1>2. EndsAt(p) # 0 => EndsAt(p) \in 1 .. Len(lens)
  BY <1>1, LensAre
<1> QED BY <1>1, <1>2, LensAre

(* What is read as a length is a number.                                   *)
LEMMA LengthsAreInts ==
  ASSUME lens \in Seq(RecLens), NEW p, NEW n \in RecLengths(p)
  PROVE  n \in Int
<1>1. ASSUME NEW m \in Nat PROVE Decode(m) \in Int
  <2> DEFINE low == IF charSigned /\ m % Base >= Base \div 2 THEN Base ELSE 0
             high == IF charSigned /\ m \div Base >= Base \div 2 THEN Base * Base ELSE 0
  <2>1. Base \in Nat /\ Base * Base \in Nat
    BY LsAssumption
  <2>2. low \in Nat /\ high \in Nat
    BY <2>1
  <2> HIDE DEF low, high
  <2>3. m - low - high \in Int
    BY <2>2
  <2> QED BY <2>3 DEF Decode, low, high
<1>2. CASE EndsAt(p) # 0
  BY <1>1, <1>2, EndsAtIn DEF RecLengths
<1>3. CASE EndsAt(p) = 0
  <2>1. PICK m \in 0 .. Base * Base - 1 : n = Decode(m)
    BY <1>3 DEF RecLengths
  <2> DEFINE most == Base * Base - 1
  <2>2. most \in Int /\ m \in 0 .. most
    BY <2>1, LsAssumption
  <2> HIDE DEF most
  <2>3. m \in Nat
    BY <2>2
  <2> QED BY <1>1, <2>1, <2>3
<1> QED BY <1>2, <1>3

(* Whoever's char has no sign reads every length as it was written.        *)
LEMMA UnsignedIsLegible == ASSUME lens \in Seq(RecLens), ~ charSigned PROVE Legible
BY LensAre DEF Legible, Decode

(***************************************************************************)
(* The scan's invariant: up to the first WLOG_STOP_SCAN what has been      *)
(* handed out are the last records, and what lies before the scan's place, *)
(* kept pieces included, are whole records; when no byte is left to be     *)
(* read, none is left in the buffer.  What lies in the buffer fits into it *)
(* however the scan has gone.                                              *)
(***************************************************************************)
Remaining == Len(lens) - Len(handed)
Wanted == nrecs = 0 \/ recnum < nrecs
Straight == stopped = 0 /\ Legible

Fits ==
  /\ scan = "scan" => cp - offset <= BufSize /\ leftover = 0
  /\ scan = "fill" => offset + leftover <= RecEnd[Len(lens)]

HandedOK ==
  Legible =>
    \A k \in 1 .. Len(handed) :
      stopped = 0 \/ k <= stopped => handed[k] = Len(lens) + 1 - k

PlaceOK ==
  /\ Len(handed) <= Len(lens) /\ scan # "crashed" /\ recnum = Len(handed)
  /\ scan = "scan" => Wanted /\ cp = RecEnd[Remaining]
  /\ scan = "fill" /\ Wanted =>
       /\ offset + leftover = RecEnd[Remaining]
       /\ IF offset = 0 THEN leftover = 0 ELSE leftover < BufSize
  /\ scan = "fill" /\ ~ Wanted => recnum = nrecs
  /\ scan = "done" => Remaining = 0 \/ (nrecs > 0 /\ Len(handed) = nrecs)

LsInv == LsTypeOK /\ Fits /\ HandedOK /\ (Straight => PlaceOK)

(* A log with a byte in it has a record, which fits into the buffer.       *)
LEMMA BufferNotEmpty ==
  ASSUME lens \in Seq(RecLens), RecEnd[Len(lens)] > 0
  PROVE  BufSize \in Nat /\ BufSize > 2
<1>1. Len(lens) # 0
  BY RecEndIs
<1>2. 1 \in 1 .. Len(lens)
  BY <1>1, LensAre
<1>3. lens[1] \in RecLens /\ lens[1] \in Nat /\ lens[1] # 0
  BY <1>2, LensAre
<1>4. lens[1] + 2 <= BufSize /\ BufSize \in Nat
  BY <1>3, LsAssumption
<1> QED BY <1>3, <1>4

LEMMA LsInitInv == LsInit => LsInv
<1> SUFFICES ASSUME LsInit PROVE LsInv
  OBVIOUS
<1>1. lens \in Seq(RecLens) /\ Len(lens) <= MaxRecs
  <2>1. PICK n \in 0 .. MaxRecs : lens \in [1 .. n -> RecLens]
    BY DEF LsInit
  <2>2. n \in Nat /\ n <= MaxRecs
    BY <2>1, LsAssumption
  <2> QED BY <2>1, <2>2, SeqDef, LenProperties
<1>2. Len(lens) \in Nat /\ RecEnd[Len(lens)] \in Nat
  BY <1>1, LensAre, RecEndsGrow
<1>3. handed = <<>> /\ Len(handed) = 0 /\ recnum = 0 /\ leftover = 0 /\ scan = "fill"
      /\ nrecs \in NRecs /\ offset = RecEnd[Len(lens)] /\ cp = offset
      /\ stopped = 0 /\ charSigned \in BOOLEAN
  BY DEF LsInit
<1>4. LsTypeOK
  BY <1>1, <1>2, <1>3, LsAssumption DEF LsTypeOK
<1>5. HandedOK /\ Fits
  BY <1>2, <1>3 DEF HandedOK, Fits
<1>6. Remaining = Len(lens)
  BY <1>2, <1>3 DEF Remaining
<1>7. PlaceOK
  <2>1. offset > 0 => BufSize > 0
    BY <1>1, <1>3, BufferNotEmpty
  <2>2. BufSize \in Nat
    BY LsAssumption
  <2> QED BY <1>2, <1>3, <1>6, <2>1, <2>2, LsAssumption DEF PlaceOK, Wanted
<1> QED BY <1>4, <1>5, <1>7 DEF LsInv

(* What the proofs of the steps begin with.                                *)
LEMMA LsFacts ==
  ASSUME LsInv
  PROVE  /\ lens \in Seq(RecLens) /\ Len(lens) \in Nat /\ Len(lens) <= MaxRecs
         /\ nrecs \in NRecs /\ nrecs \in Nat /\ NRecs \subseteq Nat
         /\ RecEnd[Len(lens)] \in Nat /\ charSigned \in BOOLEAN
         /\ offset \in 0 .. RecEnd[Len(lens)] /\ cp \in offset .. RecEnd[Len(lens)]
         /\ leftover \in 0 .. BufSize /\ recnum \in 0 .. Len(handed)
         /\ handed \in Seq(0 .. MaxRecs) /\ Len(handed) \in Nat
         /\ stopped \in 0 .. Len(handed)
         /\ scan \in {"fill", "scan", "crashed", "done"}
         /\ BufSize \in Nat /\ MaxRecs \in Nat
         /\ offset \in Nat /\ cp \in Nat /\ offset <= cp
<1>1. lens \in Seq(RecLens) /\ handed \in Seq(0 .. MaxRecs)
  BY DEF LsInv, LsTypeOK
<1>2. Len(lens) \in Nat /\ Len(handed) \in Nat /\ RecEnd[Len(lens)] \in Nat
  BY <1>1, LensAre, RecEndsGrow, LenProperties
<1>3. nrecs \in NRecs /\ NRecs \subseteq Nat /\ BufSize \in Nat /\ MaxRecs \in Nat
  BY LsAssumption DEF LsInv, LsTypeOK
<1>4. offset \in 0 .. RecEnd[Len(lens)] /\ cp \in offset .. RecEnd[Len(lens)]
  BY DEF LsInv, LsTypeOK
<1> QED BY <1>1, <1>2, <1>3, <1>4 DEF LsInv, LsTypeOK

(***************************************************************************)
(* As long as the scan goes straight: the record that ends where it is,    *)
(* and what of the log is left.                                            *)
(***************************************************************************)
LEMMA AtARecord ==
  ASSUME LsInv, Straight, scan = "scan"
  PROVE  /\ EndsAt(cp) = Remaining /\ Remaining \in 0 .. Len(lens)
         /\ Remaining = 0 => cp = 0 /\ offset = 0
         /\ Remaining # 0 =>
              /\ lens[Remaining] \in RecLens /\ lens[Remaining] \in Nat
              /\ lens[Remaining] + 2 <= BufSize /\ lens[Remaining] <= RecMax
              /\ RecLengths(cp) = {lens[Remaining]}
              /\ cp - (lens[Remaining] + 2) = RecEnd[Remaining - 1]
              /\ RecEnd[Remaining - 1] \in Nat
<1>1. /\ lens \in Seq(RecLens) /\ cp = RecEnd[Remaining] /\ Len(lens) \in Nat
      /\ Len(handed) \in Nat /\ Remaining \in 0 .. Len(lens) /\ cp \in Nat
      /\ offset \in Nat /\ offset <= cp
  <2>1. cp = RecEnd[Remaining] /\ Len(handed) <= Len(lens)
    BY DEF LsInv, PlaceOK
  <2> QED BY <2>1, LsFacts DEF Remaining
<1>2. EndsAt(cp) = Remaining
  BY <1>1, EndsAtIs
<1>3. CASE Remaining = 0
  <2>1. cp = 0
    BY <1>1, <1>3, RecEndIs
  <2> QED BY <1>1, <1>2, <1>3, <2>1
<1>4. CASE Remaining # 0
  <2>1. Remaining \in 1 .. Len(lens) /\ Remaining - 1 \in 0 .. Len(lens)
    BY <1>1, <1>4
  <2>2. RecEnd[Remaining] = RecEnd[Remaining - 1] + lens[Remaining] + 2
    BY <1>1, <2>1, RecEndIs
  <2>3. RecEnd[Remaining - 1] \in Nat /\ lens[Remaining] \in RecLens /\ lens[Remaining] \in Nat
    BY <1>1, <2>1, RecEndsGrow, LensAre
  <2>4. Decode(lens[Remaining]) = lens[Remaining]
    BY <2>1 DEF Straight, Legible
  <2>5. RecLengths(cp) = {lens[Remaining]}
    BY <1>2, <1>4, <2>4 DEF RecLengths
  <2>6. lens[Remaining] + 2 <= BufSize /\ lens[Remaining] <= RecMax
    BY <2>3, LsAssumption
  <2> QED BY <1>1, <1>2, <1>4, <2>2, <2>3, <2>5, <2>6
<1> QED BY <1>3, <1>4

(* No step changes the log, the char or what was asked for.                *)
LEMMA LsStays ==
  ASSUME \/ UNCHANGED lsVars
         \/ Fill
         \/ \E n : Keep(n) \/ Crash(n) \/ \E stop \in BOOLEAN : Hand(n, stop)
  PROVE  /\ lens' = lens /\ RecEnd' = RecEnd /\ nrecs' = nrecs
         /\ charSigned' = charSigned /\ (Legible' <=> Legible)
<1>1. lens' = lens /\ nrecs' = nrecs /\ charSigned' = charSigned
  BY DEF lsVars, Fill, Keep, Crash, Hand
<1> QED BY <1>1, RecEndStays DEF Legible, Decode

LEMMA FillStep == ASSUME LsInv, Fill PROVE LsInv'
<1>1. /\ lens' = lens /\ RecEnd' = RecEnd /\ nrecs' = nrecs
      /\ charSigned' = charSigned /\ (Legible' <=> Legible)
  BY LsStays
<1>2. /\ scan = "fill" /\ recnum' = recnum /\ handed' = handed /\ stopped' = stopped
      /\ (Straight' <=> Straight) /\ Remaining' = Remaining /\ (Wanted' <=> Wanted)
  BY <1>1 DEF Fill, Straight, Remaining, Wanted
<1>3. HandedOK'
  BY <1>1, <1>2 DEF LsInv, HandedOK
<1>4. Straight => PlaceOK
  BY DEF LsInv
<1>5. CASE Wanted /\ offset > 0
  <2>1. /\ offset' = FillFrom /\ cp' = offset + leftover /\ leftover' = 0
        /\ scan' = "scan"
    BY <1>5 DEF Fill, Wanted
  <2>2. offset + leftover <= RecEnd[Len(lens)] /\ BufSize > 0
    <3>1. RecEnd[Len(lens)] > 0
      BY <1>5, LsFacts
    <3> QED BY <1>2, <3>1, LsFacts, BufferNotEmpty DEF LsInv, Fits
  <2> DEFINE from == offset'
             end == cp'
             all == RecEnd[Len(lens)]
  <2>3. /\ from \in Nat /\ from <= offset /\ end - from <= BufSize
        /\ end = offset + leftover
    <3>1. offset \in Nat /\ leftover \in 0 .. BufSize /\ BufSize \in Nat
      BY LsFacts
    <3>2. from = IF offset + leftover < BufSize THEN 0
                 ELSE offset - (BufSize - leftover)
      BY <2>1 DEF FillFrom
    <3>3. end = offset + leftover
      BY <2>1
    <3> HIDE DEF from, end
    <3>4. CASE offset + leftover < BufSize
      BY <3>1, <3>2, <3>3, <3>4
    <3>5. CASE ~ (offset + leftover < BufSize)
      BY <3>1, <3>2, <3>3, <3>5
    <3> QED BY <3>4, <3>5
  <2>4. from \in 0 .. all /\ end \in from .. all /\ end - from <= BufSize
    <3>1. /\ offset \in Nat /\ leftover \in Nat /\ offset <= all /\ all \in Nat
      <4>1. offset \in Nat /\ offset \in 0 .. all /\ all \in Nat /\ leftover \in Nat
        BY LsFacts
      <4> HIDE DEF all
      <4> QED BY <4>1
    <3>2. offset + leftover <= all
      BY <2>2
    <3> HIDE DEF from, end, all
    <3> QED BY <2>3, <3>1, <3>2
  <2>5. LsTypeOK' /\ Fits'
    <3>1. offset' \in 0 .. RecEnd'[Len(lens')] /\ cp' \in offset' .. RecEnd'[Len(lens')]
      BY <1>1, <2>4
    <3>2. leftover' \in 0 .. BufSize
      BY <2>1, LsFacts
    <3>3. /\ recnum' \in 0 .. Len(handed') /\ stopped' \in 0 .. Len(handed')
          /\ handed' \in Seq(0 .. MaxRecs)
          /\ scan' \in {"fill", "scan", "crashed", "done"}
      BY <1>2, <2>1, LsFacts
    <3>4. /\ lens' \in Seq(RecLens) /\ Len(lens') <= MaxRecs /\ nrecs' \in NRecs
          /\ charSigned' \in BOOLEAN
      BY <1>1, LsFacts
    <3>5. LsTypeOK'
      BY <3>1, <3>2, <3>3, <3>4 DEF LsTypeOK
    <3>6. Fits'
      BY <2>1, <2>4 DEF Fits
    <3> QED BY <3>5, <3>6
  <2>6. Straight => PlaceOK'
    <3> SUFFICES ASSUME Straight PROVE PlaceOK'
      OBVIOUS
    <3>1. offset + leftover = RecEnd[Remaining]
      BY <1>2, <1>4, <1>5 DEF PlaceOK
    <3> QED BY <1>1, <1>2, <1>4, <1>5, <2>1, <3>1 DEF PlaceOK
  <2> QED BY <1>2, <1>3, <2>5, <2>6 DEF LsInv
<1>6. CASE ~ (Wanted /\ offset > 0)
  <2>1. scan' = "done" /\ offset' = offset /\ cp' = cp /\ leftover' = leftover
    BY <1>6 DEF Fill, Wanted
  <2>2. LsTypeOK' /\ Fits'
    BY <1>1, <1>2, <2>1, LsFacts DEF LsTypeOK, Fits
  <2>3. Straight => PlaceOK'
    <3> SUFFICES ASSUME Straight PROVE PlaceOK'
      OBVIOUS
    <3>1. CASE ~ Wanted
      <4>1. nrecs > 0 /\ Len(handed) = nrecs
        BY <1>2, <1>4, <3>1, LsFacts DEF PlaceOK, Wanted
      <4> QED BY <1>1, <1>2, <1>4, <2>1, <4>1 DEF PlaceOK
    <3>2. CASE Wanted
      <4>1. offset = 0
        BY <1>6, <3>2, LsFacts
      <4>2. RecEnd[Remaining] = 0 /\ Remaining \in 0 .. Len(lens)
        BY <1>2, <1>4, <3>2, <4>1, LsFacts DEF PlaceOK, Remaining
      <4>3. Remaining = 0
        BY <4>2, LsFacts, RecEndsGrow
      <4> QED BY <1>1, <1>2, <1>4, <2>1, <4>3 DEF PlaceOK
    <3> QED BY <3>1, <3>2
  <2> QED BY <1>2, <1>3, <2>2, <2>3 DEF LsInv
<1> QED BY <1>5, <1>6

LEMMA KeepStep == ASSUME LsInv, NEW n \in RecLengths(cp), Keep(n) PROVE LsInv'
<1>1. /\ lens' = lens /\ RecEnd' = RecEnd /\ nrecs' = nrecs
      /\ charSigned' = charSigned /\ (Legible' <=> Legible)
  BY LsStays
<1>2. /\ scan = "scan" /\ (cp - offset < 2 \/ ~ (cp - offset >= n + 2))
      /\ leftover' = cp - offset /\ scan' = "fill" /\ offset' = offset /\ cp' = cp
      /\ recnum' = recnum /\ handed' = handed /\ stopped' = stopped
  BY DEF Keep, Whole, Rest
<1>3. HandedOK' /\ (Straight' <=> Straight) /\ Remaining' = Remaining
      /\ (Wanted' <=> Wanted)
  BY <1>1, <1>2 DEF LsInv, HandedOK, Straight, Remaining, Wanted
<1>4. cp - offset \in Nat /\ cp - offset <= BufSize
  BY <1>2, LsFacts DEF LsInv, Fits
<1>5. LsTypeOK'
  <2>1. leftover' \in 0 .. BufSize
    BY <1>2, <1>4, LsFacts
  <2>2. offset' \in 0 .. RecEnd'[Len(lens')] /\ cp' \in offset' .. RecEnd'[Len(lens')]
    BY <1>1, <1>2, LsFacts
  <2>3. /\ recnum' \in 0 .. Len(handed') /\ stopped' \in 0 .. Len(handed')
        /\ handed' \in Seq(0 .. MaxRecs) /\ scan' \in {"fill", "scan", "crashed", "done"}
    BY <1>2, LsFacts
  <2>4. /\ lens' \in Seq(RecLens) /\ Len(lens') <= MaxRecs /\ nrecs' \in NRecs
        /\ charSigned' \in BOOLEAN
    BY <1>1, LsFacts
  <2> QED BY <2>1, <2>2, <2>3, <2>4 DEF LsTypeOK
<1>6. Fits'
  <2> DEFINE all == RecEnd[Len(lens)]
  <2>1. offset \in Nat /\ cp \in Nat /\ all \in Nat /\ cp <= all
    BY LsFacts
  <2> HIDE DEF all
  <2>2. offset + (cp - offset) <= all
    BY <2>1
  <2> QED BY <1>1, <1>2, <2>2 DEF Fits, all
<1>7. Straight => PlaceOK'
  <2> SUFFICES ASSUME Straight PROVE PlaceOK'
    OBVIOUS
  <2>1. PlaceOK
    BY DEF LsInv
  <2>2. IF offset = 0 THEN cp - offset = 0 ELSE cp - offset < BufSize
    <3>1. CASE Remaining = 0
      <4>1. cp = 0 /\ offset = 0
        BY <1>2, <3>1, AtARecord
      <4> QED BY <4>1
    <3>2. CASE Remaining # 0
      <4> DEFINE before == RecEnd[Remaining - 1]
      <4>1. /\ n \in Nat /\ n + 2 <= BufSize /\ before \in Nat
            /\ cp - (n + 2) = before
        BY <1>2, <3>2, AtARecord
      <4>2. cp \in Nat /\ offset \in Nat /\ offset <= cp /\ BufSize \in Nat
        BY LsFacts
      <4> HIDE DEF before
      <4>3. cp - offset < n + 2
        BY <1>2, <4>1, <4>2
      <4>4. offset # 0
        BY <4>1, <4>2, <4>3
      <4> QED BY <4>1, <4>2, <4>3, <4>4
    <3> QED BY <3>1, <3>2
  <2>3. offset' + leftover' = RecEnd'[Remaining'] /\ Wanted' /\ recnum' = Len(handed')
    <3>1. cp = RecEnd[Remaining] /\ Wanted /\ recnum = Len(handed)
      BY <1>2, <2>1 DEF PlaceOK
    <3>2. offset + (cp - offset) = cp
      BY LsFacts
    <3> QED BY <1>1, <1>2, <1>3, <3>1, <3>2
  <2> QED BY <1>1, <1>2, <2>1, <2>2, <2>3 DEF PlaceOK
<1> QED BY <1>3, <1>5, <1>6, <1>7 DEF LsInv

LEMMA CrashStep == ASSUME LsInv, NEW n \in RecLengths(cp), Crash(n) PROVE LsInv'
<1>1. /\ lens' = lens /\ RecEnd' = RecEnd /\ nrecs' = nrecs
      /\ charSigned' = charSigned /\ (Legible' <=> Legible)
  BY LsStays
<1>2. /\ scan = "scan" /\ cp - offset >= 2 /\ (n < 0 \/ n > RecMax)
      /\ scan' = "crashed" /\ offset' = offset /\ cp' = cp /\ leftover' = leftover
      /\ recnum' = recnum /\ handed' = handed /\ stopped' = stopped
  BY DEF Crash
<1>3. LsTypeOK' /\ Fits' /\ HandedOK' /\ (Straight' <=> Straight)
  BY <1>1, <1>2, LsFacts DEF LsInv, LsTypeOK, Fits, HandedOK, Straight
<1>4. ~ Straight
  <2> SUFFICES ASSUME Straight PROVE FALSE
    OBVIOUS
  <2>1. Remaining # 0
    BY <1>2, AtARecord
  <2>2. n \in Nat /\ n <= RecMax /\ RecMax \in Nat
    BY <1>2, <2>1, AtARecord, LsAssumption
  <2> QED BY <1>2, <2>2
<1> QED BY <1>3, <1>4 DEF LsInv

LEMMA HandStep ==
  ASSUME LsInv, NEW n \in RecLengths(cp), NEW stop \in BOOLEAN, Hand(n, stop)
  PROVE  LsInv'
<1> DEFINE rec == IF EndsAt(cp) # 0 /\ n = lens[EndsAt(cp)] THEN EndsAt(cp) ELSE Broken
<1>1. /\ lens' = lens /\ RecEnd' = RecEnd /\ nrecs' = nrecs
      /\ charSigned' = charSigned /\ (Legible' <=> Legible)
  BY LsStays
<1>2. /\ scan = "scan" /\ cp - offset >= 2 /\ cp - offset >= n + 2 /\ n >= 0
      /\ cp' = cp - (n + 2) /\ handed' = Append(handed, rec)
      /\ offset' = offset /\ leftover' = leftover
      /\ recnum' = IF stop THEN recnum ELSE recnum + 1
      /\ stopped' = IF stop /\ stopped = 0 THEN Len(handed) + 1 ELSE stopped
      /\ scan' = IF stop \/ (nrecs > 0 /\ recnum + 1 >= nrecs) THEN "fill" ELSE "scan"
  BY DEF Hand, Whole
<1>3. n \in Int /\ rec \in 0 .. MaxRecs
  <2>1. EndsAt(cp) \in 0 .. MaxRecs
    BY LsFacts, EndsAtIn
  <2> QED BY <2>1, LsFacts, LengthsAreInts DEF Broken
<1> HIDE DEF rec
<1>4. /\ Len(handed') = Len(handed) + 1 /\ handed' \in Seq(0 .. MaxRecs)
      /\ \A k \in 1 .. Len(handed) : handed'[k] = handed[k]
      /\ handed'[Len(handed) + 1] = rec
  BY <1>2, <1>3, LsFacts, AppendProperties
<1>5. cp' \in Nat /\ cp' >= offset /\ cp' <= cp
  <2>1. cp \in Nat /\ offset \in Nat
    BY LsFacts
  <2> QED BY <1>2, <1>3, <2>1
<1>6. LsTypeOK'
  <2>1. recnum' \in 0 .. Len(handed')
    <3>1. recnum \in 0 .. Len(handed) /\ Len(handed) \in Nat
      BY LsFacts
    <3>2. recnum' = recnum \/ recnum' = recnum + 1
      BY <1>2
    <3> QED BY <1>4, <3>1, <3>2
  <2>2. stopped' \in 0 .. Len(handed')
    <3>1. stopped \in 0 .. Len(handed) /\ Len(handed) \in Nat
      BY LsFacts
    <3>2. stopped' = stopped \/ stopped' = Len(handed) + 1
      BY <1>2
    <3> QED BY <1>4, <3>1, <3>2
  <2>3. offset' \in 0 .. RecEnd'[Len(lens')] /\ cp' \in offset' .. RecEnd'[Len(lens')]
    BY <1>1, <1>2, <1>5, LsFacts
  <2>4. scan' \in {"fill", "scan", "crashed", "done"}
    BY <1>2
  <2> QED BY <1>1, <1>2, <1>4, <2>1, <2>2, <2>3, <2>4, LsFacts DEF LsTypeOK
<1>7. Fits'
  <2>1. cp - offset <= BufSize /\ leftover = 0
    BY <1>2 DEF LsInv, Fits
  <2>2. cp' - offset <= BufSize
    BY <1>5, <2>1, LsFacts
  <2>3. offset + leftover <= RecEnd[Len(lens)]
    BY <2>1, LsFacts
  <2>4. leftover' = 0 /\ offset' = offset /\ scan' \in {"fill", "scan"}
    BY <1>2, <2>1
  <2> QED BY <1>1, <2>1, <2>2, <2>3, <2>4 DEF Fits
<1>8. Straight =>
        /\ Remaining \in 1 .. Len(lens) /\ rec = Remaining
        /\ cp' = RecEnd[Remaining - 1] /\ recnum = Len(handed)
        /\ Remaining = Len(lens) - Len(handed) /\ Remaining' = Remaining - 1
  <2> SUFFICES ASSUME Straight
               PROVE  /\ Remaining \in 1 .. Len(lens) /\ rec = Remaining
                      /\ cp' = RecEnd[Remaining - 1] /\ recnum = Len(handed)
                      /\ Remaining = Len(lens) - Len(handed)
                      /\ Remaining' = Remaining - 1
    OBVIOUS
  <2>1. Remaining # 0
    <3>1. Remaining = 0 => cp = 0 /\ offset = 0
      BY <1>2, AtARecord
    <3> QED BY <1>2, <3>1
  <2>2. /\ Remaining \in 1 .. Len(lens) /\ n = lens[Remaining]
        /\ EndsAt(cp) = Remaining /\ cp' = RecEnd[Remaining - 1]
    <3>1. /\ RecLengths(cp) = {lens[Remaining]} /\ EndsAt(cp) = Remaining
          /\ cp - (lens[Remaining] + 2) = RecEnd[Remaining - 1]
          /\ Remaining \in 0 .. Len(lens)
      BY <1>2, <2>1, AtARecord
    <3>2. n = lens[Remaining]
      BY <3>1
    <3>3. Remaining \in 1 .. Len(lens)
      BY <2>1, <3>1, LsFacts
    <3> QED BY <1>2, <3>1, <3>2, <3>3
  <2>3. rec = Remaining
    BY <2>1, <2>2 DEF rec
  <2>4. recnum = Len(handed)
    BY DEF LsInv, PlaceOK
  <2>5. Remaining = Len(lens) - Len(handed) /\ Remaining' = Remaining - 1
    BY <1>1, <1>4, LsFacts DEF Remaining
  <2> QED BY <2>2, <2>3, <2>4, <2>5
<1>9. HandedOK'
  <2> SUFFICES ASSUME Legible, NEW k \in 1 .. Len(handed'),
                      stopped' = 0 \/ k <= stopped'
               PROVE  handed'[k] = Len(lens) + 1 - k
    BY <1>1 DEF HandedOK
  <2>1. CASE k <= Len(handed)
    <3>1. k \in 1 .. Len(handed) /\ (stopped = 0 \/ k <= stopped)
      BY <1>2, <2>1, LsFacts
    <3> QED BY <1>4, <3>1 DEF LsInv, HandedOK
  <2>2. CASE k > Len(handed)
    <3>1. k = Len(handed) + 1
      BY <1>4, <2>2, LsFacts
    <3>2. stopped = 0
      BY <1>2, <3>1, LsFacts
    <3>3. Straight
      BY <3>2 DEF Straight
    <3> QED BY <1>4, <1>8, <3>1, <3>3, LsFacts
  <2> QED BY <1>4, <2>1, <2>2, LsFacts
<1>10. Straight' => PlaceOK'
  <2> SUFFICES ASSUME Straight' PROVE PlaceOK'
    OBVIOUS
  <2>1. Straight /\ ~ stop
    <3>1. stopped' = 0 /\ Legible
      BY <1>1 DEF Straight
    <3>2. stopped = 0 /\ ~ stop
      BY <1>2, <3>1, LsFacts
    <3> QED BY <3>1, <3>2 DEF Straight
  <2>2. /\ recnum' = Len(handed') /\ recnum' = recnum + 1 /\ recnum \in Nat
        /\ Len(handed') <= Len(lens')
    <3>1. /\ recnum' = recnum + 1 /\ recnum = Len(handed) /\ Len(handed) \in Nat
          /\ Len(lens) - Len(handed) \in 1 .. Len(lens) /\ Len(lens) \in Nat
      BY <1>2, <1>8, <2>1, LsFacts
    <3> QED BY <1>1, <1>4, <3>1
  <2>3. cp' = RecEnd'[Remaining']
    BY <1>1, <1>8, <2>1
  <2>4. Wanted
    BY <1>2, <2>1 DEF LsInv, PlaceOK
  <2>5. CASE nrecs > 0 /\ recnum + 1 >= nrecs
    <3>1. scan' = "fill" /\ ~ Wanted' /\ recnum' = nrecs
      BY <1>1, <1>2, <2>2, <2>4, <2>5, LsFacts DEF Wanted
    <3> QED BY <1>1, <2>2, <3>1 DEF PlaceOK
  <2>6. CASE ~ (nrecs > 0 /\ recnum + 1 >= nrecs)
    <3>1. scan' = "scan" /\ Wanted'
      BY <1>1, <1>2, <2>1, <2>2, <2>6, LsFacts DEF Wanted
    <3> QED BY <2>2, <2>3, <3>1 DEF PlaceOK
  <2> QED BY <2>5, <2>6
<1> QED BY <1>6, <1>7, <1>9, <1>10 DEF LsInv

LEMMA NextLsInv == LsInv /\ [LsNext]_lsVars => LsInv'
<1> SUFFICES ASSUME LsInv, [LsNext]_lsVars PROVE LsInv'
  OBVIOUS
<1>1. CASE UNCHANGED lsVars
  <2>1. RecEnd' = RecEnd /\ (Legible' <=> Legible)
    BY <1>1, LsStays
  <2>2. LsTypeOK' /\ Fits' /\ HandedOK' /\ (Straight' <=> Straight)
    BY <1>1, <2>1 DEF lsVars, LsInv, LsTypeOK, Fits, HandedOK, Straight
  <2>3. PlaceOK => PlaceOK'
    BY <1>1, <2>1 DEF lsVars, PlaceOK, Remaining, Wanted
  <2> QED BY <2>2, <2>3 DEF LsInv
<1>2. CASE Fill
  BY <1>2, FillStep
<1>3. ASSUME NEW n \in RecLengths(cp), Keep(n) PROVE LsInv'
  BY <1>3, KeepStep
<1>4. ASSUME NEW n \in RecLengths(cp), Crash(n) PROVE LsInv'
  BY <1>4, CrashStep
<1>5. ASSUME NEW n \in RecLengths(cp), NEW stop \in BOOLEAN, Hand(n, stop)
      PROVE  LsInv'
  BY <1>5, HandStep
<1> QED BY <1>1, <1>2, <1>3, <1>4, <1>5 DEF LsNext

LEMMA LsInvariant == LsInit /\ [][LsNext]_lsVars => []LsInv
BY LsInitInv, NextLsInv, PTL

LEMMA LsInvTells == LsInv => LsTypeOK /\ HandsBackwards
<1> SUFFICES ASSUME LsInv PROVE LsTypeOK /\ HandsBackwards
  OBVIOUS
<1>1. LsTypeOK
  BY DEF LsInv
<1>2. ASSUME Legible PROVE /\ stopped = 0 => scan # "crashed"
                           /\ stopped = 0 /\ scan = "done" /\ Len(handed) < Len(lens)
                              => nrecs > 0 /\ Len(handed) = nrecs
  BY <1>2, LsFacts DEF LsInv, Straight, PlaceOK, Remaining
<1>3. HandedOK
  BY DEF LsInv
<1> QED BY <1>1, <1>2, <1>3 DEF HandedOK, HandsBackwards

(***************************************************************************)
(* Every reachable state of the scan has its types: its places stay in the *)
(* log, and what it keeps fits into the buffer, also where it has gone on  *)
(* after WLOG_STOP_SCAN or has misread a length.                           *)
(***************************************************************************)
THEOREM LsTypeCorrect == LsSpec => []LsTypeOK
BY LsInvTells, LsInvariant, PTL DEF LsSpec

(***************************************************************************)
(* wlog_scan_backward() hands out whole records, the last one first, each  *)
(* once, until it is told to stop, for logs of any length and records of   *)
(* any lengths, wherever the buffers cut the log, provided that a record   *)
(* fits into the buffer and that its length reads back as it was written.  *)
(***************************************************************************)
THEOREM HandsBackwardsCorrect == LsSpec => []HandsBackwards
BY LsInvTells, LsInvariant, PTL DEF LsSpec

(***************************************************************************)
(* The scan gets on, whatever it takes for lengths and also after it was   *)
(* told to stop: a read begins nearer to the beginning of the log, a       *)
(* record leaves less of the buffer, and what is kept makes room for a     *)
(* read, unless it fills the buffer: and that it does only after           *)
(* WLOG_STOP_SCAN or when a length was misread.  It is the part of         *)
(* ScanEnds that is not fairness.                                          *)
(***************************************************************************)
GetsOn ==
  \/ offset' < offset
  \/ offset' = offset /\ cp' < cp
  \/ /\ offset' = offset /\ cp' = cp
     /\ \/ scan = "scan" /\ scan' \in {"fill", "crashed"}
        \/ scan = "fill" /\ scan' = "done"
  \/ scan = "fill" /\ Stuck

THEOREM ScanGetsOn == LsSpec => [][GetsOn]_lsVars
<1>1. LsInv /\ LsNext => GetsOn
  <2> SUFFICES ASSUME LsInv, LsNext PROVE GetsOn
    OBVIOUS
  <2>1. CASE Fill
    <3>1. CASE Wanted /\ offset > 0
      <4>1. offset' = FillFrom /\ scan = "fill"
        BY <2>1, <3>1 DEF Fill, Wanted
      <4>2. CASE leftover < BufSize
        BY <3>1, <4>1, <4>2, LsFacts DEF FillFrom, GetsOn
      <4>3. CASE ~ (leftover < BufSize)
        <5>1. leftover = BufSize
          BY <4>3, LsFacts
        <5>2. ~ Straight
          BY <3>1, <4>1, <4>3, LsFacts DEF LsInv, PlaceOK
        <5> QED BY <4>1, <5>1, <5>2 DEF Straight, Stuck, GetsOn
      <4> QED BY <4>2, <4>3
    <3>2. CASE ~ (Wanted /\ offset > 0)
      BY <2>1, <3>2 DEF Fill, Wanted, GetsOn
    <3> QED BY <3>1, <3>2
  <2>2. ASSUME NEW n, Keep(n) \/ Crash(n) PROVE GetsOn
    BY <2>2 DEF Keep, Crash, GetsOn
  <2>3. ASSUME NEW n \in RecLengths(cp), NEW stop \in BOOLEAN, Hand(n, stop)
        PROVE  GetsOn
    <3>1. scan = "scan" /\ cp' = cp - (n + 2) /\ offset' = offset /\ n >= 0
      BY <2>3 DEF Hand
    <3>2. n \in Int
      BY LsFacts, LengthsAreInts
    <3> QED BY <3>1, <3>2, LsFacts DEF GetsOn
  <2> QED BY <2>1, <2>2, <2>3 DEF LsNext
<1> QED BY <1>1, LsInitInv, NextLsInv, PTL DEF LsSpec

=============================================================================
