-------------------------- MODULE DKGCeremony_proofs --------------------------
(***************************************************************************)
(* Theorems about DKGCeremony, for any number of parties, any threshold    *)
(* and any choice of generators: the wizards move in step (Lockstep), no   *)
(* two parties keep a number, and no phase lacks an input, over the relay  *)
(* and offline.                                                            *)
(*                                                                         *)
(* A page only counts what it has: barriers over the relay, blobs offline. *)
(* The proof turns a count into a statement about the other pages.  Every  *)
(* barrier and every public blob carries the number of a page that has     *)
(* reached its phase, and no two that are counted carry the same number;   *)
(* N of them, among N numbers, are one of every page.  GatherInv says that *)
(* what a page counted for a phase that it left it still has.              *)
(***************************************************************************)
EXTENDS DKGCeremony, FiniteSetTheorems, TLAPS

CeremonyTypes ==
  /\ transport \in {"relay", "offline"}
  /\ step \in [Pages -> 0 .. 5]
  /\ myPartyId \in [Pages -> Pages]
  /\ made \in [Pages -> SUBSET (0 .. 5)]
  /\ DOMAIN collected = Pages
  /\ barriers \in [Pages -> SUBSET ((1 .. 4) \X Pages)]
  /\ \A m \in net : m.to \in Pages

\* A page computes its part of no phase before it enters it.
MadeInv ==
  \A p \in Pages :
    /\ \A k \in made[p] : k <= step[p]
    /\ step[p] >= 1 => 0 \in made[p]

\* Nobody has started before the creator has a session; a session config
\* waits for a page that has not started.
StartInv ==
  /\ made[Creator] = {} => \A p \in Pages : step[p] = 0 /\ made[p] = {}
  /\ \A m \in net : m.blob.kind = "config" =>
       m.to # Creator /\ step[m.to] = 0 /\ made[Creator] # {}
  /\ \A m, o \in net :
       (m.blob.kind = "config" /\ o.blob.kind = "config" /\ m.to = o.to) => m = o

NumberInv ==
  /\ myPartyId[Creator] = Creator
  /\ Relay => \A p \in Pages : step[p] >= 1 => myPartyId[p] = p

BarrierInv ==
  /\ \A p \in Pages : \A b \in barriers[p] : step[b[2]] >= b[1]
  /\ \A m \in net : m.blob.kind = "barrier" =>
       m.blob.phase \in 1 .. 4 /\ m.blob.from \in Pages /\ step[m.blob.from] >= m.blob.phase

PublicPhases == {1, 2, 4}

\* Offline: whose number a public blob carries, and that it counts once.
BlobInv ==
  Offline =>
    /\ net = {}
    /\ \A p \in Pages, k \in PublicPhases : \A b \in Collected(p, PublicKind[k]) :
         b.by \in Pages /\ b.from = myPartyId[b.by] /\ step[b.by] >= k
    /\ \A p \in Pages, k \in PublicPhases : \A b, c \in Collected(p, PublicKind[k]) :
         b.from = c.from => b = c

\* What the third phase needs, in which pages do not wait for one another,
\* and what keeps numbers from being picked once they have been used.
RevealInv ==
  \A p, q \in Pages :
    (step[p] >= 2 => step[q] >= 1) /\ (step[p] >= 3 => step[q] >= 2)

CeremonyInv ==
  CeremonyTypes /\ MadeInv /\ StartInv /\ NumberInv /\ BarrierInv /\ BlobInv /\ RevealInv

-----------------------------------------------------------------------------
LEMMA PagesFinite == IsFiniteSet(Pages) /\ Cardinality(Pages) = N /\ Pages \subseteq Nat
<1>1. N \in Nat /\ 0 \in Int /\ N - 1 \in Int /\ N >= 2
  BY CeremonyAssumption
<1>2. IsFiniteSet(0 .. N - 1) /\ Cardinality(0 .. N - 1) = IF 0 > N - 1 THEN 0 ELSE (N - 1) - 0 + 1
  BY <1>1, FS_Interval
<1> QED
  BY <1>1, <1>2 DEF Pages

LEMMA CreatorIsPage == Creator \in Pages
  BY CeremonyAssumption DEF Creator, Pages

\* As many things as a finite set has members, each carrying another of
\* them, carry them all.
LEMMA Covering ==
  ASSUME NEW C, IsFiniteSet(C), NEW S, NEW f \in [S -> C],
         Cardinality(S) >= Cardinality(C),
         \A x, y \in S : f[x] = f[y] => x = y
  PROVE  \A q \in C : \E x \in S : f[x] = q
<1>1. f \in Injection(S, C)
  BY DEF Injection, IsInjective
<1>2. IsFiniteSet(S) /\ Cardinality(S) <= Cardinality(C)
  BY <1>1, FS_Injection
<1>3. Cardinality(S) = Cardinality(C)
  BY <1>2, FS_CardinalityType
<1>4. f \in Surjection(S, C)
  BY <1>1, <1>3, FS_Injection
<1> QED
  BY <1>4 DEF Surjection

\* N things that carry different numbers of pages carry all of them.
LEMMA AllCounted ==
  ASSUME NEW S, NEW f \in [S -> Pages], Cardinality(S) >= N,
         \A x, y \in S : f[x] = f[y] => x = y
  PROVE  \A q \in Pages : \E x \in S : f[x] = q
  BY PagesFinite, Covering

-----------------------------------------------------------------------------
\* Over the relay, N barriers of a phase are one of every page.
LEMMA BarriersOfAll ==
  ASSUME CeremonyInv, Relay, NEW p \in Pages, NEW k \in 1 .. 4, Passed(p, k)
  PROVE  \A q \in Pages : <<k, q>> \in barriers[p]
<1> DEFINE S == {b \in barriers[p] : b[1] = k}
           f == [b \in S |-> b[2]]
<1>1. Cardinality(S) >= N
  BY DEF Passed
<1>2. \A b \in S : b \in (1 .. 4) \X Pages /\ b[1] = k
  BY DEF CeremonyInv, CeremonyTypes
<1>3. f \in [S -> Pages]
  BY <1>2
<1>4. \A b, c \in S : f[b] = f[c] => b = c
  BY <1>2
<1>5. \A q \in Pages : \E b \in S : f[b] = q
  <2> HIDE DEF S, f
  <2> QED
    BY <1>1, <1>3, <1>4, AllCounted
<1>6. ASSUME NEW q \in Pages, NEW b \in S, f[b] = q PROVE <<k, q>> \in barriers[p]
  <2>1. b = <<b[1], b[2]>> /\ b[1] = k /\ b[2] = q
    BY <1>2, <1>6
  <2> QED
    BY <2>1
<1> QED
  BY <1>5, <1>6

LEMMA RelayedPhaseReached ==
  ASSUME CeremonyInv, Relay, NEW p \in Pages, NEW k \in 1 .. 4, Passed(p, k)
  PROVE  \A q \in Pages : step[q] >= k
<1>1. ASSUME NEW q \in Pages PROVE <<k, q>>[1] = k /\ <<k, q>>[2] = q
  OBVIOUS
<1> QED
  BY <1>1, BarriersOfAll DEF CeremonyInv, BarrierInv

\* Offline, N public blobs carry all numbers, and so come from all pages.
LEMMA CarriedPhaseReached ==
  ASSUME CeremonyInv, Offline, NEW p \in Pages, NEW k \in PublicPhases,
         Complete(p, PublicKind[k])
  PROVE  /\ \A q \in Pages : step[q] >= k
         /\ \A q, r \in Pages : myPartyId[q] = myPartyId[r] => q = r
<1> DEFINE S == Collected(p, PublicKind[k])
           f == [b \in S |-> b.from]
<1>1. \A b \in S : b.by \in Pages /\ b.from = myPartyId[b.by] /\ step[b.by] >= k
  BY DEF CeremonyInv, BlobInv
<1>2. \A b, c \in S : b.from = c.from => b = c
  BY DEF CeremonyInv, BlobInv
<1>3. Cardinality(S) >= N
  BY CeremonyAssumption DEF Complete, Count
<1> HIDE DEF S
<1>4. f \in [S -> Pages]
  BY <1>1 DEF CeremonyInv, CeremonyTypes
<1>5. \A i \in Pages : \E b \in S : f[b] = i
  <2>1. \A b, c \in S : f[b] = f[c] => b = c
    BY <1>2
  <2> HIDE DEF f
  <2> QED
    BY <2>1, <1>3, <1>4, AllCounted
<1> DEFINE maker == [i \in Pages |-> (CHOOSE b \in S : b.from = i).by]
<1>6. \A i \in Pages : maker[i] \in Pages /\ myPartyId[maker[i]] = i /\ step[maker[i]] >= k
  BY <1>1, <1>5
<1>7. maker \in [Pages -> Pages]
  BY <1>6
<1>8. \A q \in Pages : \E i \in Pages : maker[i] = q
  <2>1. \A i, j \in Pages : maker[i] = maker[j] => i = j
    BY <1>6
  <2>2. Cardinality(Pages) >= N
    BY PagesFinite, CeremonyAssumption
  <2> HIDE DEF maker
  <2> QED
    BY <2>1, <2>2, <1>7, AllCounted
<1> QED
  BY <1>6, <1>8

\* Whoever may leave a phase but the third knows that everybody is in it.
LEMMA PhaseReached ==
  ASSUME CeremonyInv, NEW p \in Pages, NEW k \in 1 .. 4, k # 3, Passed(p, k)
  PROVE  \A q \in Pages : step[q] >= k
<1>1. CASE Relay
  BY <1>1, RelayedPhaseReached
<1>2. CASE Offline
  <2>1. k \in PublicPhases /\ PhaseReady(p, k)
    BY <1>2 DEF Passed, Relay, Offline, PublicPhases
  <2>2. CASE k = 1
    BY <2>1, <2>2, CarriedPhaseReached, <1>2 DEF PhaseReady, PublicKind
  <2>3. CASE k = 2
    BY <2>1, <2>3, CarriedPhaseReached, <1>2 DEF PhaseReady, PublicKind
  <2>4. CASE k = 4
    BY <2>1, <2>4, CarriedPhaseReached, <1>2 DEF PhaseReady, PublicKind
  <2> QED
    BY <2>1, <2>2, <2>3, <2>4 DEF PublicPhases
<1> QED
  BY <1>1, <1>2 DEF CeremonyInv, CeremonyTypes, Relay, Offline

-----------------------------------------------------------------------------
LEMMA InitCeremonyInv == Init => CeremonyInv
<1> SUFFICES ASSUME Init PROVE CeremonyInv
  OBVIOUS
<1> USE CreatorIsPage DEF Init
<1>1. CeremonyTypes
  BY PagesFinite DEF CeremonyTypes, Creator
<1>2. MadeInv /\ StartInv /\ RevealInv
  BY DEF MadeInv, StartInv, RevealInv
<1>3. NumberInv /\ BarrierInv
  BY DEF NumberInv, BarrierInv, Creator
<1>4. BlobInv
  BY DEF BlobInv, Collected
<1> QED
  BY <1>1, <1>2, <1>3, <1>4 DEF CeremonyInv

\* The blobs offline pages hold stay right while what they say only grows.
LEMMA BlobsKept ==
  ASSUME CeremonyInv, UNCHANGED <<transport, collected, net>>,
         \A q \in Pages : step'[q] >= step[q],
         \A q \in Pages : step[q] >= 1 => myPartyId'[q] = myPartyId[q],
         step' \in [Pages -> 0 .. 5]
  PROVE  BlobInv'
<1> SUFFICES ASSUME Offline
             PROVE  /\ net' = {}
                    /\ \A p \in Pages, k \in PublicPhases : \A b \in Collected(p, PublicKind[k]) :
                         b.by \in Pages /\ b.from = myPartyId'[b.by] /\ step'[b.by] >= k
                    /\ \A p \in Pages, k \in PublicPhases : \A b, c \in Collected(p, PublicKind[k]) :
                         b.from = c.from => b = c
  BY DEF BlobInv, Offline, Collected
<1>1. \A q \in Pages : step[q] \in 0 .. 5 /\ step'[q] \in 0 .. 5
  BY DEF CeremonyInv, CeremonyTypes
<1>2. \A k \in PublicPhases : k \in Nat /\ k >= 1
  BY DEF PublicPhases
<1> QED
  BY <1>1, <1>2 DEF CeremonyInv, BlobInv

\* A page starts: from the first step to the second.
LEMMA Starting ==
  ASSUME CeremonyInv, NEW p \in Pages, step[p] = 0, 0 \in made'[p],
         step' = [step EXCEPT ![p] = 1],
         made' \in [Pages -> SUBSET (0 .. 5)],
         \A k \in made'[p] : k <= 1,
         \A q \in Pages \ {p} : made'[q] = made[q] /\ myPartyId'[q] = myPartyId[q],
         myPartyId' \in [Pages -> Pages], myPartyId'[Creator] = Creator,
         Relay => myPartyId'[p] = p,
         made[Creator] # {},
         \A m \in net' : m.blob.kind = "config" => m.to # p,
         net' \subseteq net, UNCHANGED <<transport, collected, barriers>>,
         Offline => net' = net
  PROVE  CeremonyInv'
<1>1. \A q \in Pages : step[q] \in 0 .. 5 /\ step'[q] \in 0 .. 5 /\ step'[q] >= step[q]
  BY DEF CeremonyInv, CeremonyTypes
<1>2. CeremonyTypes'
  BY <1>1 DEF CeremonyInv, CeremonyTypes
<1>3. MadeInv'
  BY <1>1 DEF CeremonyInv, CeremonyTypes, MadeInv
<1>4. StartInv'
  <2>1. made'[Creator] # {}
    BY CreatorIsPage
  <2>2. \A m \in net' : m.blob.kind = "config" => m.to # Creator /\ step'[m.to] = 0
    BY DEF CeremonyInv, CeremonyTypes, StartInv
  <2>3. \A m, o \in net' :
          (m.blob.kind = "config" /\ o.blob.kind = "config" /\ m.to = o.to) => m = o
    BY DEF CeremonyInv, StartInv
  <2> QED
    BY <2>1, <2>2, <2>3 DEF StartInv
<1>5. NumberInv'
  BY DEF CeremonyInv, CeremonyTypes, NumberInv, Relay
<1>6. BarrierInv'
  BY <1>1 DEF CeremonyInv, CeremonyTypes, BarrierInv
<1>7. BlobInv'
  <2>1. CASE Offline
    BY <2>1, <1>1, <1>2, BlobsKept DEF CeremonyTypes
  <2>2. CASE ~Offline
    BY <2>2 DEF BlobInv, Offline
  <2> QED
    BY <2>1, <2>2
<1>8. RevealInv'
  BY <1>1 DEF CeremonyInv, CeremonyTypes, RevealInv
<1> QED
  BY <1>2, <1>3, <1>4, <1>5, <1>6, <1>7, <1>8 DEF CeremonyInv

\* A page leaves a phase for the next.
LEMMA Advancing ==
  ASSUME CeremonyInv, NEW p \in Pages, NEW k \in 1 .. 4, Advance(p, k)
  PROVE  /\ CeremonyInv'
         /\ \A q \in Pages : step[q] >= k - (IF k = 3 THEN 1 ELSE 0)
<1>1. /\ step[p] = k /\ Passed(p, k)
      /\ step' = [step EXCEPT ![p] = k + 1]
      /\ UNCHANGED <<transport, myPartyId, made, collected, barriers, net>>
  BY DEF Advance
<1>2. \A q \in Pages : step[q] \in 0 .. 5 /\ step'[q] \in 0 .. 5 /\ step'[q] >= step[q]
  BY <1>1 DEF CeremonyInv, CeremonyTypes
<1>3. \A q \in Pages : step[q] >= k - (IF k = 3 THEN 1 ELSE 0)
  <2>1. CASE k = 3
    BY <2>1, <1>1, <1>2 DEF CeremonyInv, RevealInv
  <2>2. CASE k # 3
    BY <2>2, <1>1, <1>2, PhaseReached
  <2> QED
    BY <2>1, <2>2
<1>4. CeremonyTypes'
  BY <1>1, <1>2 DEF CeremonyInv, CeremonyTypes
<1>5. MadeInv'
  BY <1>1, <1>2 DEF CeremonyInv, CeremonyTypes, MadeInv
<1>6. StartInv'
  BY <1>1 DEF CeremonyInv, CeremonyTypes, StartInv
<1>7. NumberInv'
  BY <1>1 DEF CeremonyInv, CeremonyTypes, NumberInv, Relay
<1>8. BarrierInv'
  BY <1>1, <1>2 DEF CeremonyInv, CeremonyTypes, BarrierInv
<1>9. BlobInv'
  BY <1>1, <1>2, <1>4, BlobsKept DEF CeremonyTypes
<1>10. RevealInv'
  BY <1>1, <1>2, <1>3 DEF CeremonyInv, CeremonyTypes, RevealInv
<1> QED
  BY <1>3, <1>4, <1>5, <1>6, <1>7, <1>8, <1>9, <1>10 DEF CeremonyInv

-----------------------------------------------------------------------------
\* What a page makes in a phase: under its own number, and public only in
\* the kind of that phase.
LEMMA OwnBlobs ==
  ASSUME NEW p, NEW k \in 1 .. 4, NEW b \in Own(p, k)
  PROVE  /\ b.by = p /\ b.from = myPartyId[p]
         /\ b.kind # "config" /\ b.kind # "barrier"
         /\ \A j \in PublicPhases : b.kind = PublicKind[j] => j = k
<1>1. ASSUME NEW kind, NEW to, b = Blob(p, kind, to)
      PROVE  b.kind = kind /\ b.by = p /\ b.from = myPartyId[p]
  BY <1>1 DEF Blob
<1>2. CASE b \in Public(p, k)
  BY <1>1, <1>2 DEF Public, PublicKind, PublicPhases
<1>3. CASE b \in Private(p, k)
  <2>1. CASE k = 2
    <3>1. PICK i : b = Blob(p, "p2priv", i)
      BY <1>3, <2>1 DEF Private
    <3> QED
      BY <3>1, <1>1 DEF PublicKind, PublicPhases
  <2>2. CASE k = 3
    <3>1. PICK i : b = Blob(p, "p3priv", i)
      BY <1>3, <2>2 DEF Private
    <3> QED
      BY <3>1, <1>1 DEF PublicKind, PublicPhases
  <2>3. CASE k \in {1, 4}
    BY <1>3, <2>3 DEF Private
  <2> QED
    BY <2>1, <2>2, <2>3
<1> QED
  BY <1>2, <1>3 DEF Own

\* Steps that only send, or take what was sent: the messages say what is so.
LEMMA Relaying ==
  ASSUME CeremonyInv, Relay,
         UNCHANGED <<transport, step, myPartyId, made>>, DOMAIN collected' = Pages,
         barriers' \in [Pages -> SUBSET ((1 .. 4) \X Pages)],
         \A p \in Pages : \A b \in barriers'[p] : step[b[2]] >= b[1],
         \A m \in net' \ net :
           /\ m.to \in Pages /\ m.blob.kind # "config"
           /\ m.blob.kind = "barrier" =>
                /\ m.blob.phase \in 1 .. 4 /\ m.blob.from \in Pages
                /\ step[m.blob.from] >= m.blob.phase
  PROVE  CeremonyInv'
<1>1. CeremonyTypes'
  BY DEF CeremonyInv, CeremonyTypes
<1>2. MadeInv' /\ NumberInv' /\ RevealInv'
  BY DEF CeremonyInv, MadeInv, NumberInv, RevealInv, Relay
<1>3. StartInv' /\ BarrierInv'
  BY DEF CeremonyInv, StartInv, BarrierInv
<1>4. BlobInv'
  BY DEF BlobInv, Relay, Offline
<1> QED
  BY <1>1, <1>2, <1>3, <1>4 DEF CeremonyInv

LEMMA SendPhaseKeeps ==
  ASSUME CeremonyInv, NEW p \in Pages, NEW k \in 1 .. 4, SendPhase(p, k)
  PROVE  CeremonyInv'
<1>1. /\ Relay
      /\ net' = net \cup AddressedMail(p, Own(p, k))
      /\ UNCHANGED <<transport, step, myPartyId, made, collected, barriers>>
  BY DEF SendPhase
<1>2. ASSUME NEW m \in AddressedMail(p, Own(p, k))
      PROVE  m.to \in Pages /\ m.blob.kind # "config" /\ m.blob.kind # "barrier"
  <2>1. m \in Mail(p, Own(p, k))
    BY DEF AddressedMail
  <2>2. PICK q \in Pages, b \in Own(p, k) : m = [to |-> q, blob |-> b]
    BY <2>1 DEF Mail
  <2> QED
    BY <2>2, OwnBlobs
<1> QED
  BY <1>1, <1>2, Relaying DEF CeremonyInv, CeremonyTypes, BarrierInv

LEMMA SendBarrierKeeps ==
  ASSUME CeremonyInv, NEW p \in Pages, NEW k \in 1 .. 4, SendBarrier(p, k)
  PROVE  CeremonyInv'
<1> DEFINE mine == [kind |-> "barrier", phase |-> k, from |-> myPartyId[p]]
<1>1. /\ Relay /\ step[p] = k
      /\ net' = net \cup Mail(p, {mine})
      /\ barriers' = [barriers EXCEPT ![p] = @ \cup {<<k, myPartyId[p]>>}]
      /\ UNCHANGED <<transport, step, myPartyId, made, collected>>
  BY DEF SendBarrier
<1>2. myPartyId[p] = p
  BY <1>1 DEF CeremonyInv, NumberInv
<1>3. mine.kind = "barrier" /\ mine.phase = k /\ mine.from = p
  BY <1>2
<1> HIDE DEF mine
<1>4. \A m \in net' \ net : m.to \in Pages /\ m.blob = mine
  BY <1>1 DEF Mail
<1>5. barriers' \in [Pages -> SUBSET ((1 .. 4) \X Pages)]
  BY <1>1, <1>2 DEF CeremonyInv, CeremonyTypes
<1>6. \A q \in Pages : \A b \in barriers'[q] : step[b[2]] >= b[1]
  BY <1>1, <1>2 DEF CeremonyInv, CeremonyTypes, BarrierInv
<1>7. DOMAIN collected' = Pages
  BY <1>1 DEF CeremonyInv, CeremonyTypes
<1>8. \A m \in net' \ net :
        /\ m.to \in Pages /\ m.blob.kind # "config"
        /\ m.blob.kind = "barrier" =>
             /\ m.blob.phase \in 1 .. 4 /\ m.blob.from \in Pages
             /\ step[m.blob.from] >= m.blob.phase
  <2>1. step[p] >= k
    BY <1>1 DEF CeremonyInv, CeremonyTypes
  <2> QED
    BY <1>3, <1>4, <2>1
<1> QED
  BY ONLY CeremonyInv, <1>1, <1>5, <1>6, <1>7, <1>8, Relaying

\* A page collects blobs of pages that have come to their phase.
LEMMA Collecting ==
  ASSUME CeremonyInv, NEW p \in Pages, NEW new,
         collected' = [collected EXCEPT ![p] = new],
         UNCHANGED <<transport, step, myPartyId, barriers, net>>,
         made' \in [Pages -> SUBSET (0 .. 5)], MadeInv',
         \A q \in Pages : made[q] # {} <=> made'[q] # {},
         Offline => \A k \in PublicPhases :
           /\ \A b \in new : b.kind = PublicKind[k] =>
                b.by \in Pages /\ b.from = myPartyId[b.by] /\ step[b.by] >= k
           /\ \A b, c \in new :
                (b.kind = PublicKind[k] /\ c.kind = PublicKind[k] /\ b.from = c.from) => b = c
  PROVE  CeremonyInv'
<1>1. CeremonyTypes'
  BY DEF CeremonyInv, CeremonyTypes
<1>2. NumberInv' /\ RevealInv' /\ BarrierInv'
  BY DEF CeremonyInv, NumberInv, RevealInv, BarrierInv, Relay
<1>3. StartInv'
  BY CreatorIsPage DEF CeremonyInv, StartInv
<1>4. BlobInv'
  <2> USE DEF CeremonyInv, CeremonyTypes, BlobInv
  <2>1. ASSUME NEW q \in Pages PROVE collected'[q] = IF q = p THEN new ELSE collected[q]
    OBVIOUS
  <2>2. ASSUME Offline PROVE net' = {}
    BY <2>2
  <2>3. ASSUME Offline, NEW q \in Pages, NEW k \in PublicPhases,
               NEW b \in collected'[q], b.kind = PublicKind[k]
        PROVE  b.by \in Pages /\ b.from = myPartyId[b.by] /\ step[b.by] >= k
    BY <2>1, <2>3 DEF Collected
  <2>4. ASSUME Offline, NEW q \in Pages, NEW k \in PublicPhases,
               NEW b \in collected'[q], b.kind = PublicKind[k],
               NEW c \in collected'[q], c.kind = PublicKind[k], b.from = c.from
        PROVE  b = c
    BY <2>1, <2>4 DEF Collected
  <2>5. UNCHANGED <<transport, myPartyId, step>>
    OBVIOUS
  <2> QED
    BY ONLY <2>2, <2>3, <2>4, <2>5 DEF BlobInv, Collected, Offline
<1> QED
  BY <1>1, <1>2, <1>3, <1>4 DEF CeremonyInv

LEMMA ComputeKeeps ==
  ASSUME CeremonyInv, NEW p \in Pages, NEW k \in 1 .. 5, Compute(p, k)
  PROVE  CeremonyInv'
<1> DEFINE kept == {b \in collected[p] : b.kind # PublicKind[k] \/ b.from # myPartyId[p]}
           new == IF k \in PublicPhases THEN kept \cup Public(p, k) ELSE collected[p]
<1>1. /\ step[p] = k
      /\ made' = [made EXCEPT ![p] = @ \cup {k}]
      /\ collected' = [collected EXCEPT ![p] = new]
      /\ UNCHANGED <<transport, step, myPartyId, barriers, net>>
  BY DEF Compute, PublicPhases, CeremonyInv, CeremonyTypes
<1>2. made' \in [Pages -> SUBSET (0 .. 5)] /\ MadeInv'
  BY <1>1 DEF CeremonyInv, CeremonyTypes, MadeInv
<1>3. \A q \in Pages : made[q] # {} <=> made'[q] # {}
  BY <1>1 DEF CeremonyInv, CeremonyTypes, MadeInv
<1>4. ASSUME Offline, NEW j \in PublicPhases, NEW b \in collected[p], b.kind = PublicKind[j]
      PROVE  b.by \in Pages /\ b.from = myPartyId[b.by] /\ step[b.by] >= j
  BY <1>4 DEF CeremonyInv, BlobInv, Collected
<1>5. ASSUME Offline, NEW j \in PublicPhases,
             NEW b \in collected[p], NEW c \in collected[p],
             b.kind = PublicKind[j], c.kind = PublicKind[j], b.from = c.from
      PROVE  b = c
  BY <1>5 DEF CeremonyInv, BlobInv, Collected
<1>6. ASSUME k \in PublicPhases, NEW b \in Public(p, k)
      PROVE  /\ b.by = p /\ b.from = myPartyId[p] /\ b.kind = PublicKind[k]
             /\ \A j \in PublicPhases : b.kind = PublicKind[j] => j = k
             /\ \A c \in Public(p, k) : c = b
  <2>1. k \in 1 .. 4 /\ k # 3
    BY <1>6 DEF PublicPhases
  <2>2. Public(p, k) = {Blob(p, PublicKind[k], All)}
    BY <2>1 DEF Public
  <2>3. b.kind = PublicKind[k]
    BY <2>2, <1>6 DEF Blob
  <2> QED
    BY <2>1, <2>2, <2>3, <1>6, OwnBlobs DEF Own
<1>7. ASSUME Offline, NEW j \in PublicPhases, NEW b \in new, b.kind = PublicKind[j]
      PROVE  b.by \in Pages /\ b.from = myPartyId[b.by] /\ step[b.by] >= j
  <2>1. CASE b \in collected[p]
    BY <2>1, <1>7, <1>4
  <2>2. CASE k \in PublicPhases /\ b \in Public(p, k)
    BY <2>2, <1>7, <1>6, <1>1 DEF PublicPhases
  <2> QED
    BY <2>1, <2>2, <1>7
<1>8. ASSUME Offline, NEW j \in PublicPhases, NEW b \in new, NEW c \in new,
             b.kind = PublicKind[j], c.kind = PublicKind[j], b.from = c.from
      PROVE  b = c
  <2>1. CASE b \in collected[p] /\ c \in collected[p]
    BY <2>1, <1>8, <1>5
  <2>2. CASE k \in PublicPhases /\ (b \notin collected[p] \/ c \notin collected[p])
    <3>1. b \in kept \cup Public(p, k) /\ c \in kept \cup Public(p, k)
      BY <2>2
    <3>2. b \in Public(p, k) \/ c \in Public(p, k)
      BY <2>2, <3>1
    <3>3. j = k
      BY <2>2, <3>2, <1>6, <1>8
    <3>4. b \in Public(p, k) /\ c \in Public(p, k)
      BY <2>2, <3>1, <3>2, <3>3, <1>6, <1>8
    <3> QED
      BY <2>2, <3>4, <1>6
  <2> QED
    BY <2>1, <2>2
<1> HIDE DEF new
<1>9. Offline => \A j \in PublicPhases :
        /\ \A b \in new : b.kind = PublicKind[j] =>
             b.by \in Pages /\ b.from = myPartyId[b.by] /\ step[b.by] >= j
        /\ \A b, c \in new :
             (b.kind = PublicKind[j] /\ c.kind = PublicKind[j] /\ b.from = c.from) => b = c
  BY ONLY <1>7, <1>8
<1> QED
  BY ONLY CeremonyInv, <1>1, <1>2, <1>3, <1>9, Collecting

LEMMA PasteKeeps ==
  ASSUME CeremonyInv, NEW p \in Pages, Paste(p)
  PROVE  CeremonyInv'
<1>1. PICK q \in Pages : \E k \in made[q] \ {0, 5} : \E b \in Own(q, k) :
        Acceptable(p, b) /\ Collect(p, b)
  BY DEF Paste
<1>2. PICK k \in made[q] \ {0, 5} : \E b \in Own(q, k) : Acceptable(p, b) /\ Collect(p, b)
  BY <1>1
<1>3. PICK b \in Own(q, k) : Acceptable(p, b) /\ Collect(p, b)
  BY <1>2
<1>4. k \in 1 .. 4 /\ step[q] >= k
  BY DEF CeremonyInv, CeremonyTypes, MadeInv
<1>5. /\ b.by = q /\ b.from = myPartyId[q]
      /\ \A j \in PublicPhases : b.kind = PublicKind[j] => j = k
  BY <1>4, OwnBlobs
<1> DEFINE new == collected[p] \cup {b}
<1>6. /\ collected' = [collected EXCEPT ![p] = new]
      /\ UNCHANGED <<transport, step, myPartyId, made, barriers, net>>
  BY <1>3 DEF Paste, Collect, CeremonyInv, CeremonyTypes
<1>7. made' \in [Pages -> SUBSET (0 .. 5)] /\ MadeInv'
  BY <1>6 DEF CeremonyInv, CeremonyTypes, MadeInv
<1>8. ASSUME Offline, NEW j \in PublicPhases, NEW c \in new, c.kind = PublicKind[j]
      PROVE  c.by \in Pages /\ c.from = myPartyId[c.by] /\ step[c.by] >= j
  <2>1. CASE c \in collected[p]
    BY <2>1, <1>8 DEF CeremonyInv, BlobInv, Collected
  <2>2. CASE c = b
    BY <2>2, <1>8, <1>4, <1>5
  <2> QED
    BY <2>1, <2>2
<1>9. ASSUME Offline, NEW j \in PublicPhases, NEW c \in new, NEW d \in new,
             c.kind = PublicKind[j], d.kind = PublicKind[j], c.from = d.from
      PROVE  c = d
  <2>1. CASE c \in collected[p] /\ d \in collected[p]
    BY <2>1, <1>9 DEF CeremonyInv, BlobInv, Collected
  <2>2. CASE c \notin collected[p] \/ d \notin collected[p]
    <3>1. \A e \in collected[p] : e.kind = b.kind => e.from # b.from
      BY <1>3 DEF Acceptable, From, Collected
    <3> QED
      BY <2>2, <3>1, <1>9
  <2> QED
    BY <2>1, <2>2
<1> HIDE DEF new
<1>10. Offline => \A j \in PublicPhases :
        /\ \A c \in new : c.kind = PublicKind[j] =>
             c.by \in Pages /\ c.from = myPartyId[c.by] /\ step[c.by] >= j
        /\ \A c, d \in new :
             (c.kind = PublicKind[j] /\ d.kind = PublicKind[j] /\ c.from = d.from) => c = d
  BY ONLY <1>8, <1>9
<1> QED
  BY ONLY CeremonyInv, <1>6, <1>7, <1>10, Collecting

\* The creator makes its session, and over the relay tells the others.
LEMMA CreateSessionKeeps ==
  ASSUME CeremonyInv, CreateSession
  PROVE  CeremonyInv'
<1> DEFINE config == [kind |-> "config"]
<1>1. /\ made[Creator] = {}
      /\ made' = [made EXCEPT ![Creator] = {0}]
      /\ net' = net \/ (Relay /\ net' = net \cup Mail(Creator, {config}))
      /\ Offline => net' = net
      /\ UNCHANGED <<transport, step, myPartyId, collected, barriers>>
  BY DEF CreateSession, Relay, Offline
<1>2. /\ \A m \in net' \ net : m.to \in Pages \ {Creator} /\ m.blob = config
      /\ \A m, o \in net' \ net : m.to = o.to => m = o
  <2>1. \A m \in net' \ net : \E q \in Pages \ {Creator} : m = [to |-> q, blob |-> config]
    BY <1>1 DEF Mail
  <2> QED
    BY <2>1
<1>3. \A q \in Pages : step[q] = 0
  BY <1>1 DEF CeremonyInv, StartInv
<1>4. CeremonyTypes'
  <2>1. \A m \in net' : m.to \in Pages
    BY <1>2 DEF CeremonyInv, CeremonyTypes
  <2>2. made' \in [Pages -> SUBSET (0 .. 5)]
    <3>1. {0} \in SUBSET (0 .. 5)
      OBVIOUS
    <3>2. made \in [Pages -> SUBSET (0 .. 5)]
      BY DEF CeremonyInv, CeremonyTypes
    <3> QED
      BY ONLY <1>1, <3>1, <3>2
  <2> QED
    BY <1>1, <2>1, <2>2 DEF CeremonyInv, CeremonyTypes
<1>5. MadeInv'
  BY <1>1, <1>3, CreatorIsPage DEF CeremonyInv, CeremonyTypes, MadeInv
<1>6. StartInv'
  <2>1. made'[Creator] # {}
    BY <1>1, CreatorIsPage DEF CeremonyInv, CeremonyTypes
  <2>2. \A m \in net : m.blob.kind # "config"
    BY <1>1 DEF CeremonyInv, StartInv
  <2> QED
    BY <1>1, <1>2, <1>3, <2>1, <2>2 DEF StartInv
<1>7. NumberInv' /\ RevealInv'
  BY <1>1 DEF CeremonyInv, NumberInv, RevealInv, Relay
<1>8. BarrierInv'
  BY <1>1, <1>2 DEF CeremonyInv, BarrierInv
<1>9. BlobInv'
  <2>1. CASE Offline
    BY <2>1, <1>1, <1>4, BlobsKept DEF CeremonyInv, CeremonyTypes
  <2>2. CASE ~Offline
    BY <2>2, <1>1 DEF BlobInv, Offline
  <2> QED
    BY <2>1, <2>2
<1> QED
  BY <1>4, <1>5, <1>6, <1>7, <1>8, <1>9 DEF CeremonyInv

\* Offline, a number is given or picked before anything is made under it.
LEMMA Numbering ==
  ASSUME CeremonyInv, Offline, NEW p \in Pages, p # Creator, step[p] = 0,
         NEW i \in Pages, myPartyId' = [myPartyId EXCEPT ![p] = i],
         made' = made \/ (made[Creator] # {} /\ made' = [made EXCEPT ![p] = {0}]),
         UNCHANGED <<transport, step, collected, barriers, net>>
  PROVE  CeremonyInv'
<1>1. CeremonyTypes'
  BY DEF CeremonyInv, CeremonyTypes
<1>2. MadeInv'
  BY DEF CeremonyInv, CeremonyTypes, MadeInv
<1>3. StartInv' /\ BarrierInv' /\ RevealInv'
  BY CreatorIsPage DEF CeremonyInv, CeremonyTypes, StartInv, BarrierInv, RevealInv
<1>4. NumberInv'
  BY CreatorIsPage DEF CeremonyInv, CeremonyTypes, NumberInv, Relay, Offline
<1>5. \A q \in Pages : step'[q] >= step[q]
  BY DEF CeremonyInv, CeremonyTypes
<1>6. \A q \in Pages : step[q] >= 1 => myPartyId'[q] = myPartyId[q]
  BY DEF CeremonyInv, CeremonyTypes
<1>7. BlobInv'
  BY <1>1, <1>5, <1>6, BlobsKept DEF CeremonyTypes
<1> QED
  BY <1>1, <1>2, <1>3, <1>4, <1>7 DEF CeremonyInv

LEMMA NumberingKeeps ==
  ASSUME CeremonyInv, NEW p \in Pages, LoadSession(p) \/ PickNumber(p)
  PROVE  CeremonyInv'
<1>1. CASE LoadSession(p)
  <2>1. 1 \in Pages
    BY CeremonyAssumption DEF Pages
  <2>2. step[p] = 0
    BY <1>1 DEF LoadSession, CeremonyInv, CeremonyTypes, MadeInv
  <2> QED
    BY <1>1, <2>1, <2>2, Numbering DEF LoadSession
<1>2. CASE PickNumber(p)
  BY <1>2, Numbering DEF PickNumber
<1> QED
  BY <1>1, <1>2

LEMMA StartKeeps ==
  ASSUME CeremonyInv, NEW p \in Pages, (p = Creator /\ StartCreator) \/ StartJoiner(p)
  PROVE  CeremonyInv' /\ step' = [step EXCEPT ![p] = 1] /\ step[p] = 0
<1>1. /\ step[p] = 0 /\ 0 \in made[p]
      /\ step' = [step EXCEPT ![p] = 1]
      /\ UNCHANGED <<transport, myPartyId, made, collected, barriers, net>>
      /\ p = Creator \/ Offline
  BY DEF StartCreator, StartJoiner
<1>2. made[Creator] # {}
  BY <1>1, CreatorIsPage DEF StartCreator, StartJoiner, CeremonyInv, StartInv
<1>3. \A m \in net' : m.blob.kind = "config" => m.to # p
  BY <1>1, <1>2 DEF CeremonyInv, StartInv, BlobInv
<1>4. CeremonyInv'
  <2>1. /\ myPartyId[Creator] = Creator
        /\ Relay => myPartyId[p] = p
    BY <1>1 DEF CeremonyInv, NumberInv, Relay, Offline
  <2>2. /\ made \in [Pages -> SUBSET (0 .. 5)]
        /\ myPartyId \in [Pages -> Pages]
        /\ \A k \in made[p] : k <= 1
    BY <1>1 DEF CeremonyInv, CeremonyTypes, MadeInv
  <2> QED
    BY <1>1, <1>2, <1>3, <2>1, <2>2, Starting
<1> QED
  BY <1>1, <1>4

\* The relay delivers, or loses, a message.
LEMMA DeliverKeeps ==
  ASSUME CeremonyInv, NEW m \in net, Deliver(m)
  PROVE  /\ CeremonyInv'
         /\ UNCHANGED step \/ \E p \in Pages : step[p] = 0 /\ step' = [step EXCEPT ![p] = 1]
<1> DEFINE p == m.to
<1>1. /\ p \in Pages /\ Relay
      /\ net' = net \ {m}
      /\ UNCHANGED transport
  BY DEF Deliver, CeremonyInv, CeremonyTypes, BlobInv, Relay, Offline
<1>2. CASE m.blob.kind = "config"
  <2>1. /\ made' = [made EXCEPT ![p] = {0}]
        /\ myPartyId' = [myPartyId EXCEPT ![p] = p]
        /\ step' = [step EXCEPT ![p] = 1]
        /\ UNCHANGED <<collected, barriers>>
    BY <1>2 DEF Deliver, ReceiveConfig
  <2>2. /\ p # Creator /\ step[p] = 0 /\ made[Creator] # {}
        /\ \A o \in net' : o.blob.kind = "config" => o.to # p
    BY <1>1, <1>2 DEF CeremonyInv, StartInv
  <2>3. /\ made' \in [Pages -> SUBSET (0 .. 5)] /\ made'[p] = {0}
        /\ myPartyId' \in [Pages -> Pages] /\ myPartyId'[p] = p
        /\ myPartyId'[Creator] = Creator
        /\ \A q \in Pages \ {p} : made'[q] = made[q] /\ myPartyId'[q] = myPartyId[q]
    <3>1. {0} \in SUBSET (0 .. 5)
      OBVIOUS
    <3> HIDE DEF p
    <3> QED
      BY <1>1, <2>1, <2>2, <3>1, CreatorIsPage DEF CeremonyInv, CeremonyTypes, NumberInv
  <2>4. Relay /\ ~Offline
    BY <1>1 DEF Relay, Offline
  <2>5. /\ 0 \in made'[p] /\ \A k \in made'[p] : k <= 1
        /\ net' \subseteq net
    BY <1>1, <2>3
  <2> HIDE DEF p
  <2>6. CeremonyInv'
    BY ONLY CeremonyInv, <1>1, <2>1, <2>2, <2>3, <2>4, <2>5, Starting
  <2> QED
    BY <1>1, <2>1, <2>2, <2>6
<1>3. CASE m.blob.kind = "barrier"
  <2>1. /\ barriers' = [barriers EXCEPT ![p] = @ \cup {<<m.blob.phase, m.blob.from>>}]
        /\ UNCHANGED <<step, myPartyId, made, collected>>
    BY <1>3 DEF Deliver
  <2>2. /\ m.blob.phase \in 1 .. 4 /\ m.blob.from \in Pages
        /\ step[m.blob.from] >= m.blob.phase
    BY <1>3 DEF CeremonyInv, BarrierInv
  <2> DEFINE new == <<m.blob.phase, m.blob.from>>
  <2>3. new \in (1 .. 4) \X Pages /\ step[new[2]] >= new[1]
    BY <2>2
  <2> HIDE DEF new, p
  <2>4. barriers' \in [Pages -> SUBSET ((1 .. 4) \X Pages)]
    BY <2>1, <2>3 DEF CeremonyInv, CeremonyTypes, new
  <2>5. \A q \in Pages : \A b \in barriers'[q] : step[b[2]] >= b[1]
    BY <2>1, <2>3 DEF CeremonyInv, CeremonyTypes, BarrierInv, new
  <2>6. DOMAIN collected' = Pages
    BY <2>1 DEF CeremonyInv, CeremonyTypes
  <2> QED
    BY <1>1, <2>1, <2>4, <2>5, <2>6, Relaying
<1>4. CASE m.blob.kind \notin {"config", "barrier"}
  <2>1. UNCHANGED <<step, myPartyId, made, barriers>> /\ DOMAIN collected' = Pages
    BY <1>4 DEF Deliver, Collect, CeremonyInv, CeremonyTypes
  <2>2. /\ barriers' \in [Pages -> SUBSET ((1 .. 4) \X Pages)]
        /\ \A q \in Pages : \A b \in barriers'[q] : step[b[2]] >= b[1]
    BY <2>1 DEF CeremonyInv, CeremonyTypes, BarrierInv
  <2>3. net' \ net = {} /\ UNCHANGED transport /\ Relay
    BY <1>1
  <2>4. CeremonyInv'
    BY ONLY CeremonyInv, <2>1, <2>2, <2>3, Relaying
  <2> QED
    BY <2>1, <2>4
<1> QED
  BY <1>2, <1>3, <1>4

LEMMA LoseKeeps ==
  ASSUME CeremonyInv, NEW m \in net, Lose(m)
  PROVE  CeremonyInv'
<1>1. /\ net' = net \ {m} /\ Relay
      /\ UNCHANGED <<transport, step, myPartyId, made, collected, barriers>>
  BY DEF Lose, pageVars, CeremonyInv, CeremonyTypes, BlobInv, Relay, Offline
<1>2. /\ barriers \in [Pages -> SUBSET ((1 .. 4) \X Pages)] /\ DOMAIN collected = Pages
      /\ \A q \in Pages : \A b \in barriers[q] : step[b[2]] >= b[1]
  BY DEF CeremonyInv, CeremonyTypes, BarrierInv
<1> QED
  BY <1>1, <1>2, Relaying

\* Every step keeps the invariant, and moves nobody or one page: from the
\* start, or from a phase that everybody has reached.
LEMMA CeremonyStep ==
  ASSUME CeremonyInv, [Next]_vars
  PROVE  CeremonyInv' /\ (UNCHANGED step \/ Barrier!Next)
<1> DEFINE Goes(p, k) ==
      /\ step[p] = k /\ step' = [step EXCEPT ![p] = k + 1]
      /\ \A q \in Pages : step[q] >= k - (IF k = 3 THEN 1 ELSE 0)
<1>1. ASSUME NEW p \in Pages, NEW k \in 0 .. 4, Goes(p, k)
      PROVE  Barrier!Next
  <2>1. \A q \in Pages : step[q] >= step[p] - Barrier!Lag(step[p])
    BY <1>1 DEF Barrier!Lag
  <2>2. Barrier!Advance(p)
    BY <1>1, <2>1 DEF Barrier!Advance
  <2> QED
    BY <2>2 DEF Barrier!Next
<1>2. ASSUME NEW p \in Pages, step[p] = 0, step' = [step EXCEPT ![p] = 1]
      PROVE  Goes(p, 0)
  BY <1>2 DEF CeremonyInv, CeremonyTypes
<1>3. ASSUME NEW p \in Pages, NEW k \in 1 .. 4, Advance(p, k)
      PROVE  CeremonyInv' /\ Goes(p, k)
  BY <1>3, Advancing DEF Advance
<1> HIDE DEF Goes
<1>4. ASSUME NEW p \in Pages, NEW k \in 1 .. 5, Compute(p, k)
      PROVE  CeremonyInv' /\ UNCHANGED step
  BY <1>4, ComputeKeeps DEF Compute
<1>5. ASSUME NEW p \in Pages, NEW k \in 1 .. 4, SendPhase(p, k) \/ SendBarrier(p, k)
      PROVE  CeremonyInv' /\ UNCHANGED step
  BY <1>5, SendPhaseKeeps, SendBarrierKeeps DEF SendPhase, SendBarrier
<1>6. ASSUME NEW p \in Pages, LoadSession(p) \/ PickNumber(p)
      PROVE  CeremonyInv' /\ UNCHANGED step
  BY <1>6, NumberingKeeps DEF LoadSession, PickNumber
<1>7. ASSUME NEW p \in Pages, Paste(p)
      PROVE  CeremonyInv' /\ UNCHANGED step
  BY <1>7, PasteKeeps DEF Paste, Collect
<1>8. ASSUME NEW p \in Pages, StartJoiner(p)
      PROVE  CeremonyInv' /\ Barrier!Next
  BY <1>8, <1>1, <1>2, StartKeeps
<1>9. CASE StartCreator
  BY <1>9, <1>1, <1>2, StartKeeps, CreatorIsPage
<1>10. CASE CreateSession
  BY <1>10, CreateSessionKeeps DEF CreateSession
<1>11. ASSUME NEW m \in net, Deliver(m)
       PROVE  CeremonyInv' /\ (UNCHANGED step \/ Barrier!Next)
  BY <1>11, <1>1, <1>2, DeliverKeeps
<1>12. ASSUME NEW m \in net, Lose(m)
       PROVE  CeremonyInv' /\ UNCHANGED step
  BY <1>12, LoseKeeps DEF Lose, pageVars
<1>13. CASE UNCHANGED vars
  <2>1. UNCHANGED <<transport, step, myPartyId, made, collected, barriers, net>>
    BY <1>13 DEF vars, pageVars
  <2> QED
    BY <2>1 DEF CeremonyInv, CeremonyTypes, MadeInv, StartInv, NumberInv, BarrierInv,
                BlobInv, RevealInv, Relay, Offline, Collected
<1>14. ASSUME NEW p \in Pages, Page(p)
       PROVE  CeremonyInv' /\ (UNCHANGED step \/ Barrier!Next)
  BY <1>14, <1>1, <1>3, <1>4, <1>5, <1>6, <1>7, <1>8 DEF Page
<1> QED
  BY <1>9, <1>10, <1>11, <1>12, <1>13, <1>14 DEF Next, Progress

\* Numbers are distinct from the moment somebody leaves the commitments.
LEMMA NumbersStep ==
  ASSUME CeremonyInv, NumbersDistinct, [Next]_vars
  PROVE  NumbersDistinct'
<1>1. ASSUME \A p \in Pages : step'[p] > 1 => \E q \in Pages : step[q] > 1,
             \A p \in Pages : step[p] >= 1 => myPartyId'[p] = myPartyId[p]
      PROVE  NumbersDistinct'
  <2> SUFFICES ASSUME NEW q \in Pages, step[q] > 1
               PROVE  \A p, r \in Pages : p # r => myPartyId'[p] # myPartyId'[r]
    BY <1>1 DEF NumbersDistinct
  <2>1. \A p \in Pages : step[p] >= 1
    BY DEF CeremonyInv, CeremonyTypes, RevealInv
  <2> QED
    BY <1>1, <2>1 DEF NumbersDistinct
<1>2. CASE UNCHANGED <<step, myPartyId>>
  BY <1>2, <1>1
<1>3. ASSUME NEW p \in Pages, NEW k \in 1 .. 4, Advance(p, k)
      PROVE  NumbersDistinct'
  <2>1. /\ step[p] = k /\ Passed(p, k) /\ UNCHANGED myPartyId
        /\ step' = [step EXCEPT ![p] = k + 1]
    BY <1>3 DEF Advance
  <2>2. CASE k > 1
    <3>1. \A q \in Pages : step'[q] > 1 => \E r \in Pages : step[r] > 1
      BY <2>1, <2>2
    <3> QED
      BY <2>1, <3>1, <1>1
  <2>3. CASE k = 1 /\ Relay
    <3>1. \A q \in Pages : step[q] >= 1
      BY <2>1, <2>3, RelayedPhaseReached
    <3> QED
      BY <2>1, <2>3, <3>1 DEF CeremonyInv, NumberInv, NumbersDistinct
  <2>4. CASE k = 1 /\ Offline
    <3>1. Complete(p, PublicKind[1]) /\ 1 \in PublicPhases
      BY <2>1, <2>4 DEF Passed, PhaseReady, PublicKind, PublicPhases, Relay, Offline
    <3> QED
      BY <2>1, <2>4, <3>1, CarriedPhaseReached DEF NumbersDistinct
  <2> QED
    BY <2>2, <2>3, <2>4 DEF CeremonyInv, CeremonyTypes, Relay, Offline
<1>4. ASSUME NEW p \in Pages, step[p] = 0, step'[p] \in {0, 1},
             \A q \in Pages \ {p} : step'[q] = step[q] /\ myPartyId'[q] = myPartyId[q]
      PROVE  NumbersDistinct'
  <2>1. \A q \in Pages : step'[q] > 1 => step[q] > 1
    BY <1>4 DEF CeremonyInv, CeremonyTypes
  <2>2. \A q \in Pages : step[q] >= 1 => myPartyId'[q] = myPartyId[q]
    BY <1>4 DEF CeremonyInv, CeremonyTypes
  <2> QED
    BY <2>1, <2>2, <1>1
<1> USE DEF CeremonyInv, CeremonyTypes
<1>5. ASSUME NEW p \in Pages, LoadSession(p) \/ PickNumber(p) \/ StartJoiner(p)
      PROVE  NumbersDistinct'
  <2>1. step[p] = 0
    BY <1>5 DEF LoadSession, PickNumber, StartJoiner, MadeInv
  <2>2. step'[p] \in {0, 1} /\ \A q \in Pages \ {p} : step'[q] = step[q] /\ myPartyId'[q] = myPartyId[q]
    BY <1>5, <2>1 DEF LoadSession, PickNumber, StartJoiner
  <2> QED
    BY <2>1, <2>2, <1>4
<1>6. CASE StartCreator
  <2>1. step[Creator] = 0 /\ step'[Creator] \in {0, 1}
    BY <1>6, CreatorIsPage DEF StartCreator
  <2>2. \A q \in Pages \ {Creator} : step'[q] = step[q] /\ myPartyId'[q] = myPartyId[q]
    BY <1>6 DEF StartCreator
  <2> QED
    BY <2>1, <2>2, <1>4, CreatorIsPage
<1>7. ASSUME NEW m \in net, Deliver(m)
      PROVE  NumbersDistinct'
  <2>1. CASE m.blob.kind = "config"
    <3>1. ReceiveConfig(m.to) /\ step[m.to] = 0 /\ m.to \in Pages
      BY <1>7, <2>1 DEF Deliver, StartInv
    <3>2. step'[m.to] \in {0, 1} /\ \A q \in Pages \ {m.to} :
            step'[q] = step[q] /\ myPartyId'[q] = myPartyId[q]
      BY <3>1 DEF ReceiveConfig
    <3> QED
      BY <3>1, <3>2, <1>4
  <2>2. CASE m.blob.kind # "config"
    BY <1>7, <2>2, <1>2 DEF Deliver, Collect
  <2> QED
    BY <2>1, <2>2
<1>8. CASE CreateSession \/ (\E m \in net : Lose(m)) \/ UNCHANGED vars
  BY <1>8, <1>2 DEF CreateSession, Lose, vars, pageVars
<1>9. ASSUME NEW p \in Pages, Paste(p) \/ (\E k \in 1 .. 5 : Compute(p, k))
             \/ (\E k \in 1 .. 4 : SendPhase(p, k) \/ SendBarrier(p, k))
      PROVE  NumbersDistinct'
  BY <1>9, <1>2 DEF Paste, Collect, Compute, SendPhase, SendBarrier
<1> QED
  BY <1>3, <1>5, <1>6, <1>7, <1>8, <1>9 DEF Next, Progress, Page

(* DKGWizard.tsx, the party select: however people pick and change their   *)
(* numbers offline, two that have picked the same one do not get past the  *)
(* commitments - for any number of parties, over either transport.         *)
THEOREM NumbersStayDistinct == Spec => []NumbersDistinct
<1>1. Init => CeremonyInv /\ NumbersDistinct
  BY InitCeremonyInv DEF Init, NumbersDistinct
<1>2. CeremonyInv /\ NumbersDistinct /\ [Next]_vars => CeremonyInv' /\ NumbersDistinct'
  BY CeremonyStep, NumbersStep
<1> QED
  BY <1>1, <1>2, PTL DEF Spec

(* DKGWizard.tsx: whatever blobs and barriers arrive in which order, are   *)
(* lost, or are pasted how often, a page leaves a phase only when all have *)
(* reached it (the reveals: the phase before) - for any number of parties, *)
(* any threshold and any choice of generators, over either transport.      *)
THEOREM CeremonyInLockstep == Spec => RefinesLockstep
<1>1. Init => CeremonyInv /\ Barrier!Init
  BY InitCeremonyInv DEF Init, Barrier!Init
<1>2. CeremonyInv /\ [Next]_vars => CeremonyInv' /\ [Barrier!Next]_step
  BY CeremonyStep
<1> QED
  BY <1>1, <1>2, PTL DEF Spec, RefinesLockstep, Barrier!Spec
-----------------------------------------------------------------------------
(* What a page has when it has counted enough. *)

PrivateKinds == {"p2priv", "p3priv"}

\* A blob says whose it is; a private one is for somebody who can use it.
GoodBlob(b) ==
  /\ b.from \in Pages
  /\ b.kind \in PrivateKinds => b.to \in Pages
  /\ b.kind = "p2priv" => b.to \in CoHolders[b.from]
  /\ b.kind = "p3priv" => b.from \in generators

\* What dkgPhase2 ... dkgFinalize ask for, of the phase that has been left.
Gathered(p, k) ==
  /\ k = 1 => 1 \in made[p] /\ From(p, "p1") = Pages
  /\ k = 2 => From(p, "p2pub") = Pages /\ CoHolders[myPartyId[p]] \subseteq From(p, "p2priv")
  /\ k = 3 => 3 \in made[p] /\ Others(p, generators) \subseteq From(p, "p3priv")
  /\ k = 4 => From(p, "p4") = Pages

\* Blobs count once, and private ones are the page's own: it was given no
\* other number after it took one.
InboxInv ==
  \A p \in Pages : \A b \in collected[p] :
    /\ GoodBlob(b)
    /\ \A c \in collected[p] : (b.kind = c.kind /\ b.from = c.from) => b = c
    /\ b.kind \in PrivateKinds =>
         /\ b.to = myPartyId[p] /\ b.from # myPartyId[p]
         /\ step[p] >= 1 \/ p = Creator

MailInv ==
  \A m \in net :
    /\ m.blob.kind = "barrier" => m.blob.from # m.to
    /\ m.blob.kind \notin {"config", "barrier"} =>
         GoodBlob(m.blob) /\ (m.blob.kind \in PrivateKinds => m.blob.to = m.to)

IdleInv == Relay => \A p \in Pages : step[p] = 0 => myPartyId[p] = 0

HeldInv ==
  \A p \in Pages : \A k \in 1 .. 4 :
    (step[p] > k \/ (Relay /\ <<k, p>> \in barriers[p])) => Gathered(p, k)

SentInv ==
  /\ sent \in [Pages -> SUBSET (1 .. 4)] /\ DOMAIN barrierSent = Pages
  /\ \A p \in Pages : barrierSent[p] \subseteq sent[p] /\ sent[p] \subseteq made[p]

GatherInv == generators \subseteq Pages /\ InboxInv /\ MailInv /\ IdleInv /\ HeldInv /\ SentInv

-----------------------------------------------------------------------------
\* Two parties hold a secret together, or do not.
LEMMA CoHoldersMutual ==
  ASSUME NEW i \in Pages
  PROVE  /\ CoHolders[i] \subseteq Pages
         /\ \A j \in Pages : i \in CoHolders[j] => j \in CoHolders[i]
<1>1. ASSUME NEW h \in Pages
      PROVE  \A j : j \in CoHolders[h] <=> j # h /\ \E b \in Bitmasks : h \in b /\ j \in b
  BY <1>1 DEF CoHolders
<1>2. \A b \in Bitmasks : b \subseteq Pages
  BY DEF Bitmasks
<1> QED
  BY <1>1, <1>2

\* As many blobs as there are parties to expect them from, each from
\* another one of these: one from each.
LEMMA CountedAll ==
  ASSUME InboxInv, NEW p \in Pages, NEW kind, NEW C, IsFiniteSet(C),
         From(p, kind) \subseteq C, Count(p, kind) >= Cardinality(C)
  PROVE  C \subseteq From(p, kind)
<1> DEFINE S == Collected(p, kind)
           f == [b \in S |-> b.from]
<1>1. f \in [S -> C]
  BY DEF From
<1>2. \A b, c \in S : f[b] = f[c] => b = c
  BY DEF InboxInv, Collected
<1>3. Cardinality(S) >= Cardinality(C)
  BY DEF Count
<1>4. \A i \in C : \E b \in S : f[b] = i
  <2> HIDE DEF S, f
  <2> QED
    BY <1>1, <1>2, <1>3, Covering
<1> QED
  BY <1>4 DEF From

LEMMA FromPages ==
  ASSUME InboxInv, NEW p \in Pages, NEW kind
  PROVE  From(p, kind) \subseteq Pages
  BY DEF InboxInv, GoodBlob, From, Collected

\* One from each party, and each counted once, are N.
LEMMA OneFromEach ==
  ASSUME InboxInv, NEW p \in Pages, NEW kind, From(p, kind) = Pages
  PROVE  Complete(p, kind)
<1> DEFINE S == Collected(p, kind)
           f == [b \in S |-> b.from]
<1>1. f \in [S -> Pages] /\ \A i \in Pages : \E b \in S : f[b] = i
  BY DEF From
<1>2. \A b, c \in S : f[b] = f[c] => b = c
  BY DEF InboxInv, Collected
<1>3. Cardinality(S) = N
  <2> HIDE DEF S, f
  <2>1. f \in Injection(S, Pages) /\ f \in Surjection(S, Pages)
    BY <1>1, <1>2 DEF Injection, IsInjective, Surjection
  <2>2. IsFiniteSet(S) /\ Cardinality(S) <= N
    BY <2>1, PagesFinite, FS_Injection
  <2>3. Cardinality(Pages) <= Cardinality(S)
    BY <2>1, <2>2, FS_Surjection
  <2> QED
    BY <2>2, <2>3, PagesFinite, FS_CardinalityType, CeremonyAssumption
<1> QED
  BY <1>3 DEF Complete, Count

\* What is counted as ready is what the library asks for.
LEMMA ReadyGathers ==
  ASSUME CeremonyInv, GatherInv, NEW p \in Pages, NEW k \in 1 .. 4,
         PhaseReady(p, k), k \in made[p]
  PROVE  Gathered(p, k)
<1>0. InboxInv /\ generators \subseteq Pages /\ myPartyId[p] \in Pages
  BY DEF GatherInv, CeremonyInv, CeremonyTypes
<1>1. ASSUME NEW kind, Complete(p, kind) PROVE From(p, kind) = Pages
  <2>1. Count(p, kind) >= Cardinality(Pages) /\ From(p, kind) \subseteq Pages
    BY <1>0, <1>1, PagesFinite, FromPages, CeremonyAssumption DEF Complete
  <2> QED
    BY <1>0, <2>1, PagesFinite, CountedAll
<1>2. ASSUME k = 2 PROVE CoHolders[myPartyId[p]] \subseteq From(p, "p2priv")
  <2>1. IsFiniteSet(CoHolders[myPartyId[p]])
    BY <1>0, CoHoldersMutual, PagesFinite, FS_Subset
  <2>2. From(p, "p2priv") \subseteq CoHolders[myPartyId[p]]
    BY <1>0, CoHoldersMutual DEF InboxInv, GoodBlob, PrivateKinds, From, Collected
  <2>3. Count(p, "p2priv") >= Cardinality(CoHolders[myPartyId[p]])
    BY <1>2 DEF PhaseReady
  <2> QED
    BY <1>0, <2>1, <2>2, <2>3, CountedAll
<1>3. ASSUME k = 3 PROVE Others(p, generators) \subseteq From(p, "p3priv")
  <2>1. IsFiniteSet(Others(p, generators))
    BY <1>0, PagesFinite, FS_Subset DEF Others
  <2>2. From(p, "p3priv") \subseteq Others(p, generators)
    BY <1>0 DEF InboxInv, GoodBlob, PrivateKinds, From, Collected, Others
  <2>3. Count(p, "p3priv") >= Cardinality(Others(p, generators))
    BY <1>3 DEF PhaseReady
  <2> QED
    BY <1>0, <2>1, <2>2, <2>3, CountedAll
<1>4. CASE k = 1
  BY <1>1, <1>4 DEF Gathered, PhaseReady
<1>5. CASE k = 2
  BY <1>1, <1>2, <1>5 DEF Gathered, PhaseReady
<1>6. CASE k = 3
  BY <1>3, <1>6 DEF Gathered
<1>7. CASE k = 4
  BY <1>1, <1>7 DEF Gathered, PhaseReady
<1> QED
  BY <1>4, <1>5, <1>6, <1>7

\* Whatever a page needed for a phase that it left, or told the others it
\* was ready to leave, it keeps.
LEMMA HeldKept ==
  ASSUME CeremonyInv, GatherInv, InboxInv', UNCHANGED <<transport, generators>>,
         \A q \in Pages : made[q] \subseteq made'[q],
         \A q \in Pages : \A kind : From(q, kind) \subseteq From(q, kind)',
         \A q \in Pages : step[q] >= 1 => myPartyId'[q] = myPartyId[q],
         \A q \in Pages : \A k \in 1 .. 4 :
           (step'[q] > k \/ (Relay /\ <<k, q>> \in barriers'[q])) =>
             \/ step[q] > k \/ (Relay /\ <<k, q>> \in barriers[q])
             \/ step[q] >= 1 /\ Gathered(q, k)
  PROVE  HeldInv'
<1> SUFFICES ASSUME NEW q \in Pages, NEW k \in 1 .. 4,
                    step'[q] > k \/ (Relay /\ <<k, q>> \in barriers'[q])
             PROVE  Gathered(q, k)'
  BY DEF HeldInv, Relay
<1>1. step[q] >= 1 /\ Gathered(q, k)
  <2>1. ASSUME step[q] > k \/ (Relay /\ <<k, q>> \in barriers[q])
        PROVE  Gathered(q, k)
    BY <2>1, Zenon DEF GatherInv, HeldInv
  <2>2. step[q] \in 0 .. 5
    BY DEF CeremonyInv, CeremonyTypes
  <2>3. CASE step[q] > k
    BY <2>1, <2>2, <2>3
  <2>4. CASE Relay /\ <<k, q>> \in barriers[q]
    <3>1. step[q] >= k
      BY <2>4 DEF CeremonyInv, BarrierInv
    <3> QED
      BY <2>1, <2>2, <2>4, <3>1
  <2>5. \/ step[q] > k \/ (Relay /\ <<k, q>> \in barriers[q])
        \/ step[q] >= 1 /\ Gathered(q, k)
    BY Zenon
  <2> QED
    BY <2>3, <2>4, <2>5, Zenon
<1>2. myPartyId'[q] = myPartyId[q]
  BY <1>1
<1>3. From(q, "p1")' \subseteq Pages /\ From(q, "p2pub")' \subseteq Pages /\ From(q, "p4")' \subseteq Pages
  BY DEF InboxInv, GoodBlob, From, Collected
<1>4. /\ From(q, "p1") \subseteq From(q, "p1")'
      /\ From(q, "p2pub") \subseteq From(q, "p2pub")'
      /\ From(q, "p2priv") \subseteq From(q, "p2priv")'
      /\ From(q, "p3priv") \subseteq From(q, "p3priv")'
      /\ From(q, "p4") \subseteq From(q, "p4")'
  OBVIOUS
<1>5. Others(q, generators)' = Others(q, generators)
  BY <1>2 DEF Others
<1> QED
  BY <1>1, <1>2, <1>3, <1>4, <1>5 DEF Gathered

\* Pages that collect nothing keep what they have.
LEMMA InboxKept ==
  ASSUME CeremonyInv, GatherInv, UNCHANGED <<generators, collected>>,
         \A q \in Pages : step'[q] >= step[q],
         \A q \in Pages : (step[q] >= 1 \/ q = Creator) => myPartyId'[q] = myPartyId[q],
         step' \in [Pages -> 0 .. 5]
  PROVE  /\ InboxInv'
         /\ \A q \in Pages : \A kind : From(q, kind) \subseteq From(q, kind)'
<1>1. InboxInv'
  BY DEF GatherInv, InboxInv, GoodBlob, CeremonyInv, CeremonyTypes
<1>2. \A q \in Pages : \A kind : From(q, kind)' = From(q, kind)
  BY DEF From, Collected
<1> QED
  BY <1>1, <1>2

\* A blob is collected: nobody else's of its kind, and its own if private.
LEMMA InboxTakes ==
  ASSUME CeremonyInv, GatherInv, NEW p \in Pages, NEW b, Acceptable(p, b), GoodBlob(b),
         b.kind \in PrivateKinds => step[p] >= 1 \/ p = Creator,
         collected' = [collected EXCEPT ![p] = @ \cup {b}],
         UNCHANGED <<generators, step, myPartyId>>
  PROVE  /\ InboxInv'
         /\ \A q \in Pages : \A kind : From(q, kind) \subseteq From(q, kind)'
<1>1. \A q \in Pages : collected'[q] = IF q = p THEN collected[p] \cup {b} ELSE collected[q]
  BY DEF CeremonyInv, CeremonyTypes
<1>2. /\ b.from # myPartyId[p]
      /\ \A c \in collected[p] : c.kind = b.kind => c.from # b.from
      /\ b.kind \in PrivateKinds => b.to = myPartyId[p]
  <2>1. All \notin Pages
    BY CeremonyAssumption DEF All, Pages
  <2> QED
    BY <2>1 DEF Acceptable, From, Collected, GoodBlob
<1>3. ASSUME NEW q \in Pages, NEW c \in collected'[q]
      PROVE  /\ GoodBlob(c)
             /\ \A d \in collected'[q] : (c.kind = d.kind /\ c.from = d.from) => c = d
             /\ c.kind \in PrivateKinds =>
                  c.to = myPartyId[q] /\ c.from # myPartyId[q] /\ (step[q] >= 1 \/ q = Creator)
  <2>1. CASE q # p
    BY <2>1, <1>1, <1>3 DEF GatherInv, InboxInv
  <2>2. CASE q = p
    BY <2>2, <1>1, <1>2, <1>3 DEF GatherInv, InboxInv
  <2> QED
    BY <2>1, <2>2
<1>4. InboxInv'
  BY <1>3 DEF InboxInv, GoodBlob
<1>5. ASSUME NEW q \in Pages, NEW kind PROVE From(q, kind) \subseteq From(q, kind)'
  BY <1>1 DEF From, Collected
<1> QED
  BY <1>4, <1>5

\* What a page makes says whose it is and is for somebody who can use it.
LEMMA OwnGood ==
  ASSUME NEW p \in Pages, myPartyId[p] \in Pages, NEW k \in 1 .. 4, NEW b \in Own(p, k)
  PROVE  GoodBlob(b)
<1>1. CASE b \in Public(p, k)
  <2>1. b.kind \in {"p1", "p2pub", "p4"} /\ b.from = myPartyId[p]
    BY <1>1 DEF Public, PublicKind, Blob
  <2> QED
    BY <2>1 DEF GoodBlob, PrivateKinds
<1>2. CASE b \in Private(p, k) /\ k = 2
  <2>1. PICK i \in CoHolders[myPartyId[p]] : b = Blob(p, "p2priv", i)
    BY <1>2 DEF Private
  <2> QED
    BY <2>1, CoHoldersMutual DEF GoodBlob, PrivateKinds, Blob
<1>3. CASE b \in Private(p, k) /\ k = 3
  <2>1. myPartyId[p] \in generators /\ \E i \in Pages : b = Blob(p, "p3priv", i)
    BY <1>3 DEF Private
  <2> QED
    BY <2>1 DEF GoodBlob, PrivateKinds, Blob
<1>4. CASE b \in Private(p, k) /\ k \in {1, 4}
  BY <1>4 DEF Private
<1> QED
  BY <1>1, <1>2, <1>3, <1>4 DEF Own

\* The mail and the marks of a step that sends nothing.
LEMMA MailKept ==
  ASSUME GatherInv, UNCHANGED generators, net' \subseteq net
  PROVE  MailInv'
  BY DEF GatherInv, MailInv, GoodBlob

LEMMA SentKept ==
  ASSUME GatherInv, UNCHANGED <<sent, barrierSent>>,
         \A q \in Pages : made[q] \subseteq made'[q]
  PROVE  SentInv'
  BY DEF GatherInv, SentInv

-----------------------------------------------------------------------------
LEMMA InitGatherInv == Init => GatherInv
<1> SUFFICES ASSUME Init PROVE GatherInv
  OBVIOUS
<1>1. generators \subseteq Pages
  <2>1. PICK g \in [Bitmasks -> Pages] : generators = {g[b] : b \in Bitmasks}
    BY DEF Init, GeneratorSets
  <2> QED
    BY <2>1
<1>2. InboxInv /\ MailInv /\ IdleInv
  BY DEF Init, InboxInv, MailInv, IdleInv
<1>3. HeldInv
  BY DEF Init, HeldInv
<1>4. SentInv
  BY DEF Init, SentInv
<1> QED
  BY <1>1, <1>2, <1>3, <1>4 DEF GatherInv

LEMMA ComputeGathers ==
  ASSUME CeremonyInv, GatherInv, NEW p \in Pages, NEW k \in 1 .. 5, Compute(p, k)
  PROVE  GatherInv'
<1> DEFINE kept == {b \in collected[p] : b.kind # PublicKind[k] \/ b.from # myPartyId[p]}
           new == IF k \in PublicPhases THEN kept \cup Public(p, k) ELSE collected[p]
<1>0. myPartyId[p] \in Pages /\ k \in PublicPhases => k \in 1 .. 4 /\ k # 3
  BY DEF CeremonyInv, CeremonyTypes, PublicPhases
<1>1. /\ step[p] = k
      /\ made' = [made EXCEPT ![p] = @ \cup {k}]
      /\ collected' = [collected EXCEPT ![p] = new]
      /\ UNCHANGED <<transport, generators, step, myPartyId, sent, barriers, barrierSent, net>>
  BY DEF Compute, PublicPhases, CeremonyInv, CeremonyTypes
<1>2. \A q \in Pages : made[q] \subseteq made'[q]
  BY <1>1 DEF CeremonyInv, CeremonyTypes
<1>3. \A q \in Pages : collected'[q] = IF q = p THEN new ELSE collected[q]
  BY <1>1 DEF CeremonyInv, CeremonyTypes
<1>4. ASSUME k \in PublicPhases
      PROVE  \E own : /\ Public(p, k) = {own} /\ GoodBlob(own)
                      /\ own.kind = PublicKind[k] /\ own.from = myPartyId[p]
                      /\ own.kind \notin PrivateKinds
  <2>1. Public(p, k) = {Blob(p, PublicKind[k], All)}
    BY <1>0, <1>4 DEF Public, PublicPhases
  <2>2. PublicKind[k] \notin PrivateKinds
    BY <1>4 DEF PublicPhases, PublicKind, PrivateKinds
  <2>3. GoodBlob(Blob(p, PublicKind[k], All))
    <3>1. myPartyId[p] \in Pages /\ k \in 1 .. 4
      BY <1>4 DEF CeremonyInv, CeremonyTypes, PublicPhases
    <3> QED
      BY <2>1, <3>1, OwnGood DEF Own
  <2> QED
    BY <2>1, <2>2, <2>3 DEF Blob
<1> HIDE DEF kept
<1>5. InboxInv'
  <2>1. ASSUME NEW b \in new
        PROVE  /\ GoodBlob(b)
               /\ \A c \in new : (b.kind = c.kind /\ b.from = c.from) => b = c
               /\ b.kind \in PrivateKinds =>
                    b.to = myPartyId[p] /\ b.from # myPartyId[p] /\ (step[p] >= 1 \/ p = Creator)
    <3>1. ASSUME NEW c \in collected[p]
          PROVE  /\ GoodBlob(c)
                 /\ \A d \in collected[p] : (c.kind = d.kind /\ c.from = d.from) => c = d
                 /\ c.kind \in PrivateKinds =>
                      c.to = myPartyId[p] /\ c.from # myPartyId[p] /\ (step[p] >= 1 \/ p = Creator)
      BY <3>1 DEF GatherInv, InboxInv
    <3>2. CASE k \notin PublicPhases
      BY <3>1, <3>2, <2>1
    <3>3. CASE k \in PublicPhases
      <4>1. PICK own : /\ Public(p, k) = {own} /\ GoodBlob(own)
                       /\ own.kind = PublicKind[k] /\ own.from = myPartyId[p]
                       /\ own.kind \notin PrivateKinds
        BY <1>4, <3>3
      <4>2. new = kept \cup {own}
        BY <3>3, <4>1
      <4>3. \A c \in kept : c \in collected[p] /\ (c.kind # own.kind \/ c.from # own.from)
        BY <4>1 DEF kept
      <4> HIDE DEF new
      <4> QED
        BY <2>1, <3>1, <4>1, <4>2, <4>3
    <3> QED
      BY <3>2, <3>3
  <2> HIDE DEF new
  <2> QED
    BY <1>1, <1>3, <2>1 DEF GatherInv, InboxInv, GoodBlob
<1>6. ASSUME NEW q \in Pages, NEW kind PROVE From(q, kind) \subseteq From(q, kind)'
  <2>1. CASE q # p \/ k \notin PublicPhases
    BY <2>1, <1>3 DEF From, Collected
  <2>2. CASE q = p /\ k \in PublicPhases
    <3>1. PICK own : /\ Public(p, k) = {own}
                     /\ own.kind = PublicKind[k] /\ own.from = myPartyId[p]
      BY <1>4, <2>2
    <3>2. collected'[p] = kept \cup {own}
      BY <1>3, <2>2, <3>1
    <3>3. ASSUME NEW b \in collected[p], b.kind = kind
          PROVE  \E c \in collected'[p] : c.kind = kind /\ c.from = b.from
      BY <3>1, <3>2, <3>3 DEF kept
    <3> QED
      BY <2>2, <3>3 DEF From, Collected
  <2> QED
    BY <2>1, <2>2
<1> HIDE DEF new
<1>7. HeldInv'
  BY ONLY CeremonyInv, GatherInv, <1>1, <1>2, <1>5, <1>6, HeldKept
<1>8. MailInv' /\ SentInv' /\ IdleInv'
  BY <1>1, <1>2, MailKept, SentKept DEF GatherInv, IdleInv, Relay
<1> QED
  BY <1>1, <1>5, <1>7, <1>8 DEF GatherInv

LEMMA SendPhaseGathers ==
  ASSUME CeremonyInv, GatherInv, NEW p \in Pages, NEW k \in 1 .. 4, SendPhase(p, k)
  PROVE  GatherInv'
<1>1. /\ k \in made[p]
      /\ net' = net \cup AddressedMail(p, Own(p, k))
      /\ sent' = [sent EXCEPT ![p] = @ \cup {k}]
      /\ UNCHANGED <<transport, generators, step, myPartyId, made, collected, barriers, barrierSent>>
  BY DEF SendPhase
<1>2. InboxInv' /\ HeldInv' /\ IdleInv'
  BY <1>1 DEF GatherInv, InboxInv, GoodBlob, HeldInv, Gathered, From, Collected, Others,
              Relay, IdleInv
<1>3. MailInv'
  <2>1. ASSUME NEW m \in AddressedMail(p, Own(p, k))
        PROVE  /\ m.blob.kind # "barrier" /\ GoodBlob(m.blob)
               /\ m.blob.kind \in PrivateKinds => m.blob.to = m.to
    <3>1. m \in Mail(p, Own(p, k)) /\ m.blob.to \in {All, m.to}
      BY DEF AddressedMail
    <3>2. PICK q \in Pages, b \in Own(p, k) : m = [to |-> q, blob |-> b]
      BY <3>1 DEF Mail
    <3>3. GoodBlob(b) /\ b.kind # "barrier"
      BY OwnGood, OwnBlobs DEF CeremonyInv, CeremonyTypes
    <3>4. All \notin Pages
      BY CeremonyAssumption DEF All, Pages
    <3> QED
      BY <3>1, <3>2, <3>3, <3>4 DEF GoodBlob
  <2> QED
    BY <1>1, <2>1 DEF GatherInv, MailInv, GoodBlob
<1>4. SentInv'
  BY <1>1 DEF GatherInv, SentInv
<1> QED
  BY <1>1, <1>2, <1>3, <1>4 DEF GatherInv

LEMMA SendBarrierGathers ==
  ASSUME CeremonyInv, GatherInv, NEW p \in Pages, NEW k \in 1 .. 4, SendBarrier(p, k)
  PROVE  GatherInv'
<1> DEFINE mine == [kind |-> "barrier", phase |-> k, from |-> myPartyId[p]]
<1>1. /\ Relay /\ step[p] = k /\ PhaseReady(p, k) /\ k \in sent[p]
      /\ net' = net \cup Mail(p, {mine})
      /\ barrierSent' = [barrierSent EXCEPT ![p] = @ \cup {k}]
      /\ barriers' = [barriers EXCEPT ![p] = @ \cup {<<k, myPartyId[p]>>}]
      /\ UNCHANGED <<transport, generators, step, myPartyId, made, collected, sent>>
  BY DEF SendBarrier
<1>2. myPartyId[p] = p
  BY <1>1 DEF CeremonyInv, NumberInv
<1>3. mine.kind = "barrier" /\ mine.from = p
  BY <1>2
<1> HIDE DEF mine
<1>4. InboxInv' /\ IdleInv' /\ SentInv'
  BY <1>1 DEF GatherInv, InboxInv, GoodBlob, IdleInv, SentInv, Relay
<1>5. MailInv'
  <2>1. \A m \in net' \ net : m.blob = mine /\ m.to # p
    BY <1>1 DEF Mail
  <2> QED
    BY <1>1, <1>3, <2>1 DEF GatherInv, MailInv, GoodBlob
<1>6. HeldInv'
  <2>1. Gathered(p, k)
    BY <1>1, ReadyGathers DEF GatherInv, SentInv
  <2>2. ASSUME NEW q \in Pages, NEW j \in 1 .. 4, <<j, q>> \in barriers'[q]
        PROVE  <<j, q>> \in barriers[q] \/ (q = p /\ j = k)
    BY <1>1, <2>2 DEF CeremonyInv, CeremonyTypes
  <2>3. \A q \in Pages : \A kind : From(q, kind) \subseteq From(q, kind)'
    BY <1>1 DEF From, Collected
  <2>4. step[p] >= 1
    BY <1>1
  <2>5. /\ \A q \in Pages : made[q] \subseteq made'[q]
        /\ \A q \in Pages : myPartyId'[q] = myPartyId[q] /\ step'[q] = step[q]
    BY <1>1
  <2>6. \A q \in Pages : \A j \in 1 .. 4 :
           (step'[q] > j \/ (Relay /\ <<j, q>> \in barriers'[q])) =>
             \/ step[q] > j \/ (Relay /\ <<j, q>> \in barriers[q])
             \/ step[q] >= 1 /\ Gathered(q, j)
    BY <2>1, <2>2, <2>4, <2>5
  <2> QED
    BY ONLY CeremonyInv, GatherInv, <1>1, <1>4, <2>3, <2>5, <2>6, HeldKept
<1> QED
  BY <1>1, <1>4, <1>5, <1>6 DEF GatherInv

\* Over the relay a page leaves a phase with its own barrier among those of
\* all, offline when it is ready; either way it has what the next one needs.
LEMMA AdvanceGathers ==
  ASSUME CeremonyInv, CeremonyInv', GatherInv, NEW p \in Pages, NEW k \in 1 .. 4, Advance(p, k)
  PROVE  GatherInv'
<1>1. /\ step[p] = k /\ Passed(p, k)
      /\ step' = [step EXCEPT ![p] = k + 1]
      /\ UNCHANGED <<transport, generators, myPartyId, made, collected, sent, barriers,
                     barrierSent, net>>
  BY DEF Advance
<1>2. Gathered(p, k)
  <2>1. CASE Relay
    <3>1. <<k, p>> \in barriers[p]
      BY <1>1, <2>1, BarriersOfAll
    <3> QED
      BY <2>1, <3>1 DEF GatherInv, HeldInv
  <2>2. CASE ~Relay
    BY <1>1, <2>2, ReadyGathers DEF Passed
  <2> QED
    BY <2>1, <2>2
<1>3. \A q \in Pages : step'[q] >= step[q]
  BY <1>1 DEF CeremonyInv, CeremonyTypes
<1>4. step' \in [Pages -> 0 .. 5]
  BY DEF CeremonyInv, CeremonyTypes
<1>5. /\ InboxInv'
      /\ \A q \in Pages : \A kind : From(q, kind) \subseteq From(q, kind)'
  BY <1>1, <1>3, <1>4, InboxKept
<1>6. \A q \in Pages : \A j \in 1 .. 4 :
         step'[q] > j => step[q] > j \/ (step[q] >= 1 /\ Gathered(q, j))
  BY <1>1, <1>2 DEF CeremonyInv, CeremonyTypes
<1>7. HeldInv'
  BY <1>1, <1>5, <1>6, HeldKept
<1>8. MailInv' /\ SentInv'
  BY <1>1, MailKept, SentKept
<1>9. IdleInv'
  BY <1>1 DEF GatherInv, IdleInv, Relay, CeremonyInv, CeremonyTypes
<1> QED
  BY <1>1, <1>5, <1>7, <1>8, <1>9 DEF GatherInv

\* A page loads the session, picks its number or starts.
LEMMA StartGathers ==
  ASSUME CeremonyInv, CeremonyInv', GatherInv, NEW p \in Pages, step[p] = 0,
         step' = [step EXCEPT ![p] = step'[p]], step'[p] \in {0, 1},
         \A q \in Pages \ {p} : myPartyId'[q] = myPartyId[q] /\ made'[q] = made[q],
         made[p] \subseteq made'[p],
         p = Creator => myPartyId'[p] = myPartyId[p],
         Relay => step'[p] = 1 \/ myPartyId'[p] = 0,
         UNCHANGED <<transport, generators, collected, sent, barriers, barrierSent>>,
         MailInv'
  PROVE  GatherInv'
<1>1. /\ \A q \in Pages : step'[q] >= step[q] /\ made[q] \subseteq made'[q]
      /\ \A q \in Pages : q # p => step'[q] = step[q]
  BY DEF CeremonyInv, CeremonyTypes
<1>2. step' \in [Pages -> 0 .. 5]
  BY DEF CeremonyInv, CeremonyTypes
<1>3. /\ InboxInv'
      /\ \A q \in Pages : \A kind : From(q, kind) \subseteq From(q, kind)'
  BY <1>1, <1>2, InboxKept
<1>4. HeldInv'
  <2>1. \A q \in Pages : step[q] >= 1 => myPartyId'[q] = myPartyId[q]
    OBVIOUS
  <2>2. \A q \in Pages : \A k \in 1 .. 4 : step'[q] > k => step[q] > k
    BY <1>1 DEF CeremonyInv, CeremonyTypes
  <2> QED
    BY <1>1, <1>3, <2>1, <2>2, HeldKept
<1>5. IdleInv'
  BY <1>1 DEF GatherInv, IdleInv, Relay
<1>6. SentInv'
  BY <1>1, SentKept
<1> QED
  BY <1>3, <1>4, <1>5, <1>6 DEF GatherInv

LEMMA PasteGathers ==
  ASSUME CeremonyInv, GatherInv, NEW p \in Pages, Paste(p)
  PROVE  GatherInv'
<1>a. PICK q \in Pages : \E k \in made[q] \ {0, 5} : \E b \in Own(q, k) :
        Acceptable(p, b) /\ Collect(p, b)
  BY DEF Paste
<1>b. PICK k \in made[q] \ {0, 5} : \E b \in Own(q, k) :
        Acceptable(p, b) /\ Collect(p, b)
  BY <1>a
<1>1. PICK b \in Own(q, k) : Acceptable(p, b) /\ Collect(p, b)
  BY <1>b
<1>2. k \in 1 .. 4 /\ myPartyId[q] \in Pages
  BY DEF CeremonyInv, CeremonyTypes
<1>3. GoodBlob(b)
  BY <1>2, OwnGood
<1>4. /\ step[p] \in made[p] \ {0, 5}
      /\ collected' = [collected EXCEPT ![p] = @ \cup {b}]
      /\ UNCHANGED <<transport, generators, step, myPartyId, made, sent, barriers, barrierSent, net>>
  BY <1>1 DEF Paste, Collect
<1>5. step[p] >= 1
  BY <1>4 DEF CeremonyInv, CeremonyTypes
<1>6. /\ InboxInv'
      /\ \A r \in Pages : \A kind : From(r, kind) \subseteq From(r, kind)'
  BY <1>1, <1>3, <1>4, <1>5, InboxTakes
<1>7. HeldInv'
  BY <1>4, <1>6, HeldKept
<1>8. MailInv' /\ SentInv' /\ IdleInv'
  BY <1>4, MailKept, SentKept DEF GatherInv, IdleInv, Relay
<1> QED
  BY <1>4, <1>6, <1>7, <1>8 DEF GatherInv

LEMMA CreateSessionGathers ==
  ASSUME CeremonyInv, CeremonyInv', GatherInv, CreateSession
  PROVE  GatherInv'
<1> DEFINE config == [kind |-> "config"]
<1>1. /\ made[Creator] = {}
      /\ made' = [made EXCEPT ![Creator] = {0}]
      /\ net' \subseteq net \cup Mail(Creator, {config})
      /\ UNCHANGED <<transport, generators, step, myPartyId, collected, sent, barriers, barrierSent>>
  BY DEF CreateSession
<1>2. config.kind = "config"
  OBVIOUS
<1> HIDE DEF config
<1>3. MailInv'
  <2>1. \A m \in net' \ net : m.blob = config
    BY <1>1 DEF Mail
  <2> QED
    BY <1>1, <1>2, <2>1 DEF GatherInv, MailInv, GoodBlob
<1>4. \A q \in Pages : made[q] \subseteq made'[q]
  BY <1>1 DEF CeremonyInv, CeremonyTypes
<1>5. /\ InboxInv'
      /\ \A q \in Pages : \A kind : From(q, kind) \subseteq From(q, kind)'
  BY <1>1 DEF GatherInv, InboxInv, GoodBlob, From, Collected
<1>6. HeldInv'
  BY <1>1, <1>4, <1>5, HeldKept
<1>7. SentInv' /\ IdleInv'
  BY <1>1, <1>4, SentKept DEF GatherInv, IdleInv, Relay
<1> QED
  BY <1>1, <1>3, <1>5, <1>6, <1>7 DEF GatherInv

LEMMA DeliverGathers ==
  ASSUME CeremonyInv, CeremonyInv', GatherInv, NEW m \in net, Deliver(m)
  PROVE  GatherInv'
<1>0. PICK p, b : p = m.to /\ b = m.blob
  OBVIOUS
<1>1. /\ p \in Pages /\ Relay
      /\ net' = net \ {m}
      /\ UNCHANGED <<transport, generators, sent, barrierSent>>
  BY <1>0 DEF Deliver, CeremonyInv, CeremonyTypes, BlobInv, Relay, Offline
<1>2. MailInv'
  BY <1>1, MailKept
<1>3. CASE b.kind = "config"
  <2>1. /\ made' = [made EXCEPT ![p] = {0}]
        /\ myPartyId' = [myPartyId EXCEPT ![p] = p]
        /\ step' = [step EXCEPT ![p] = 1]
        /\ UNCHANGED <<collected, barriers>>
    BY <1>0, <1>3 DEF Deliver, ReceiveConfig
  <2>2. p # Creator /\ step[p] = 0
    BY <1>0, <1>3 DEF CeremonyInv, StartInv
  <2>3. /\ made[p] \subseteq made'[p] /\ step'[p] = 1
        /\ \A q \in Pages \ {p} : myPartyId'[q] = myPartyId[q] /\ made'[q] = made[q]
    BY <1>1, <2>1, <2>2 DEF CeremonyInv, CeremonyTypes, MadeInv
  <2>4. step' = [step EXCEPT ![p] = step'[p]]
    BY <2>1, <2>3
  <2> QED
    BY <1>1, <1>2, <2>1, <2>2, <2>3, <2>4, StartGathers
<1>4. CASE b.kind = "barrier"
  <2>1. /\ barriers' = [barriers EXCEPT ![p] = @ \cup {<<b.phase, b.from>>}]
        /\ UNCHANGED <<step, myPartyId, made, collected>>
    BY <1>0, <1>4 DEF Deliver
  <2>2. b.from # p
    BY <1>0, <1>4 DEF GatherInv, MailInv
  <2>3. /\ InboxInv' /\ IdleInv'
        /\ \A q \in Pages : \A kind : From(q, kind) \subseteq From(q, kind)'
    BY <1>1, <2>1 DEF GatherInv, InboxInv, GoodBlob, From, Collected, IdleInv, Relay
  <2>4. \A q \in Pages : \A k \in 1 .. 4 :
           <<k, q>> \in barriers'[q] => <<k, q>> \in barriers[q]
    BY <1>1, <2>1, <2>2 DEF CeremonyInv, CeremonyTypes
  <2>5. HeldInv'
    BY <1>1, <2>1, <2>3, <2>4, HeldKept
  <2>6. SentInv'
    BY <1>1, <2>1, SentKept
  <2> QED
    BY <1>1, <1>2, <2>3, <2>5, <2>6 DEF GatherInv
<1>5. CASE b.kind \notin {"config", "barrier"}
  <2>1. /\ UNCHANGED <<step, myPartyId, made, barriers>>
        /\ \/ UNCHANGED collected
           \/ Acceptable(p, b) /\ collected' = [collected EXCEPT ![p] = @ \cup {b}]
    BY <1>0, <1>5 DEF Deliver, Collect
  <2>2. /\ GoodBlob(b)
        /\ b.kind \in PrivateKinds => b.to = p
    BY <1>0, <1>5 DEF GatherInv, MailInv
  <2>3. /\ InboxInv'
        /\ \A q \in Pages : \A kind : From(q, kind) \subseteq From(q, kind)'
    <3>1. CASE UNCHANGED collected
      BY <3>1, <1>1, <2>1 DEF GatherInv, InboxInv, GoodBlob, From, Collected
    <3>2. CASE Acceptable(p, b) /\ collected' = [collected EXCEPT ![p] = @ \cup {b}]
      <4>1. b.kind \in PrivateKinds => step[p] >= 1 \/ p = Creator
        <5> SUFFICES ASSUME b.kind \in PrivateKinds, ~(step[p] >= 1)
                     PROVE  p = Creator
          OBVIOUS
        <5>1. step[p] = 0
          BY <1>1 DEF CeremonyInv, CeremonyTypes
        <5>2. myPartyId[p] = 0
          BY <1>1, <5>1 DEF GatherInv, IdleInv
        <5>3. b.to = myPartyId[p]
          <6>1. b.to \in {All, myPartyId[p]}
            BY <3>2 DEF Acceptable
          <6>2. b.to \in Pages /\ All \notin Pages
            BY <2>2, CeremonyAssumption DEF GoodBlob, All, Pages
          <6> QED
            BY <6>1, <6>2
        <5> QED
          BY <2>2, <5>2, <5>3 DEF Creator
      <4> QED
        BY <1>1, <2>1, <2>2, <3>2, <4>1, InboxTakes
    <3> QED
      BY <2>1, <3>1, <3>2
  <2>4. HeldInv'
    BY <1>1, <2>1, <2>3, HeldKept
  <2>5. SentInv' /\ IdleInv'
    BY <1>1, <2>1, SentKept DEF GatherInv, IdleInv, Relay
  <2> QED
    BY <1>1, <1>2, <2>3, <2>4, <2>5 DEF GatherInv
<1> QED
  BY <1>3, <1>4, <1>5

LEMMA GatherQuiet ==
  ASSUME CeremonyInv, GatherInv, net' \subseteq net, UNCHANGED <<transport, generators, pageVars>>
  PROVE  GatherInv'
<1>1. MailInv'
  BY MailKept
<1> QED
  BY <1>1 DEF pageVars, GatherInv, InboxInv, GoodBlob, IdleInv, HeldInv, SentInv, Gathered,
              From, Collected, Others, Relay

LEMMA GatherStep ==
  ASSUME CeremonyInv, CeremonyInv', GatherInv, [Next]_vars
  PROVE  GatherInv'
<1>1. ASSUME NEW p \in Pages, Page(p)
      PROVE  GatherInv'
  <2>1. ASSUME LoadSession(p) \/ PickNumber(p) \/ StartJoiner(p)
        PROVE  GatherInv'
    <3>1. /\ step[p] = 0 /\ p # Creator /\ ~Relay
          /\ step' = step \/ step' = [step EXCEPT ![p] = 1]
          /\ \A q \in Pages \ {p} : myPartyId'[q] = myPartyId[q] /\ made'[q] = made[q]
          /\ made[p] \subseteq made'[p]
          /\ UNCHANGED <<transport, generators, collected, sent, barriers, barrierSent, net>>
      BY <2>1 DEF LoadSession, PickNumber, StartJoiner, Relay, Offline, CeremonyInv,
                  CeremonyTypes, MadeInv
    <3>2. step' = [step EXCEPT ![p] = step'[p]] /\ step'[p] \in {0, 1}
      BY <3>1 DEF CeremonyInv, CeremonyTypes
    <3>3. MailInv'
      BY <3>1, MailKept
    <3> QED
      BY <3>1, <3>2, <3>3, StartGathers
  <2> QED
    BY <1>1, <2>1, ComputeGathers, SendPhaseGathers, SendBarrierGathers, AdvanceGathers,
       PasteGathers DEF Page
<1>2. CASE StartCreator
  <2>1. /\ step[Creator] = 0 /\ step' = [step EXCEPT ![Creator] = 1]
        /\ UNCHANGED <<transport, generators, myPartyId, made, collected, sent, barriers,
                       barrierSent, net>>
    BY <1>2 DEF StartCreator
  <2>2. step' = [step EXCEPT ![Creator] = step'[Creator]] /\ step'[Creator] = 1
    BY <2>1, CreatorIsPage DEF CeremonyInv, CeremonyTypes
  <2>3. MailInv'
    BY <2>1, MailKept
  <2> QED
    BY <2>1, <2>2, <2>3, CreatorIsPage, StartGathers
<1>3. CASE CreateSession
  BY <1>3, CreateSessionGathers
<1>4. ASSUME NEW m \in net, Deliver(m) PROVE GatherInv'
  BY <1>4, DeliverGathers
<1>5. ASSUME NEW m \in net, Lose(m) PROVE GatherInv'
  BY <1>5, GatherQuiet DEF Lose
<1>6. CASE UNCHANGED vars
  BY <1>6, GatherQuiet DEF vars
<1> QED
  BY <1>1, <1>2, <1>3, <1>4, <1>5, <1>6 DEF Next, Progress

\* A page that is in a phase can compute it.
LEMMA GatheredComputes ==
  ASSUME CeremonyInv, GatherInv
  PROVE  PhasesComputable
<1> SUFFICES ASSUME NEW p \in Pages, step[p] \in 1 .. 5
             PROVE  Computable(p, step[p])
  BY DEF PhasesComputable
<1>1. \A k \in 1 .. 4 : step[p] > k => Gathered(p, k)
  BY DEF GatherInv, HeldInv
<1>2. 0 \in made[p]
  BY DEF CeremonyInv, MadeInv
<1>3. \A kind : From(p, kind) = Pages => Complete(p, kind)
  BY OneFromEach DEF GatherInv
<1>4. step[p] >= 2 => 1 \in made[p] /\ Complete(p, "p1")
  BY <1>1, <1>3 DEF Gathered
<1>5. step[p] >= 3 => Complete(p, "p2pub") /\ CoHolders[myPartyId[p]] \subseteq From(p, "p2priv")
  BY <1>1, <1>3 DEF Gathered
<1>6. step[p] >= 4 => 3 \in made[p] /\ Others(p, generators) \subseteq From(p, "p3priv")
  BY <1>1 DEF Gathered
<1>7. step[p] >= 5 => Complete(p, "p4")
  BY <1>1, <1>3 DEF Gathered
<1>8. CASE step[p] = 1
  BY <1>2, <1>8 DEF Computable
<1>9. CASE step[p] = 2
  BY <1>4, <1>9 DEF Computable
<1>10. CASE step[p] = 3
  BY <1>4, <1>5, <1>10 DEF Computable
<1>11. CASE step[p] = 4
  BY <1>6, <1>11 DEF Computable
<1>12. CASE step[p] = 5
  BY <1>6, <1>7, <1>12 DEF Computable
<1> QED
  BY <1>8, <1>9, <1>10, <1>11, <1>12

LEMMA GatherInvAlways == Spec => [](CeremonyInv /\ GatherInv)
<1>1. Init => CeremonyInv /\ GatherInv
  BY InitCeremonyInv, InitGatherInv
<1>2. CeremonyInv /\ GatherInv /\ [Next]_vars => CeremonyInv' /\ GatherInv'
  BY CeremonyStep, GatherStep
<1> QED
  BY <1>1, <1>2, PTL DEF Spec

(* What the wizards keep is well formed; a page marks as sent only what it *)
(* has made, and sends a barrier only for what it has sent.                *)
THEOREM CeremonyTypeCorrect == Spec => []CeremonyTypeOK
<1>1. CeremonyInv /\ GatherInv => CeremonyTypeOK
  BY DEF CeremonyInv, CeremonyTypes, MadeInv, GatherInv, SentInv, CeremonyTypeOK
<1> QED
  BY <1>1, GatherInvAlways, PTL

(* DKGWizard.tsx counts blobs and barriers, threshold.ts throws when one   *)
(* of a certain party is missing: whatever is delivered or pasted, in      *)
(* whatever order and however often, no page enters a phase whose inputs   *)
(* it lacks - for any number of parties, any threshold and any generators. *)
THEOREM NoPhaseFails == Spec => []PhasesComputable
<1>1. CeremonyInv /\ GatherInv => PhasesComputable
  BY GatheredComputes
<1> QED
  BY <1>1, GatherInvAlways, PTL
===============================================================================
