--------------------------- MODULE TransferProofs ---------------------------
(***************************************************************************)
(* Safety of resumable uploads for every set of sessions, identifiers,     *)
(* declarations and chunks, every limit and any number of interruptions:   *)
(* a manifest never runs ahead of the data it describes, what was declared *)
(* is what is resolved, what has arrived is kept, and neither the disk nor *)
(* the reservations outgrow their bounds.                                  *)
(***************************************************************************)
EXTENDS Transfer, FiniteSetTheorems, SequenceTheorems, TLAPS

(* The strengthening.  What holds of a manifest on disk must hold of the   *)
(* one that a call is about to save, while the file already has the bytes  *)
(* of the call and the old manifest still stands.                          *)

(* The file d has what manifest m says of it.                              *)
Stored(m, d) ==
  /\ d # Nil /\ m.bytes <= Len(d) /\ Len(d) <= m.total
  /\ Len(m.last_hash) <= m.bytes
  /\ \A i \in 1..Len(m.last_hash) :
       d[m.bytes - Len(m.last_hash) + i] = m.last_hash[i]
  /\ m.committed => m.bytes = m.total /\ d = m.sha256

(* Every manifest has its declared length bounded, and its data as long as *)
(* it lives; the sweep may be interrupted between data and manifest.       *)
ManifestsTrue ==
  \A k \in Keys : manifest[k] # Nil =>
    manifest[k].total <= UploadBytes /\ (Live(k) => Stored(manifest[k], data[k]))

(* The manifest that replaces an old one declares the same and counts no   *)
(* less; a new one was admitted within the quota.                          *)
Admitted(k, total) ==
  /\ Cardinality({j \in Known : j[1] = k[1]}) < PerSession
  /\ Cardinality(Reserved(Known)) + total <= Reservable
Replaces(k, m) ==
  /\ Live(k) /\ m.total = manifest[k].total /\ m.bytes >= manifest[k].bytes

(* What the locals of the call under way stand for.                        *)
CallHolds ==
  /\ pc \in {"write", "save"} =>
       /\ cur \in Keys /\ pending \in Manifests /\ pending.total <= UploadBytes
       /\ Stored(pending, data[cur])
  /\ pc = "write" => /\ Replaces(cur, pending)
                     /\ ~pending.committed /\ ~manifest[cur].committed
  /\ pc = "save" => IF manifest[cur] = Nil
                      THEN data[cur] = << >> /\ Admitted(cur, pending.total)
                      ELSE Replaces(cur, pending)
  /\ pc \in {"sweep", "unlink"} => todo \subseteq Known
  /\ pc = "unlink" => /\ cur \in Keys \ todo /\ data[cur] = Nil
                      /\ manifest[cur] # Nil /\ manifest[cur].left = 0

Safe == /\ ManifestsTrue /\ CallHolds /\ DiskWithinReservation /\ QuotaHeld
IInv == TypeOK /\ Safe

-----------------------------------------------------------------------------
(* What the constants give, without the sets they are built from.          *)
LEMMA Constants ==
  /\ UploadBytes \in Nat /\ PerSession \in Nat /\ Reservable \in Nat
  /\ Lifetime \in Nat /\ Lifetime > 0 /\ MaxCrashes \in Nat
  /\ Nil \notin Contents /\ << >> # Nil /\ Nil \notin Manifests
  /\ \A b \in Begins : b.total \in Nat /\ b.sha256 \in Contents
  /\ \A c \in Chunks : c.seq \in Nat /\ c.data \in Contents
<1>1. << >> \in Contents
  BY DEF Contents
<1> QED
  BY <1>1, TransferAssumption

(* The fields of a manifest.                                               *)
LEMMA ManifestFacts ==
  ASSUME NEW m \in Manifests
  PROVE  /\ m.total \in Nat /\ m.bytes \in Nat /\ m.next_seq \in Nat
         /\ m.left \in 0..Lifetime /\ m.committed \in BOOLEAN
         /\ m.sha256 \in Contents /\ m.last_hash \in Contents
         /\ Len(m.last_hash) \in Nat
BY DEF Manifests, Contents

(* A piece of a content is a content.                                      *)
LEMMA PieceFacts ==
  ASSUME NEW d \in Contents, NEW i \in Nat, NEW j \in Nat, j <= Len(d)
  PROVE  /\ SubSeq(d, i + 1, j) \in Contents
         /\ Len(SubSeq(d, i + 1, j)) = IF i <= j THEN j - i ELSE 0
         /\ \A n \in 1..(j - i) : SubSeq(d, i + 1, j)[n] = d[i + n]
<1>1. \A n \in (i + 1)..j : d[n] \in Bytes
  BY ElementOfSeq DEF Contents
<1>2. /\ SubSeq(d, i + 1, j) \in Seq(Bytes)
      /\ Len(SubSeq(d, i + 1, j)) = IF i + 1 <= j THEN j - (i + 1) + 1 ELSE 0
      /\ \A n \in 1..(j - (i + 1) + 1) : SubSeq(d, i + 1, j)[n] = d[i + 1 + n - 1]
  BY <1>1, SubSeqProperties
<1> QED
  BY <1>2 DEF Contents

(* The first bytes of a content.                                           *)
LEMMA PrefixFacts ==
  ASSUME NEW d \in Contents, NEW n \in Nat, n <= Len(d)
  PROVE  /\ SubSeq(d, 1, n) \in Contents /\ Len(SubSeq(d, 1, n)) = n
         /\ \A i \in 1..n : SubSeq(d, 1, n)[i] = d[i]
BY PieceFacts, 0 + 1 = 1

(* A manifest that counts one more chunk is a manifest.                    *)
LEMMA CountedType ==
  ASSUME NEW m \in Manifests, NEW c \in Chunks
  PROVE  Counted(m, c) \in Manifests
<1>1. c.data \in Contents /\ Len(c.data) \in Nat
  BY Constants DEF Contents
<1>2. m.bytes + Len(c.data) \in Nat /\ m.next_seq + 1 \in Nat
  BY <1>1, ManifestFacts
<1> QED
  BY <1>1, <1>2 DEF Counted, Manifests

(* pwrite at an offset within the file: the bytes before it stay, the new  *)
(* ones follow, and the file grows only as far as they reach.              *)
LEMMA OverwriteFacts ==
  ASSUME NEW old \in Contents, NEW new \in Contents, NEW at \in 0..Len(old)
  PROVE  /\ Overwrite(old, at, new) \in Contents
         /\ Len(Overwrite(old, at, new)) =
              IF at + Len(new) <= Len(old) THEN Len(old) ELSE at + Len(new)
         /\ \A i \in 1..at : Overwrite(old, at, new)[i] = old[i]
         /\ \A i \in 1..Len(new) : Overwrite(old, at, new)[at + i] = new[i]
<1> DEFINE a == SubSeq(old, 1, at)
           e == at + Len(new)
           z == SubSeq(old, e + 1, Len(old))
           u == a \o new
<1>1. Len(old) \in Nat /\ Len(new) \in Nat /\ e \in Nat
  BY DEF Contents
<1>2. a \in Contents /\ Len(a) = at /\ \A i \in 1..at : a[i] = old[i]
  BY <1>1, PrefixFacts
<1> HIDE DEF e
<1>3. z \in Contents /\ Len(z) = IF e <= Len(old) THEN Len(old) - e ELSE 0
  BY <1>1, PieceFacts
<1> HIDE DEF a, z
<1>4. /\ u \in Seq(Bytes) /\ Len(u) = e
      /\ \A i \in 1..e : u[i] = IF i <= at THEN a[i] ELSE new[i - at]
  BY <1>2, ConcatProperties DEF Contents, e
<1> HIDE DEF u
<1>5. /\ u \o z \in Seq(Bytes) /\ Len(u \o z) = e + Len(z)
      /\ \A i \in 1..(e + Len(z)) :
           (u \o z)[i] = IF i <= e THEN u[i] ELSE z[i - e]
  BY <1>3, <1>4, ConcatProperties DEF Contents
<1>6. Overwrite(old, at, new) = u \o z
  BY DEF Overwrite, a, e, u, z
<1>7. Len(z) \in Nat
  BY <1>3 DEF Contents
<1>8. \A i \in 1..at : (u \o z)[i] = old[i]
  BY <1>1, <1>2, <1>4, <1>5, <1>7 DEF e
<1>9. \A i \in 1..Len(new) : (u \o z)[at + i] = new[i]
  BY <1>1, <1>4, <1>5, <1>7 DEF e
<1>10. Len(u \o z) = IF e <= Len(old) THEN Len(old) ELSE e
  BY <1>1, <1>3, <1>5
<1> QED
  BY <1>5, <1>6, <1>8, <1>9, <1>10 DEF Contents, e

(* Contents that agree on their first n bytes have the same first piece.   *)
LEMMA SamePrefix ==
  ASSUME NEW d \in Contents, NEW e \in Contents, NEW n \in Nat,
         n <= Len(d), n <= Len(e), \A i \in 1..n : d[i] = e[i]
  PROVE  SubSeq(d, 1, n) = SubSeq(e, 1, n)
<1>1. /\ SubSeq(d, 1, n) \in Contents /\ Len(SubSeq(d, 1, n)) = n
      /\ \A i \in 1..n : SubSeq(d, 1, n)[i] = d[i]
  BY PrefixFacts
<1>2. /\ SubSeq(e, 1, n) \in Contents /\ Len(SubSeq(e, 1, n)) = n
      /\ \A i \in 1..n : SubSeq(e, 1, n)[i] = e[i]
  BY PrefixFacts
<1> QED
  BY <1>1, <1>2, SeqEqual DEF Contents

(* A manifest that is true of a file stays true when no byte it covers     *)
(* changes and the file stays within the declared length.                  *)
LEMMA StoredKept ==
  ASSUME NEW m \in Manifests, NEW d \in Contents, NEW e \in Contents,
         Stored(m, d), ~m.committed, m.bytes <= Len(e), Len(e) <= m.total,
         \A i \in 1..m.bytes : e[i] = d[i]
  PROVE  Stored(m, e)
<1>1. e # Nil
  BY Constants
<1>2. \A i \in 1..Len(m.last_hash) :
        m.bytes - Len(m.last_hash) + i \in 1..m.bytes
  BY ManifestFacts DEF Stored
<1> QED
  BY <1>1, <1>2 DEF Stored

-----------------------------------------------------------------------------
(* Quotas.                                                                 *)

(* Sets of transfers and of reserved bytes are finite.                     *)
LEMMA Finiteness ==
  ASSUME NEW S \in SUBSET Keys
  PROVE  IsFiniteSet(S) /\ IsFiniteSet(S \X (1..UploadBytes))
<1>1. IsFiniteSet(Keys)
  BY TransferAssumption, FS_Product DEF Keys
<1>2. IsFiniteSet(S) /\ IsFiniteSet(1..UploadBytes)
  BY <1>1, FS_Subset, FS_Interval, Constants
<1> QED
  BY <1>2, FS_Product

(* A step that adds no transfer and changes no declared length keeps the   *)
(* quotas.                                                                 *)
LEMMA QuotaShrinks ==
  ASSUME QuotaHeld, Known' \subseteq Known,
         \A k \in Known' : manifest'[k].total = manifest[k].total
  PROVE  QuotaHeld'
<1>1. ASSUME NEW s \in Sids
      PROVE  Cardinality({k \in Known' : k[1] = s}) <= PerSession
  <2>1. {k \in Known' : k[1] = s} \subseteq {k \in Known : k[1] = s}
    OBVIOUS
  <2>2. IsFiniteSet({k \in Known : k[1] = s})
    BY Finiteness DEF Known
  <2>3. Cardinality({k \in Known' : k[1] = s})
          <= Cardinality({k \in Known : k[1] = s})
    BY <2>1, <2>2, FS_Subset
  <2>4. /\ Cardinality({k \in Known' : k[1] = s}) \in Nat
        /\ Cardinality({k \in Known : k[1] = s}) \in Nat
    BY <2>1, <2>2, FS_Subset, FS_CardinalityType
  <2> QED
    BY <2>3, <2>4, Constants DEF QuotaHeld
<1>2. Cardinality(Reserved(Known)') <= Reservable
  <2>1. Reserved(Known)' \subseteq Reserved(Known)
    BY DEF Reserved
  <2>2. IsFiniteSet(Reserved(Known))
    <3>1. Known \in SUBSET Keys /\ Reserved(Known) \subseteq Known \X (1..UploadBytes)
      BY DEF Known, Reserved
    <3> QED
      BY <3>1, Finiteness, FS_Subset
  <2>3. Cardinality(Reserved(Known)') <= Cardinality(Reserved(Known))
    BY <2>1, <2>2, FS_Subset
  <2>4. /\ Cardinality(Reserved(Known)') \in Nat
        /\ Cardinality(Reserved(Known)) \in Nat
    BY <2>1, <2>2, FS_Subset, FS_CardinalityType
  <2> QED
    BY <2>3, <2>4, Constants DEF QuotaHeld
<1> QED
  BY <1>1, <1>2 DEF QuotaHeld

(* A manifest that was admitted within the quota keeps it when it is       *)
(* saved.                                                                  *)
LEMMA QuotaGrows ==
  ASSUME TypeOK, QuotaHeld, NEW k \in Keys, NEW m \in Manifests,
         m.total <= UploadBytes, Admitted(k, m.total), manifest[k] = Nil,
         manifest' = [manifest EXCEPT ![k] = m]
  PROVE  QuotaHeld'
<1>1. /\ Known \subseteq Known' \cup {k} /\ Known' \subseteq Known \cup {k}
      /\ k \notin Known /\ \A j \in Known : manifest'[j] = manifest[j]
      /\ manifest'[k] = m
  BY DEF Known, TypeOK
<1>2. ASSUME NEW s \in Sids
      PROVE  Cardinality({j \in Known' : j[1] = s}) <= PerSession
  <2> DEFINE S == {j \in Known : j[1] = s}
             T == {j \in Known' : j[1] = s}
  <2>1. IsFiniteSet(S) /\ Cardinality(S) \in Nat
    BY Finiteness, FS_CardinalityType DEF Known
  <2>2. CASE k[1] = s
    <3>1. T \subseteq S \cup {k} /\ k \notin S
      BY <1>1
    <3>2. IsFiniteSet(S \cup {k}) /\ Cardinality(S \cup {k}) = Cardinality(S) + 1
      BY <2>1, <3>1, FS_AddElement
    <3>3. Cardinality(T) <= Cardinality(S) + 1 /\ Cardinality(T) \in Nat
      BY <3>1, <3>2, FS_Subset, FS_CardinalityType
    <3>4. Cardinality(S) < PerSession
      BY <2>2 DEF Admitted
    <3> QED
      BY <2>1, <3>3, <3>4, Constants
  <2>3. CASE k[1] # s
    <3>1. T \subseteq S
      BY <1>1, <2>3
    <3>2. Cardinality(T) <= Cardinality(S) /\ Cardinality(T) \in Nat
      BY <2>1, <3>1, FS_Subset, FS_CardinalityType
    <3> QED
      BY <2>1, <3>2, Constants DEF QuotaHeld
  <2> QED
    BY <2>2, <2>3
<1>3. Cardinality(Reserved(Known)') <= Reservable
  <2> DEFINE R == Reserved(Known)
             N == {k} \X (1..m.total)
  <2>1. Reserved(Known)' \subseteq R \cup N
    BY <1>1 DEF Reserved
  <2>2. IsFiniteSet(R) /\ Cardinality(R) \in Nat
    <3>1. Known \in SUBSET Keys /\ R \subseteq Known \X (1..UploadBytes)
      BY DEF Known, Reserved
    <3> QED
      BY <3>1, Finiteness, FS_Subset, FS_CardinalityType
  <2>3. IsFiniteSet(N) /\ Cardinality(N) = m.total
    <3>1. IsFiniteSet({k}) /\ Cardinality({k}) = 1
      BY FS_Singleton
    <3>2. IsFiniteSet(1..m.total) /\ Cardinality(1..m.total) = m.total
      <4>1. m.total \in Nat
        BY ManifestFacts
      <4>2. /\ IsFiniteSet(1..m.total)
            /\ Cardinality(1..m.total) = IF 1 > m.total THEN 0 ELSE m.total - 1 + 1
        BY <4>1, FS_Interval
      <4> QED
        BY <4>1, <4>2
    <3>3. IsFiniteSet(N) /\ Cardinality(N) = Cardinality({k}) * Cardinality(1..m.total)
      BY <3>1, <3>2, FS_Product
    <3> QED
      BY <3>1, <3>2, <3>3, ManifestFacts
  <2>4. /\ IsFiniteSet(R \cup N)
        /\ Cardinality(R \cup N)
             = Cardinality(R) + Cardinality(N) - Cardinality(R \cap N)
    BY <2>2, <2>3, FS_Union
  <2>5. Cardinality(R \cap N) \in Nat
    BY <2>2, FS_Intersection, FS_CardinalityType
  <2>6. /\ Cardinality(Reserved(Known)') <= Cardinality(R \cup N)
        /\ Cardinality(Reserved(Known)') \in Nat
    BY <2>1, <2>4, FS_Subset, FS_CardinalityType
  <2>7. Cardinality(R) + m.total <= Reservable
    BY DEF Admitted
  <2> HIDE DEF R, N
  <2> QED
    BY <2>2, <2>3, <2>4, <2>5, <2>6, <2>7, ManifestFacts, Constants
<1> QED
  BY <1>2, <1>3 DEF QuotaHeld

-----------------------------------------------------------------------------
(* The steps.                                                              *)

(* A write at the recorded offset of a live transfer changes no byte that  *)
(* its manifest covers and stays within the declared length.               *)
LEMMA WriteKeeps ==
  ASSUME TypeOK, ManifestsTrue, NEW k \in Keys, Live(k), ~manifest[k].committed,
         NEW new \in Contents,
         manifest[k].bytes + Len(new) <= manifest[k].total
  PROVE  LET e == Overwrite(data[k], manifest[k].bytes, new) IN
         /\ e \in Contents /\ Stored(manifest[k], e)
         /\ manifest[k].bytes + Len(new) <= Len(e) /\ Len(e) <= manifest[k].total
         /\ \A i \in 1..Len(new) : e[manifest[k].bytes + i] = new[i]
         /\ \A i \in 1..manifest[k].bytes : e[i] = data[k][i]
<1> DEFINE m == manifest[k]
           d == data[k]
           e == Overwrite(d, m.bytes, new)
<1>1. m \in Manifests /\ Stored(m, d)
  BY DEF Live, TypeOK, ManifestsTrue
<1>2. d \in Contents /\ Len(d) \in Nat /\ Len(new) \in Nat
  BY <1>1 DEF Stored, TypeOK, Contents
<1>3. m.bytes \in 0..Len(d) /\ m.total \in Nat /\ Len(d) <= m.total
  BY <1>1, <1>2, ManifestFacts DEF Stored
<1> HIDE DEF m, d
<1>4. /\ e \in Contents
      /\ Len(e) = IF m.bytes + Len(new) <= Len(d) THEN Len(d)
                                                  ELSE m.bytes + Len(new)
      /\ \A i \in 1..m.bytes : e[i] = d[i]
      /\ \A i \in 1..Len(new) : e[m.bytes + i] = new[i]
  BY <1>2, <1>3, OverwriteFacts
<1> HIDE DEF e
<1>5. m.bytes + Len(new) <= Len(e) /\ Len(e) <= m.total /\ m.bytes <= Len(e)
  BY <1>2, <1>3, <1>4 DEF m
<1>6. Stored(m, e)
  BY <1>1, <1>2, <1>4, <1>5, StoredKept DEF m
<1> QED
  BY <1>4, <1>5, <1>6 DEF d, e, m

(* Every step preserves the type invariant.                                *)
LEMMA TypeStep == IInv /\ [Next]_vars => TypeOK'
<1> SUFFICES ASSUME TypeOK, ManifestsTrue, CallHolds, [Next]_vars PROVE TypeOK'
  BY DEF IInv, Safe
<1> USE Constants DEF TypeOK, files, call
<1>1. ASSUME NEW k \in Keys, NEW b \in Begins, Begin(k, b) PROVE TypeOK'
  <2>1. pending' \in Manifests
    BY <1>1 DEF Begin, Save, Manifests, Contents
  <2>2. data' \in [Keys -> Contents \cup {Nil}]
    BY <1>1 DEF Begin, Contents
  <2> QED
    BY <1>1, <2>1, <2>2 DEF Begin, Save
<1>2. ASSUME NEW k \in Keys, NEW c \in Chunks, WriteChunk(k, c) PROVE TypeOK'
  <2>1. /\ Live(k) /\ ~manifest[k].committed /\ c.data \in Contents
        /\ manifest[k].bytes + Len(c.data) <= manifest[k].total
    <3>1. /\ manifest[k] \in Manifests /\ c.data \in Contents
          /\ Live(k) /\ ~manifest[k].committed /\ ~TooLarge(k, c)
      BY <1>2 DEF WriteChunk, Accepts, Live
    <3>2. Len(c.data) \in Nat
      BY <3>1 DEF Contents
    <3> QED
      BY <3>1, <3>2, ManifestFacts DEF TooLarge
  <2>2. Overwrite(data[k], manifest[k].bytes, c.data) \in Contents
    BY <2>1, WriteKeeps
  <2>3. Len(c.data) \in Nat /\ manifest[k] \in Manifests
    BY <2>1 DEF Contents, Live
  <2>4. pending' \in Manifests
    BY <1>2, <2>3, CountedType DEF WriteChunk
  <2> QED
    BY <1>2, <2>2, <2>4 DEF WriteChunk, Offset
<1>3. ASSUME NEW k \in Keys, NEW c \in Chunks, WriteFails(k, c) PROVE TypeOK'
  <2>1. PICK i \in 0..(Len(c.data) - 1) :
          data' = [data EXCEPT ![k] =
                     Overwrite(@, Offset(k, c), SubSeq(c.data, 1, i))]
    BY <1>3 DEF WriteFails
  <2>2. /\ manifest[k] \in Manifests /\ Len(c.data) \in Nat
        /\ Live(k) /\ ~manifest[k].committed /\ ~TooLarge(k, c)
    BY <1>3 DEF WriteFails, Accepts, Live, Contents
  <2>3. SubSeq(c.data, 1, i) \in Contents /\ Len(SubSeq(c.data, 1, i)) = i
    <3>1. i \in Nat /\ i <= Len(c.data) /\ c.data \in Contents
      BY <2>2
    <3> QED
      BY <3>1, PrefixFacts
  <2>4. manifest[k].bytes + Len(SubSeq(c.data, 1, i)) <= manifest[k].total
    BY <2>2, <2>3, ManifestFacts DEF TooLarge
  <2>5. Overwrite(data[k], manifest[k].bytes, SubSeq(c.data, 1, i)) \in Contents
    BY <2>2, <2>3, <2>4, WriteKeeps
  <2> QED
    BY <1>3, <2>1, <2>5 DEF WriteFails, Offset
<1>4. CASE Truncate
  <2>1. cur \in Keys /\ pending \in Manifests /\ Stored(pending, data[cur])
    BY <1>4 DEF Truncate, CallHolds
  <2>2. data[cur] \in Contents /\ pending.bytes <= Len(data[cur])
    BY <2>1 DEF Stored
  <2>3. SubSeq(data[cur], 1, pending.bytes) \in Contents
    BY <2>1, <2>2, ManifestFacts, PrefixFacts
  <2> QED
    BY <1>4, <2>1, <2>3 DEF Truncate
<1>5. ASSUME NEW k \in Keys, Commit(k) PROVE TypeOK'
  <2>1. manifest[k] \in Manifests
    BY <1>5 DEF Commit, Live
  <2>2. [manifest[k] EXCEPT !.committed = TRUE] \in Manifests
    BY <2>1 DEF Manifests
  <2> QED
    BY <1>5, <2>2 DEF Commit, Save
<1>6. ASSUME NEW k \in Keys, TransferStatus(k) PROVE TypeOK'
  BY <1>6 DEF TransferStatus, Save
<1>7. CASE SaveManifest
  BY <1>7 DEF SaveManifest, Return, CallHolds
<1>8. CASE Interrupt
  BY <1>8 DEF Interrupt, Return
<1>9. CASE Sweep
  BY <1>9 DEF Sweep, Known
<1>10. CASE SweepOne
  BY <1>10 DEF SweepOne
<1>11. CASE UnlinkManifest
  BY <1>11 DEF UnlinkManifest
<1>12. CASE SweepEnds
  BY <1>12 DEF SweepEnds
<1>13. CASE Tick
  <2>1. \A k \in Keys : Live(k) => Older(manifest[k]) \in Manifests
    <3> SUFFICES ASSUME NEW k \in Keys, Live(k) PROVE Older(manifest[k]) \in Manifests
      OBVIOUS
    <3>1. manifest[k] \in Manifests /\ manifest[k].left - 1 \in 0..Lifetime
      BY ManifestFacts DEF Live
    <3> QED
      BY <3>1 DEF Older, Manifests
  <2> QED
    BY <1>13, <2>1 DEF Tick
<1>14. CASE UNCHANGED vars
  BY <1>14 DEF vars
<1> QED
  BY <1>1, <1>2, <1>3, <1>4, <1>5, <1>6, <1>7, <1>8, <1>9, <1>10, <1>11,
     <1>12, <1>13, <1>14 DEF Next, Handle, Finish, Expire

(* Every step preserves the safety invariant.                              *)
LEMMA SafeStep == IInv /\ [Next]_vars => Safe'
<1> SUFFICES ASSUME TypeOK, TypeOK', Safe, [Next]_vars PROVE Safe'
  BY TypeStep DEF IInv
<1>0. /\ ManifestsTrue /\ CallHolds /\ DiskWithinReservation /\ QuotaHeld
      /\ \A k \in Keys : Live(k) => manifest[k] \in Manifests
  BY DEF Safe, TypeOK, Live
(* Quotas only depend on the manifests.                                    *)
<1>q. UNCHANGED manifest => QuotaHeld'
  BY <1>0 DEF QuotaHeld, Known, Reserved
<1>1. ASSUME NEW k \in Keys, NEW b \in Begins, Begin(k, b) PROVE Safe'
  <2>1. /\ manifest' = manifest /\ pc' = "save" /\ cur' = k /\ manifest[k] = Nil
        /\ data'[k] = << >> /\ \A j \in Keys \ {k} : data'[j] = data[j]
        /\ ~OverQuota(k, b.total) /\ b.total <= UploadBytes /\ b.total \in Nat
    BY <1>1, Constants DEF Begin, IsNew, Save, TypeOK
  <2>2. /\ pending'.total = b.total /\ pending'.bytes = 0
        /\ pending'.last_hash = << >> /\ pending'.committed = FALSE
    BY <1>1 DEF Begin, Save
  <2>3. Stored(pending, data[cur])'
    BY <2>1, <2>2, Constants DEF Stored
  <2>4. Admitted(k, b.total)
    <3>1. /\ Cardinality({j \in Known : j[1] = k[1]}) \in Nat
          /\ Cardinality(Reserved(Known)) \in Nat
      <4>1. /\ Known \in SUBSET Keys /\ {j \in Known : j[1] = k[1]} \in SUBSET Keys
            /\ Reserved(Known) \subseteq Known \X (1..UploadBytes)
        BY DEF Known, Reserved
      <4> QED
        BY <4>1, Finiteness, FS_Subset, FS_CardinalityType
    <3> QED
      BY <2>1, <3>1, Constants DEF Admitted, OverQuota
  <2>5. Admitted(cur, pending.total)'
    BY <2>1, <2>2, <2>4 DEF Admitted, Known, Reserved
  <2>6. CallHolds'
    <3>1. pending' \in Manifests
      BY <1>1, Constants DEF Begin, Save, Manifests, Contents
    <3> QED
      BY <2>1, <2>2, <2>3, <2>5, <3>1 DEF CallHolds
  <2>7. ManifestsTrue' /\ DiskWithinReservation'
    BY <1>0, <2>1 DEF ManifestsTrue, Live, DiskWithinReservation
  <2> QED
    BY <1>q, <2>1, <2>6, <2>7 DEF Safe
<1>2. ASSUME NEW k \in Keys, NEW c \in Chunks, WriteChunk(k, c) PROVE Safe'
  <2> DEFINE m == manifest[k]
             e == Overwrite(data[k], m.bytes, c.data)
  <2>1. /\ m \in Manifests /\ c.data \in Contents /\ Len(c.data) \in Nat
        /\ Live(k) /\ ~m.committed /\ ~TooLarge(k, c)
    BY <1>0, <1>2, Constants DEF WriteChunk, Accepts, Contents
  <2>2. m.bytes + Len(c.data) <= m.total /\ m.bytes \in Nat /\ m.total \in Nat
    BY <2>1, ManifestFacts DEF TooLarge
  <2>3. /\ e \in Contents /\ Stored(m, e)
        /\ m.bytes + Len(c.data) <= Len(e) /\ Len(e) <= m.total
        /\ \A i \in 1..Len(c.data) : e[m.bytes + i] = c.data[i]
    BY <1>0, <2>1, <2>2, WriteKeeps
  <2>4. /\ manifest' = manifest /\ pc' = "write" /\ cur' = k
        /\ pending' = Counted(m, c)
        /\ data'[k] = e /\ \A j \in Keys \ {k} : data'[j] = data[j]
    BY <1>2 DEF WriteChunk, Offset, TypeOK
  <2> HIDE DEF e
  <2>5. /\ pending'.bytes = m.bytes + Len(c.data) /\ pending'.total = m.total
        /\ pending'.last_hash = c.data /\ pending'.committed = m.committed
        /\ pending' \in Manifests
    BY <2>1, <2>4, CountedType DEF Counted, Manifests
  <2>6. Stored(pending, data[cur])'
    BY <2>1, <2>2, <2>3, <2>4, <2>5, Constants DEF Stored
  <2>7. CallHolds'
    BY <1>0, <2>1, <2>2, <2>4, <2>5, <2>6 DEF CallHolds, Replaces, Live,
       ManifestsTrue
  <2>8. ManifestsTrue' /\ DiskWithinReservation'
    BY <1>0, <2>1, <2>3, <2>4 DEF ManifestsTrue, Live, DiskWithinReservation
  <2> QED
    BY <1>q, <2>4, <2>7, <2>8 DEF Safe
<1>3. ASSUME NEW k \in Keys, NEW c \in Chunks, WriteFails(k, c) PROVE Safe'
  <2>1. PICK i \in 0..(Len(c.data) - 1) :
          data' = [data EXCEPT ![k] =
                     Overwrite(@, Offset(k, c), SubSeq(c.data, 1, i))]
    BY <1>3 DEF WriteFails
  <2> DEFINE m == manifest[k]
             new == SubSeq(c.data, 1, i)
             e == Overwrite(data[k], m.bytes, new)
  <2>2. /\ m \in Manifests /\ c.data \in Contents /\ Len(c.data) \in Nat
        /\ Live(k) /\ ~m.committed /\ ~TooLarge(k, c) /\ pc = "idle"
        /\ UNCHANGED <<manifest, pc, todo>>
    BY <1>0, <1>3, Constants DEF WriteFails, Accepts, Contents, call
  <2>3. new \in Contents /\ Len(new) = i
    BY <2>2, PrefixFacts
  <2>4. m.bytes + Len(new) <= m.total
    BY <2>2, <2>3, ManifestFacts DEF TooLarge
  <2> HIDE DEF new
  <2>5. e \in Contents /\ Stored(m, e) /\ Len(e) <= m.total
    BY <1>0, <2>2, <2>3, <2>4, WriteKeeps
  <2>6. data'[k] = e /\ \A j \in Keys \ {k} : data'[j] = data[j]
    BY <2>1 DEF Offset, TypeOK, new
  <2> HIDE DEF e
  <2>7. CallHolds'
    BY <2>2 DEF CallHolds
  <2>8. ManifestsTrue' /\ DiskWithinReservation'
    BY <1>0, <2>2, <2>5, <2>6 DEF ManifestsTrue, Live, DiskWithinReservation
  <2> QED
    BY <1>q, <2>2, <2>7, <2>8 DEF Safe
<1>4. CASE Truncate
  <2> DEFINE d == data[cur]
             e == SubSeq(d, 1, pending.bytes)
  <2>1. /\ cur \in Keys /\ pending \in Manifests /\ pending.total <= UploadBytes
        /\ Stored(pending, d) /\ Replaces(cur, pending) /\ ~pending.committed
        /\ ~manifest[cur].committed
    BY <1>0, <1>4 DEF Truncate, CallHolds
  <2>2. /\ d \in Contents /\ Len(d) \in Nat
        /\ pending.bytes <= Len(d) /\ Len(d) <= pending.total
    BY <2>1 DEF Stored, TypeOK, Contents
  <2>3. /\ e \in Contents /\ Len(e) = pending.bytes
        /\ \A i \in 1..pending.bytes : e[i] = d[i]
    BY <2>1, <2>2, ManifestFacts, PrefixFacts
  <2>4. /\ UNCHANGED <<manifest, cur, pending, todo>> /\ pc' = "save"
        /\ data'[cur] = e /\ \A j \in Keys \ {cur} : data'[j] = data[j]
    BY <1>4, <2>1 DEF Truncate, TypeOK
  <2>5. /\ manifest[cur] \in Manifests /\ manifest[cur] # Nil
        /\ Stored(manifest[cur], d)
    BY <1>0, <2>1 DEF Replaces, Live, ManifestsTrue
  <2> HIDE DEF d, e
  <2>6. /\ pending.bytes \in Nat /\ pending.total \in Nat
        /\ manifest[cur].bytes \in Nat /\ manifest[cur].total = pending.total
        /\ manifest[cur].bytes <= pending.bytes
    BY <2>1, <2>5, ManifestFacts DEF Replaces
  <2>7. Stored(pending, e)
    BY <2>1, <2>2, <2>3, <2>6, StoredKept
  <2>8. Stored(manifest[cur], e)
    <3>1. /\ manifest[cur].bytes <= Len(e) /\ Len(e) <= manifest[cur].total
          /\ \A i \in 1..manifest[cur].bytes : e[i] = d[i]
      BY <2>2, <2>3, <2>6
    <3> QED
      BY <2>1, <2>2, <2>3, <2>5, <3>1, StoredKept
  <2>9. CallHolds'
    BY <2>1, <2>4, <2>5, <2>7 DEF CallHolds, Replaces, Live
  <2>10. ManifestsTrue' /\ DiskWithinReservation'
    <3>1. Len(e) <= manifest[cur].total
      BY <2>8 DEF Stored
    <3> QED
      BY <1>0, <2>4, <2>5, <2>8, <3>1
      DEF ManifestsTrue, Live, DiskWithinReservation
  <2> QED
    BY <1>q, <2>4, <2>9, <2>10 DEF Safe
<1>5. ASSUME NEW k \in Keys, Commit(k) PROVE Safe'
  <2>1. /\ Live(k) /\ Verified(k) /\ UNCHANGED <<manifest, data>>
        /\ pc' = "save" /\ cur' = k
        /\ pending' = [manifest[k] EXCEPT !.committed = TRUE]
    BY <1>5 DEF Commit, Save, files
  <2>2. manifest[k] \in Manifests /\ Stored(manifest[k], data[k])
    BY <1>0, <2>1 DEF Live, ManifestsTrue
  <2>3. /\ pending'.bytes = manifest[k].bytes /\ pending'.total = manifest[k].total
        /\ pending'.last_hash = manifest[k].last_hash
        /\ pending'.sha256 = manifest[k].sha256 /\ pending' \in Manifests
    BY <2>1, <2>2 DEF Manifests
  <2>4. Stored(pending, data[cur])'
    BY <2>1, <2>2, <2>3 DEF Stored, Verified
  <2>5. CallHolds'
    BY <1>0, <2>1, <2>2, <2>3, <2>4, ManifestFacts
    DEF CallHolds, Replaces, Live, ManifestsTrue
  <2>6. ManifestsTrue' /\ DiskWithinReservation'
    BY <1>0, <2>1 DEF ManifestsTrue, Live, DiskWithinReservation
  <2> QED
    BY <1>q, <2>1, <2>5, <2>6 DEF Safe
<1>6. ASSUME NEW k \in Keys, TransferStatus(k) PROVE Safe'
  <2>1. /\ Live(k) /\ UNCHANGED <<manifest, data>>
        /\ pc' = "save" /\ cur' = k /\ pending' = manifest[k]
    BY <1>6 DEF TransferStatus, Save, files
  <2>2. /\ manifest[k] \in Manifests /\ Stored(manifest[k], data[k])
        /\ manifest[k].total <= UploadBytes
    BY <1>0, <2>1 DEF Live, ManifestsTrue
  <2>3. CallHolds'
    BY <2>1, <2>2, ManifestFacts DEF CallHolds, Replaces, Live
  <2>4. ManifestsTrue' /\ DiskWithinReservation'
    BY <1>0, <2>1 DEF ManifestsTrue, Live, DiskWithinReservation
  <2> QED
    BY <1>q, <2>1, <2>3, <2>4 DEF Safe
<1>7. CASE SaveManifest
  <2>1. /\ cur \in Keys /\ pending \in Manifests /\ pending.total <= UploadBytes
        /\ Stored(pending, data[cur]) /\ data' = data /\ pc' = "idle"
        /\ manifest' = [manifest EXCEPT ![cur] = pending]
        /\ IF manifest[cur] = Nil
             THEN data[cur] = << >> /\ Admitted(cur, pending.total)
             ELSE Replaces(cur, pending)
    BY <1>0, <1>7 DEF SaveManifest, Return, CallHolds
  <2>2. manifest'[cur] = pending /\ \A j \in Keys \ {cur} : manifest'[j] = manifest[j]
    BY <2>1 DEF TypeOK
  <2>3. ManifestsTrue'
    BY <1>0, <2>1, <2>2 DEF ManifestsTrue, Live
  <2>4. DiskWithinReservation'
    <3>1. Len(data[cur]) <= pending.total /\ Len(<< >>) = 0
      BY <2>1 DEF Stored
    <3> QED
      BY <1>0, <2>1, <2>2, <3>1, Constants DEF DiskWithinReservation
  <2>5. QuotaHeld'
    <3>1. CASE manifest[cur] = Nil
      BY <1>0, <2>1, <3>1, QuotaGrows
    <3>2. CASE manifest[cur] # Nil
      <4>1. Known' \subseteq Known
        BY <2>2, <3>2 DEF Known
      <4>2. \A k \in Known' : manifest'[k].total = manifest[k].total
        BY <2>1, <2>2, <3>2 DEF Known, Replaces
      <4> QED
        BY <1>0, <4>1, <4>2, QuotaShrinks
    <3> QED
      BY <3>1, <3>2
  <2> QED
    BY <2>1, <2>3, <2>4, <2>5 DEF Safe, CallHolds
<1>8. CASE Interrupt
  BY <1>0, <1>8, <1>q DEF Interrupt, Return, files, Safe, CallHolds,
     ManifestsTrue, Live, DiskWithinReservation
<1>9. CASE Sweep
  BY <1>0, <1>9, <1>q DEF Sweep, files, Safe, CallHolds, Known,
     ManifestsTrue, Live, DiskWithinReservation
<1>10. CASE SweepOne
  <2>1. PICK k \in todo :
          /\ todo' = todo \ {k}
          /\ \/ ~Expired(k) /\ UNCHANGED <<data, pc, cur>>
             \/ /\ Expired(k) /\ data' = [data EXCEPT ![k] = Nil]
                /\ pc' = "unlink" /\ cur' = k
    BY <1>10 DEF SweepOne
  <2>2. /\ UNCHANGED <<manifest, pending>> /\ pc = "sweep"
        /\ k \in Keys /\ manifest[k] # Nil /\ todo \subseteq Known
    BY <1>0, <1>10 DEF SweepOne, CallHolds, Known
  <2>3. CASE ~Expired(k) /\ UNCHANGED <<data, pc, cur>>
    BY <1>0, <1>q, <2>1, <2>2, <2>3 DEF Safe, CallHolds, Known,
       ManifestsTrue, Live, DiskWithinReservation
  <2>4. CASE Expired(k) /\ data' = [data EXCEPT ![k] = Nil]
             /\ pc' = "unlink" /\ cur' = k
    <3>1. data'[k] = Nil /\ \A j \in Keys \ {k} : data'[j] = data[j]
      BY <2>2, <2>4 DEF TypeOK
    <3>2. manifest[k].left = 0 /\ ~Live(k)
      BY <2>4 DEF Expired, Live
    <3>3. CallHolds'
      BY <2>1, <2>2, <2>4, <3>1, <3>2 DEF CallHolds, Known
    <3>4. ManifestsTrue' /\ DiskWithinReservation'
      BY <1>0, <2>2, <3>1, <3>2 DEF ManifestsTrue, Live, DiskWithinReservation
    <3> QED
      BY <1>q, <2>2, <3>3, <3>4 DEF Safe
  <2> QED
    BY <2>1, <2>3, <2>4
<1>11. CASE UnlinkManifest
  <2>1. /\ cur \in Keys \ todo /\ data[cur] = Nil /\ todo \subseteq Known
        /\ manifest' = [manifest EXCEPT ![cur] = Nil]
        /\ pc' = "sweep" /\ UNCHANGED <<data, todo>>
    BY <1>0, <1>11 DEF UnlinkManifest, CallHolds
  <2>2. manifest'[cur] = Nil /\ \A j \in Keys \ {cur} : manifest'[j] = manifest[j]
    BY <2>1 DEF TypeOK
  <2>3. CallHolds'
    BY <2>1, <2>2 DEF CallHolds, Known
  <2>4. ManifestsTrue' /\ DiskWithinReservation'
    BY <1>0, <2>1, <2>2 DEF ManifestsTrue, Live, DiskWithinReservation
  <2>5. QuotaHeld'
    <3>1. Known' \subseteq Known /\ \A k \in Known' : manifest'[k] = manifest[k]
      BY <2>2 DEF Known
    <3> QED
      BY <1>0, <3>1, QuotaShrinks
  <2> QED
    BY <2>3, <2>4, <2>5 DEF Safe
<1>12. CASE SweepEnds
  BY <1>0, <1>12, <1>q DEF SweepEnds, files, Safe, CallHolds, ManifestsTrue,
     Live, DiskWithinReservation
<1>13. CASE Tick
  <2>1. /\ UNCHANGED <<data, pc>> /\ pc = "idle"
        /\ \A k \in Keys :
             manifest'[k] = IF Live(k) THEN Older(manifest[k]) ELSE manifest[k]
    BY <1>13 DEF Tick, call
  <2>2. \A k \in Keys : Live(k) =>
          /\ manifest[k] \in Manifests /\ Older(manifest[k]) \in Manifests
          /\ Older(manifest[k]).total = manifest[k].total
          /\ Stored(Older(manifest[k]), data[k])
    <3> SUFFICES ASSUME NEW k \in Keys, Live(k)
                 PROVE  /\ manifest[k] \in Manifests
                        /\ Older(manifest[k]) \in Manifests
                        /\ Older(manifest[k]).total = manifest[k].total
                        /\ Stored(Older(manifest[k]), data[k])
      OBVIOUS
    <3>1. /\ manifest[k] \in Manifests /\ manifest[k].left - 1 \in 0..Lifetime
          /\ Stored(manifest[k], data[k])
      <4>1. manifest[k] \in Manifests /\ manifest[k].left > 0
        BY <1>0 DEF Live
      <4>2. Stored(manifest[k], data[k])
        BY <1>0, <4>1 DEF Live, ManifestsTrue
      <4> QED
        BY <4>1, <4>2, ManifestFacts, Constants
    <3>2. /\ Older(manifest[k]) \in Manifests
          /\ Older(manifest[k]).total = manifest[k].total
          /\ Older(manifest[k]).bytes = manifest[k].bytes
          /\ Older(manifest[k]).sha256 = manifest[k].sha256
          /\ Older(manifest[k]).last_hash = manifest[k].last_hash
          /\ Older(manifest[k]).committed = manifest[k].committed
      BY <3>1 DEF Older, Manifests
    <3> QED
      BY <3>1, <3>2 DEF Stored
  <2>3. \A k \in Keys : /\ manifest'[k] # Nil <=> manifest[k] # Nil
                        /\ manifest[k] # Nil => manifest'[k].total = manifest[k].total
    BY <2>1, <2>2, Constants DEF Live
  <2>4. ManifestsTrue'
    BY <1>0, <2>1, <2>2, <2>3 DEF ManifestsTrue, Live
  <2>5. DiskWithinReservation'
    BY <1>0, <2>1, <2>3 DEF DiskWithinReservation
  <2>6. QuotaHeld'
    BY <1>0, <2>3, QuotaShrinks DEF Known
  <2> QED
    BY <2>1, <2>4, <2>5, <2>6 DEF Safe, CallHolds
<1>14. CASE UNCHANGED vars
  BY <1>0, <1>14, <1>q DEF vars, Safe, CallHolds, Known, Replaces, Admitted,
     Reserved, ManifestsTrue, Live, DiskWithinReservation
<1> QED
  BY <1>1, <1>2, <1>3, <1>4, <1>5, <1>6, <1>7, <1>8, <1>9, <1>10, <1>11,
     <1>12, <1>13, <1>14 DEF Next, Handle, Finish, Expire

(* The initial state: no files, no call.                                   *)
LEMMA InitIInv == Init => IInv
<1> SUFFICES ASSUME Init PROVE IInv
  OBVIOUS
<1>1. \A k \in Keys : manifest[k] = Nil /\ data[k] = Nil
  BY DEF Init
<1>2. TypeOK
  BY DEF Init, TypeOK
<1>3. ManifestsTrue /\ CallHolds /\ DiskWithinReservation
  BY <1>1 DEF Init, ManifestsTrue, CallHolds, DiskWithinReservation
<1>4. Known = {} /\ Reserved(Known) = {} /\ \A s \in Sids : {k \in Known : k[1] = s} = {}
  BY <1>1 DEF Known, Reserved
<1>5. Cardinality({}) = 0
  BY FS_EmptySet
<1>6. QuotaHeld
  <2>1. Cardinality(Reserved(Known)) = 0
    BY <1>4, <1>5
  <2>2. ASSUME NEW s \in Sids PROVE Cardinality({k \in Known : k[1] = s}) = 0
    <3>1. {k \in Known : k[1] = s} = {}
      BY <1>4
    <3> QED
      BY <1>5, <3>1
  <2> QED
    BY <2>1, <2>2, Constants DEF QuotaHeld
<1> QED
  BY <1>2, <1>3, <1>6 DEF IInv, Safe

(* Everything below follows from this: the strengthening holds in every    *)
(* state of every behaviour.                                               *)
THEOREM Inductive == Spec => []IInv
<1>1. IInv /\ [Next]_vars => IInv'
  BY TypeStep, SafeStep DEF IInv
<1> QED
  BY InitIInv, <1>1, PTL DEF Spec

-----------------------------------------------------------------------------
(* The results.                                                            *)

(* The files, the call under way and the sweep have the shapes the code    *)
(* gives them.                                                             *)
THEOREM TransferTypeCorrect == Spec => []TypeOK
<1>1. IInv => TypeOK
  BY DEF IInv
<1> QED
  BY Inductive, <1>1, PTL

(* A committed upload is exactly the content that transfer.begin declared, *)
(* and Resolve hands that, or nothing, to a request with params_ref.       *)
THEOREM UploadIsDeclared == Spec => []ResolvedIsDeclared
<1>1. IInv => ResolvedIsDeclared
  <2> SUFFICES ASSUME IInv, NEW k \in Keys, Live(k), manifest[k].committed
               PROVE  /\ data[k] = manifest[k].sha256
                      /\ Len(data[k]) = manifest[k].total
                      /\ Resolve(k) = IF Len(data[k]) <= ParamsBytes
                                      THEN manifest[k].sha256 ELSE Nil
    BY DEF ResolvedIsDeclared
  <2>1. /\ manifest[k] \in Manifests /\ Stored(manifest[k], data[k])
    BY DEF IInv, Safe, ManifestsTrue, Live, TypeOK
  <2>2. data[k] \in Contents /\ Len(data[k]) \in Nat
    BY <2>1 DEF Stored, IInv, TypeOK, Contents
  <2>3. data[k] = manifest[k].sha256
    BY <2>1 DEF Stored
  <2>4. Len(data[k]) = manifest[k].total
    BY <2>1, <2>2, ManifestFacts DEF Stored
  <2>5. Resolve(k) = IF Len(data[k]) <= ParamsBytes THEN manifest[k].sha256 ELSE Nil
    BY <2>3, <2>4 DEF Resolve, Usable
  <2> QED
    BY <2>3, <2>4, <2>5
<1> QED
  BY Inductive, <1>1, PTL

(* The manifest never runs ahead of the data: the last chunk it records is *)
(* on disk at its place, through every interrupted call and restart.       *)
THEOREM LastChunkIsStored == Spec => []LastIsStored
<1>1. IInv => LastIsStored
  <2> SUFFICES ASSUME IInv, NEW k \in Keys, Live(k)
               PROVE  /\ data[k] # Nil /\ Len(data[k]) >= manifest[k].bytes
                      /\ LET last == manifest[k].last_hash IN
                         SubSeq(data[k], manifest[k].bytes - Len(last) + 1,
                                manifest[k].bytes) = last
    BY DEF LastIsStored
  <2> DEFINE m == manifest[k]
             last == m.last_hash
             at == m.bytes - Len(last)
             piece == SubSeq(data[k], at + 1, m.bytes)
  <2>1. m \in Manifests /\ Stored(m, data[k])
    BY DEF IInv, Safe, ManifestsTrue, Live, TypeOK
  <2>2. data[k] \in Contents /\ Len(data[k]) \in Nat
    BY <2>1 DEF Stored, IInv, TypeOK, Contents
  <2>3. /\ m.bytes \in Nat /\ last \in Contents /\ Len(last) \in Nat
        /\ m.bytes <= Len(data[k]) /\ Len(last) <= m.bytes /\ data[k] # Nil
        /\ \A i \in 1..Len(last) : data[k][at + i] = last[i]
    BY <2>1, ManifestFacts DEF Stored
  <2> HIDE DEF m, last
  <2>4. at \in Nat /\ at <= m.bytes /\ m.bytes - at = Len(last)
    BY <2>3
  <2> HIDE DEF at
  <2>5. /\ piece \in Contents /\ Len(piece) = m.bytes - at
        /\ \A n \in 1..(m.bytes - at) : piece[n] = data[k][at + n]
    BY <2>2, <2>3, <2>4, PieceFacts
  <2> HIDE DEF piece
  <2>6. piece = last
    BY <2>3, <2>4, <2>5, SeqEqual DEF Contents
  <2> QED
    BY <2>2, <2>3, <2>6 DEF m, last, at, piece
<1> QED
  BY Inductive, <1>1, PTL

(* A session never has more transfers than it may, and all transfers       *)
(* together never reserve more than the gateway allows.                    *)
THEOREM QuotasHold == Spec => []QuotaHeld
<1>1. IInv => QuotaHeld
  BY DEF IInv, Safe
<1> QED
  BY Inductive, <1>1, PTL

(* A file never exceeds its reservation, and one that has lost its         *)
(* manifest, which no sweep would find, is empty.                          *)
THEOREM DiskIsBounded == Spec => []DiskWithinReservation
<1>1. IInv => DiskWithinReservation
  BY DEF IInv, Safe
<1> QED
  BY Inductive, <1>1, PTL

-----------------------------------------------------------------------------
(* What a step does to the bytes that have arrived.                        *)

Kept(k) ==
  /\ manifest'[k].bytes >= manifest[k].bytes
  /\ data'[k] # Nil /\ Len(data'[k]) >= manifest[k].bytes
  /\ SubSeq(data'[k], 1, manifest[k].bytes) = Arrived(k)

(* The facts the invariant has about a live transfer.                      *)
LEMMA LiveFacts ==
  ASSUME IInv, NEW k \in Keys, Live(k)
  PROVE  /\ manifest[k] \in Manifests /\ Stored(manifest[k], data[k])
         /\ data[k] \in Contents /\ Len(data[k]) \in Nat
         /\ manifest[k].bytes \in Nat /\ manifest[k].bytes <= Len(data[k])
<1>1. manifest[k] \in Manifests /\ Stored(manifest[k], data[k])
  BY DEF IInv, Safe, ManifestsTrue, Live, TypeOK
<1>2. data[k] \in Contents /\ Len(data[k]) \in Nat
  BY <1>1 DEF Stored, IInv, TypeOK, Contents
<1> QED
  BY <1>1, <1>2, ManifestFacts DEF Stored

(* A step that leaves the file alone keeps what has arrived as long as the *)
(* count does not fall.                                                    *)
LEMMA KeptIfUntouched ==
  ASSUME IInv, NEW k \in Keys, Live(k), data'[k] = data[k],
         manifest'[k].bytes >= manifest[k].bytes
  PROVE  Kept(k)
BY LiveFacts DEF Kept, Arrived, Stored

(* A step that rewrites the file beyond the count keeps what has arrived.  *)
LEMMA KeptIfBeyond ==
  ASSUME IInv, NEW k \in Keys, Live(k), manifest'[k] = manifest[k],
         data'[k] \in Contents, Len(data'[k]) >= manifest[k].bytes,
         \A i \in 1..manifest[k].bytes : data'[k][i] = data[k][i]
  PROVE  Kept(k)
<1>1. /\ data[k] \in Contents /\ manifest[k].bytes \in Nat
      /\ manifest[k].bytes <= Len(data[k]) /\ Len(data'[k]) \in Nat
  BY LiveFacts DEF Contents
<1>2. manifest[k].bytes <= Len(data'[k])
  BY <1>1
<1>3. SubSeq(data'[k], 1, manifest[k].bytes) = SubSeq(data[k], 1, manifest[k].bytes)
  BY <1>1, <1>2, SamePrefix
<1> QED
  BY <1>1, <1>3, Constants DEF Kept, Arrived

(* No step changes the bytes of a transfer that survives it.               *)
LEMMA KeptStep ==
  ASSUME IInv, [Next]_vars, NEW k \in Keys, Live(k), manifest'[k] # Nil
  PROVE  Kept(k)
<1>0. TypeOK /\ ManifestsTrue /\ CallHolds /\ manifest[k].bytes \in Nat
  BY LiveFacts DEF IInv, Safe
<1>s. manifest'[k] = manifest[k] /\ data'[k] = data[k] => Kept(k)
  BY <1>0, KeptIfUntouched
<1>1. ASSUME NEW j \in Keys, NEW b \in Begins, Begin(j, b) PROVE Kept(k)
  BY <1>0, <1>1, <1>s DEF Begin, IsNew, Live, TypeOK
<1>2. ASSUME NEW j \in Keys, NEW c \in Chunks, WriteChunk(j, c) PROVE Kept(k)
  <2>1. /\ manifest' = manifest /\ (j # k => data'[k] = data[k])
        /\ data'[j] = Overwrite(data[j], manifest[j].bytes, c.data)
        /\ Live(j) /\ ~manifest[j].committed /\ ~TooLarge(j, c)
        /\ c.data \in Contents /\ Len(c.data) \in Nat
    BY <1>0, <1>2, Constants DEF WriteChunk, Accepts, Offset, TypeOK, Contents
  <2>2. CASE j # k
    BY <1>s, <2>1, <2>2
  <2>3. CASE j = k
    <3>1. manifest[k].total \in Nat
      BY LiveFacts, ManifestFacts
    <3>2. manifest[k].bytes + Len(c.data) <= manifest[k].total
      BY <1>0, <2>1, <2>3, <3>1 DEF TooLarge
    <3>3. /\ data'[k] \in Contents
          /\ manifest[k].bytes + Len(c.data) <= Len(data'[k])
          /\ \A i \in 1..manifest[k].bytes : data'[k][i] = data[k][i]
      <4>1. /\ ~manifest[k].committed /\ c.data \in Contents
            /\ data'[k] = Overwrite(data[k], manifest[k].bytes, c.data)
        BY <2>1, <2>3
      <4> QED
        BY <1>0, <3>2, <4>1, WriteKeeps
    <3>4. Len(data'[k]) >= manifest[k].bytes
      <4>1. Len(data'[k]) \in Nat
        BY <3>3 DEF Contents
      <4> QED
        BY <1>0, <2>1, <3>3, <4>1
    <3> QED
      BY <2>1, <3>3, <3>4, KeptIfBeyond
  <2> QED
    BY <2>2, <2>3
<1>3. ASSUME NEW j \in Keys, NEW c \in Chunks, WriteFails(j, c) PROVE Kept(k)
  <2>1. PICK n \in 0..(Len(c.data) - 1) :
          data' = [data EXCEPT ![j] =
                     Overwrite(@, Offset(j, c), SubSeq(c.data, 1, n))]
    BY <1>3 DEF WriteFails
  <2> DEFINE new == SubSeq(c.data, 1, n)
  <2>2. /\ manifest' = manifest /\ (j # k => data'[k] = data[k])
        /\ data'[j] = Overwrite(data[j], manifest[j].bytes, new)
        /\ Live(j) /\ ~manifest[j].committed /\ ~TooLarge(j, c)
        /\ c.data \in Contents /\ Len(c.data) \in Nat
    BY <1>0, <1>3, <2>1, Constants DEF WriteFails, Accepts, Offset, TypeOK, Contents
  <2>3. new \in Contents /\ Len(new) = n
    BY <2>2, PrefixFacts
  <2> HIDE DEF new
  <2>4. CASE j # k
    BY <1>s, <2>2, <2>4
  <2>5. CASE j = k
    <3>1. manifest[k].total \in Nat
      BY LiveFacts, ManifestFacts
    <3>2. manifest[k].bytes + Len(new) <= manifest[k].total
      BY <1>0, <2>2, <2>3, <2>5, <3>1 DEF TooLarge
    <3>3. /\ data'[k] \in Contents
          /\ manifest[k].bytes + Len(new) <= Len(data'[k])
          /\ \A i \in 1..manifest[k].bytes : data'[k][i] = data[k][i]
      BY <1>0, <2>2, <2>3, <2>5, <3>2, WriteKeeps
    <3>4. Len(data'[k]) >= manifest[k].bytes
      <4>1. Len(data'[k]) \in Nat
        BY <3>3 DEF Contents
      <4> QED
        BY <1>0, <2>3, <3>3, <4>1
    <3> QED
      BY <2>2, <3>3, <3>4, KeptIfBeyond
  <2> QED
    BY <2>4, <2>5
<1>4. CASE Truncate
  <2>1. /\ cur \in Keys /\ pending \in Manifests /\ Stored(pending, data[cur])
        /\ Replaces(cur, pending)
    BY <1>0, <1>4 DEF Truncate, CallHolds
  <2>2. /\ manifest' = manifest /\ data'[cur] = SubSeq(data[cur], 1, pending.bytes)
        /\ cur # k => data'[k] = data[k]
    BY <1>0, <1>4, <2>1 DEF Truncate, TypeOK
  <2>3. CASE cur # k
    BY <1>s, <2>2, <2>3
  <2>4. CASE cur = k
    <3>1. /\ pending.bytes \in Nat /\ pending.bytes <= Len(data[k])
          /\ manifest[k].bytes <= pending.bytes
      BY <1>0, <2>1, <2>4, ManifestFacts DEF Stored, Replaces
    <3>2. /\ data'[k] \in Contents /\ Len(data'[k]) = pending.bytes
          /\ \A i \in 1..pending.bytes : data'[k][i] = data[k][i]
      <4>1. data[k] \in Contents /\ data'[k] = SubSeq(data[k], 1, pending.bytes)
        BY <2>2, <2>4, LiveFacts
      <4> QED
        BY <3>1, <4>1, PrefixFacts
    <3>3. \A i \in 1..manifest[k].bytes : data'[k][i] = data[k][i]
      BY <1>0, <3>1, <3>2
    <3> QED
      BY <1>0, <2>2, <3>1, <3>2, <3>3, KeptIfBeyond
  <2> QED
    BY <2>3, <2>4
<1>5. ASSUME NEW j \in Keys, Commit(j) \/ TransferStatus(j) PROVE Kept(k)
  BY <1>5, <1>s DEF Commit, TransferStatus, files
<1>6. CASE SaveManifest
  <2>1. /\ cur \in Keys /\ manifest' = [manifest EXCEPT ![cur] = pending]
        /\ data' = data /\ (manifest[cur] # Nil => Replaces(cur, pending))
    BY <1>0, <1>6 DEF SaveManifest, CallHolds
  <2>2. manifest'[k].bytes >= manifest[k].bytes
    BY <1>0, <2>1 DEF TypeOK, Replaces, Live
  <2> QED
    BY <2>1, <2>2, KeptIfUntouched
<1>7. CASE Interrupt \/ Sweep \/ SweepEnds \/ UNCHANGED vars
  BY <1>7, <1>s DEF Interrupt, Sweep, SweepEnds, vars, files
<1>8. CASE SweepOne
  BY <1>0, <1>8, <1>s DEF SweepOne, Expired, Live, TypeOK
<1>9. CASE UnlinkManifest
  BY <1>0, <1>9, <1>s DEF UnlinkManifest, TypeOK
<1>10. CASE Tick
  <2>1. manifest'[k] = Older(manifest[k]) /\ data' = data
    BY <1>10 DEF Tick
  <2>2. manifest[k] \in Manifests
    BY LiveFacts
  <2>3. manifest'[k].bytes = manifest[k].bytes
    BY <2>1, <2>2 DEF Older, Manifests
  <2> QED
    BY <1>0, <2>1, <2>3, KeptIfUntouched
<1> QED
  BY <1>1, <1>2, <1>3, <1>4, <1>5, <1>6, <1>7, <1>8, <1>9, <1>10
  DEF Next, Handle, Finish, Expire

(* The bytes a client was told have arrived are changed by nothing that    *)
(* happens while the transfer lives: no retry, no failed or interrupted    *)
(* write, no restart, no sweep.                                            *)
THEOREM ArrivedBytesAreKept == Spec => ArrivedIsKept
<1>1. ASSUME IInv, [Next]_vars
      PROVE  [\A k \in Keys : Live(k) /\ manifest'[k] # Nil =>
                /\ manifest'[k].bytes >= manifest[k].bytes
                /\ data'[k] # Nil /\ Len(data'[k]) >= manifest[k].bytes
                /\ SubSeq(data'[k], 1, manifest[k].bytes) = Arrived(k)]_vars
  BY <1>1, KeptStep DEF Kept
<1> QED
  BY Inductive, <1>1, PTL DEF Spec, ArrivedIsKept
=============================================================================
