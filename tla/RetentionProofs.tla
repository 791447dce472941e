--------------------------- MODULE RetentionProofs ---------------------------
(***************************************************************************)
(* Proofs about Retention: what is deleted can be undone, nothing else     *)
(* brings a message back, and files in use stay in the storage, for any    *)
(* messages, files, transactions and deaths of processes.                  *)
(***************************************************************************)
EXTENDS Retention, SequenceTheorems, TLAPS

(* The files that anything refers to. *)
Refs == Linked(links) \cup Linked(archive.links) \cup scheduled

(* A message that is only in the archive is there for its last deletion. *)
ArchiveMatches ==
  \A m \in archive.messages \ live : archive.tx[m] = deleted_in[m]

(* What the archiver and the sweep are about to delete is not in use, but  *)
(* for the files that were claimed after they had looked.                  *)
ArchiverSafe == archiver.found \cap (Linked(links) \cup scheduled) \subseteq Excepted
SweepSafe ==
  /\ (sweep.found \cup sweep.paths) \cap Refs \subseteq Excepted
  /\ sweep.paths \cap attachments \subseteq Excepted

(* A file that can be claimed is in the storage. *)
ClaimableStored == attachments \subseteq stored \cup Excepted

FilesInv == FilesStay /\ ArchiverSafe /\ SweepSafe /\ ClaimableStored
UndoInv == DeletionCanBeUndone /\ ArchiveMatches

-----------------------------------------------------------------------------
(* Sets of links. *)

(* What Linked and LinksOf give for the sets of links that the actions of  *)
(* Retention build with unions and by removing the links to some files.    *)
LEMMA LinkFacts ==
  ASSUME NEW a, NEW b, NEW ms, NEW fs
  PROVE  /\ Linked(a \cup b) = Linked(a) \cup Linked(b)
         /\ LinksOf(a \cup b, ms) = LinksOf(a, ms) \cup LinksOf(b, ms)
         /\ Linked(a \ LinksTo(a, fs)) = Linked(a) \ fs
         /\ Linked(LinksOf(a, ms)) \subseteq Linked(a)
         /\ Linked(LinksOf(a \ LinksTo(a, fs), ms)) = Linked(LinksOf(a, ms)) \ fs
         /\ \A m \in ms : LinksOf(LinksOf(a, ms), {m}) = LinksOf(a, {m})
         /\ \A m : m \notin ms => LinksOf(a \ LinksOf(a, ms), {m}) = LinksOf(a, {m})
         /\ Linked(a \ LinksOf(a, ms)) \subseteq Linked(a)
  BY DEF Linked, LinksOf, LinksTo

(* The rows that a claim adds. *)
LEMMA NewLinks ==
  ASSUME NEW m, NEW fs, NEW row
  PROVE  /\ Linked({m} \X fs \X {row}) = fs
         /\ LinksOf({m} \X fs \X {row}, {m}) = {m} \X fs \X {row}
         /\ \A x : x # m => LinksOf({m} \X fs \X {row}, {x}) = {}
<1> DEFINE new == {m} \X fs \X {row}
<1>1. \A l \in new : l[1] = m /\ l[2] \in fs
  OBVIOUS
<1>2. \A f \in fs : <<m, f, row>> \in new /\ <<m, f, row>>[2] = f
  OBVIOUS
<1>3. Linked(new) = fs
  BY <1>1, <1>2 DEF Linked
<1> QED
  BY <1>1, <1>3 DEF LinksOf

(* do_claim_attachments: the message is linked to what it claims, and the  *)
(* links of other messages stay.                                           *)
LEMMA ClaimLinks ==
  ASSUME NEW m, NEW fs, Claim(m, fs)
  PROVE  /\ Linked(LinksOf(links', {m})) = fs \cap attachments
         /\ \A x : x # m => LinksOf(links', {x}) = LinksOf(links, {x})
         /\ Linked(links') \subseteq Linked(links) \cup (fs \cap attachments)
         /\ Linked(links') \cap Doomed \subseteq Linked(links) \cup raced'
<1> DEFINE claimed == fs \cap attachments
           kept == {l \in links : l[1] = m => l[2] \in claimed}
           added == claimed \ Linked(LinksOf(links, {m}))
           row == version[m] + 1
           new == {m} \X added \X {row}
<1>1. links' = kept \cup new /\ raced' = raced \cup (added \cap Doomed)
  BY DEF Claim
<1>2. /\ Linked(new) = added /\ LinksOf(new, {m}) = new
      /\ \A x : x # m => LinksOf(new, {x}) = {}
  <2> HIDE DEF added, row
  <2> QED
    BY NewLinks
<1>3. /\ Linked(LinksOf(kept, {m})) = claimed \cap Linked(LinksOf(links, {m}))
      /\ \A x : x # m => LinksOf(kept, {x}) = LinksOf(links, {x})
      /\ Linked(kept) \subseteq Linked(links)
  BY DEF Linked, LinksOf
<1>4. /\ Linked(LinksOf(links', {m})) = Linked(LinksOf(kept, {m})) \cup Linked(LinksOf(new, {m}))
      /\ \A x : LinksOf(links', {x}) = LinksOf(kept, {x}) \cup LinksOf(new, {x})
      /\ Linked(links') = Linked(kept) \cup Linked(new)
  <2> HIDE DEF kept, new
  <2>1. Linked(links') = Linked(kept) \cup Linked(new)
    BY <1>1 DEF Linked
  <2>2. \A ms : /\ LinksOf(links', ms) = LinksOf(kept, ms) \cup LinksOf(new, ms)
                /\ Linked(LinksOf(links', ms)) = Linked(LinksOf(kept, ms)) \cup Linked(LinksOf(new, ms))
    BY <1>1 DEF Linked, LinksOf
  <2> QED
    BY <2>1, <2>2
<1> HIDE DEF kept, new
<1>5. Linked(LinksOf(links, {m})) \subseteq Linked(links)
  BY DEF Linked, LinksOf
<1>6. Linked(LinksOf(links', {m})) = claimed /\ Linked(links') \subseteq Linked(links) \cup claimed
  <2> Linked(LinksOf(links', {m})) = (claimed \cap Linked(LinksOf(links, {m}))) \cup added
    BY <1>2, <1>3, <1>4
  <2> QED
    BY <1>2, <1>3, <1>4, <1>5
<1>7. \A x : x # m => LinksOf(links', {x}) = LinksOf(links, {x})
  BY <1>2, <1>3, <1>4
<1>8. Linked(links') \cap Doomed \subseteq Linked(links) \cup raced'
  BY <1>1, <1>2, <1>3, <1>4
<1> QED
  BY <1>6, <1>7, <1>8

-----------------------------------------------------------------------------
(* Types. *)

(* A claim keeps the types of what it changes. *)
LEMMA ClaimType ==
  ASSUME TypeOK, NEW m \in Messages, NEW fs \in SUBSET Files, Claim(m, fs),
         version' = [version EXCEPT ![m] = version[m] + 1], live' = live \cup {m}
  PROVE  /\ files' \in [Messages -> SUBSET Files] /\ version' \in [Messages -> Nat]
         /\ links' \subseteq live' \X Files \X Nat
         /\ Linked(links') \subseteq attachments
<1> DEFINE added == (fs \cap attachments) \ Linked(LinksOf(links, {m}))
           row == version[m] + 1
<1>1. row \in Nat /\ added \subseteq Files
  BY DEF TypeOK
<1>2. links' \subseteq links \cup ({m} \X added \X {row})
  BY DEF Claim
<1>3. {m} \X added \X {row} \subseteq live' \X Files \X Nat
  <2> HIDE DEF added, row
  <2> QED
    BY <1>1
<1>4. links \subseteq live' \X Files \X Nat
  BY DEF TypeOK
<1>5. files' \in [Messages -> SUBSET Files] /\ version' \in [Messages -> Nat]
  BY <1>1 DEF Claim, TypeOK
<1>6. Linked(links') \subseteq attachments
  BY ClaimLinks DEF TypeOK
<1> HIDE DEF added, row
<1> QED
  BY <1>2, <1>3, <1>4, <1>5, <1>6

(* Transactions keep their number when one is restored or some are         *)
(* vacuumed.                                                               *)
LEMMA TransactionFacts ==
  ASSUME NEW s \in Seq([restored : BOOLEAN, vacuumed : BOOLEAN]), NEW t \in DOMAIN s
  PROVE  /\ Len(s) \in Nat /\ DOMAIN s = 1..Len(s)
         /\ [s EXCEPT ![t].restored = TRUE] \in Seq([restored : BOOLEAN, vacuumed : BOOLEAN])
         /\ Len([s EXCEPT ![t].restored = TRUE]) = Len(s)
         /\ \A i \in DOMAIN s :
              /\ [s EXCEPT ![t].restored = TRUE][i].vacuumed = s[i].vacuumed
              /\ i # t => [s EXCEPT ![t].restored = TRUE][i] = s[i]
         /\ [s EXCEPT ![t].restored = TRUE][t].restored
         /\ [i \in DOMAIN s |-> IF i <= t THEN Vacuumed ELSE s[i]]
              \in Seq([restored : BOOLEAN, vacuumed : BOOLEAN])
         /\ Len([i \in DOMAIN s |-> IF i <= t THEN Vacuumed ELSE s[i]]) = Len(s)
<1> DEFINE T == [restored : BOOLEAN, vacuumed : BOOLEAN]
           r == [s[t] EXCEPT !.restored = TRUE]
           rs == [s EXCEPT ![t].restored = TRUE]
           vs == [i \in DOMAIN s |-> IF i <= t THEN Vacuumed ELSE s[i]]
<1>1. Len(s) \in Nat /\ DOMAIN s = 1..Len(s) /\ \A i \in 1..Len(s) : s[i] \in T
  <2> s \in Seq(T)
    OBVIOUS
  <2> HIDE DEF T
  <2> QED
    BY LenProperties, ElementOfSeq
<1>2. r \in T /\ r.vacuumed = s[t].vacuumed /\ r.restored
  BY <1>1
<1>3. rs = [s EXCEPT ![t] = r]
  OBVIOUS
<1>4. Vacuumed \in T
  BY DEF Vacuumed
<1> HIDE DEF T, r
<1>5. /\ rs \in [1..Len(s) -> T] /\ rs[t] = r
      /\ \A i \in DOMAIN s : i # t => rs[i] = s[i]
  BY <1>1, <1>2, <1>3
<1>6. vs \in [1..Len(s) -> T]
  BY <1>1, <1>4
<1> HIDE DEF rs, vs
<1>7. /\ rs \in Seq(T) /\ Len(rs) = Len(s) /\ vs \in Seq(T) /\ Len(vs) = Len(s)
  <2>1. rs \in Seq(T) /\ vs \in Seq(T)
    BY <1>1, <1>5, <1>6, SeqDef
  <2>2. DOMAIN rs = 1..Len(s) /\ DOMAIN vs = 1..Len(s)
    BY <1>5, <1>6
  <2> QED
    BY <1>1, <2>1, <2>2, LenProperties
<1>8. \A i \in DOMAIN s : rs[i].vacuumed = s[i].vacuumed
  BY <1>2, <1>5
<1> QED
  BY <1>1, <1>2, <1>5, <1>7, <1>8 DEF T, rs, vs

LEMMA TypeStep == TypeOK /\ [Next]_vars => TypeOK'
<1> SUFFICES ASSUME TypeOK, [Next]_vars PROVE TypeOK'
  OBVIOUS
<1> USE DEF Idle, NoSweep
<1>1. ASSUME NEW m \in Messages, NEW fs \in SUBSET Files, SendMessage(m, fs) PROVE TypeOK'
  <2>1. version[m] = 0 /\ version' = [version EXCEPT ![m] = version[m] + 1]
    BY <1>1 DEF SendMessage, TypeOK
  <2>2. Claim(m, fs) /\ live' = live \cup {m}
    BY <1>1 DEF SendMessage
  <2>3. UNCHANGED <<scheduled, attachments, stored, archive_vars>>
    BY <1>1 DEF SendMessage
  <2> QED
    BY <2>1, <2>2, <2>3, ClaimType DEF TypeOK, archive_vars
<1>2. ASSUME NEW m \in Messages, NEW fs \in SUBSET Files, EditMessage(m, fs) PROVE TypeOK'
  <2>1. m \in live /\ live' = live /\ live' = live \cup {m}
    BY <1>2 DEF EditMessage
  <2>2. Claim(m, fs) /\ version' = [version EXCEPT ![m] = version[m] + 1]
    BY <1>2 DEF EditMessage
  <2>3. UNCHANGED <<scheduled, attachments, stored, archive_vars>>
    BY <1>2 DEF EditMessage
  <2> QED
    BY <2>1, <2>2, <2>3, ClaimType DEF TypeOK, archive_vars
<1>3. ASSUME NEW f \in Files, Schedule(f) PROVE TypeOK'
  BY <1>3 DEF TypeOK, Schedule, archive_vars
<1>4. ASSUME NEW f \in Files, RemoveAttachment(f) PROVE TypeOK'
  <2>1. Linked(links') = Linked(links) \ {f}
    BY <1>4, LinkFacts DEF RemoveAttachment
  <2> QED
    BY <1>4, <2>1 DEF TypeOK, RemoveAttachment, archive_vars
<1>5. ASSUME NEW ms \in SUBSET live, NEW type \in {"policy", "manual"}, ArchiveChunk(ms, type)
      PROVE  TypeOK'
  <2> DEFINE n == Len(txs) + 1
  <2>1. /\ txs' = Append(txs, [restored |-> FALSE, vacuumed |-> FALSE])
        /\ archive' = Archived(ms, n) /\ live' = live \ ms
        /\ links' = links \ LinksOf(links, ms)
        /\ archived_attachments' = archived_attachments \cup Linked(LinksOf(links, ms))
        /\ deleted_in' = [m \in Messages |-> IF m \in ms THEN n ELSE deleted_in[m]]
        /\ UNCHANGED <<version, files, scheduled, attachments, stored, sweep>>
    BY <1>5 DEF ArchiveChunk
  <2>2. /\ txs' \in Seq([restored : BOOLEAN, vacuumed : BOOLEAN]) /\ Len(txs') = n
        /\ n \in Nat \ {0} /\ Len(txs) \in Nat
        /\ \A i \in 1..Len(txs) : txs'[i] = txs[i]
        /\ ~ txs'[n].vacuumed
    BY <2>1 DEF TypeOK
  <2>3. /\ archive'.messages = archive.messages \cup ms
        /\ archive'.version = [m \in Messages |-> IF m \in ms \ archive.messages THEN version[m]
                                                   ELSE archive.version[m]]
        /\ archive'.tx = [m \in Messages |-> IF m \in ms THEN n ELSE archive.tx[m]]
        /\ archive'.links = archive.links \cup LinksOf(links, ms)
        /\ archive' = [messages |-> archive'.messages, version |-> archive'.version,
                       tx |-> archive'.tx, links |-> archive'.links]
    BY <2>1 DEF Archived
  <2> HIDE DEF n
  <2>4. /\ archive'.messages \in SUBSET Messages
        /\ archive'.version \in [Messages -> Nat] /\ archive'.tx \in [Messages -> 0..Len(txs')]
        /\ deleted_in' \in [Messages -> 0..Len(txs')]
    <3>1. n \in 0..Len(txs') /\ 0..Len(txs) \subseteq 0..Len(txs')
      BY <2>2 DEF n
    <3>2. archive'.messages \in SUBSET Messages /\ archive'.version \in [Messages -> Nat]
      BY <2>3 DEF TypeOK
    <3>3. archive'.tx \in [Messages -> 0..Len(txs')]
      BY <2>3, <3>1 DEF TypeOK
    <3>4. deleted_in' \in [Messages -> 0..Len(txs')]
      BY <2>1, <3>1 DEF TypeOK
    <3> QED
      BY <3>2, <3>3, <3>4
  <2>5. archive'.links \in SUBSET (Messages \X Files \X Nat)
    BY <2>3 DEF TypeOK, LinksOf
  <2>6. archive' \in [messages : SUBSET Messages, version : [Messages -> Nat],
                  tx : [Messages -> 0..Len(txs')], links : SUBSET (Messages \X Files \X Nat)]
    BY <2>3, <2>4, <2>5
  <2>7. /\ LinksOf(archive'.links, archive'.messages) = archive'.links
        /\ Linked(archive'.links) \subseteq archived_attachments'
    BY <2>1, <2>3 DEF TypeOK, LinksOf, Linked
  <2>8. \A m \in archive'.messages : archive'.tx[m] > 0 /\ ~ txs'[archive'.tx[m]].vacuumed
    <3> SUFFICES ASSUME NEW m \in archive'.messages
                 PROVE  archive'.tx[m] > 0 /\ ~ txs'[archive'.tx[m]].vacuumed
      OBVIOUS
    <3>1. CASE m \in ms
      BY <2>2, <2>3, <3>1 DEF TypeOK
    <3>2. CASE m \notin ms
      <4>1. m \in archive.messages /\ m \in Messages /\ archive'.tx[m] = archive.tx[m]
        BY <2>3, <3>2 DEF TypeOK
      <4>2. archive.tx[m] \in 1..Len(txs) /\ ~ txs[archive.tx[m]].vacuumed
        BY <2>2, <4>1 DEF TypeOK
      <4> QED
        BY <2>2, <4>1, <4>2
    <3> QED
      BY <3>1, <3>2
  <2>9. /\ links' \subseteq live' \X Files \X Nat
        /\ Linked(links') \cup scheduled' \subseteq attachments'
    BY <2>1 DEF TypeOK, LinksOf, Linked
  <2>10. archiver' \in [step : {"idle", "policy", "manual", "found"}, scope : SUBSET Messages,
                   found : SUBSET Files]
    BY <1>5 DEF TypeOK, ArchiveChunk
  <2>11. attachments' \cup archived_attachments' \cup stored' \subseteq Files
    BY <2>1 DEF TypeOK, LinksOf, Linked
  <2> QED
    BY <2>1, <2>2, <2>4, <2>6, <2>7, <2>8, <2>9, <2>10, <2>11 DEF TypeOK
<1>6. CASE FindAttachments
  BY <1>6 DEF TypeOK, FindAttachments
<1>7. CASE DeleteAttachments
  <2>1. Linked(links') = Linked(links) \ archiver.found
    BY <1>7, LinkFacts DEF DeleteAttachments
  <2> QED
    BY <1>7, <2>1 DEF TypeOK, DeleteAttachments
<1>8. CASE ArchiverDies
  BY <1>8 DEF TypeOK, ArchiverDies
<1>9. ASSUME NEW t \in DOMAIN txs, Restore(t) PROVE TypeOK'
  <2> DEFINE ms == {m \in archive.messages : archive.tx[m] = t}
             back == LinksOf(archive.links, ms)
  <2>1. /\ live' = live \cup ms /\ links' = links \cup back
        /\ attachments' = attachments \cup Linked(back)
        /\ txs' = [txs EXCEPT ![t].restored = TRUE]
        /\ UNCHANGED <<scheduled, archive, archived_attachments, stored, archiver, sweep, deleted_in>>
    BY <1>9 DEF Restore
  <2>2. /\ txs' \in Seq([restored : BOOLEAN, vacuumed : BOOLEAN]) /\ Len(txs') = Len(txs)
        /\ \A i \in DOMAIN txs : txs'[i].vacuumed = txs[i].vacuumed
    BY <2>1, TransactionFacts DEF TypeOK
  <2>3. version' \in [Messages -> Nat]
    BY <1>9 DEF Restore, TypeOK
  <2>4. \A m \in Messages : Linked(LinksOf(archive.links, {m})) \subseteq Files
    BY DEF Linked, LinksOf, TypeOK
  <2>5. files' = [m \in Messages |-> IF m \in ms \ live THEN Linked(LinksOf(archive.links, {m}))
                                     ELSE files[m]]
    BY <1>9 DEF Restore
  <2>6. files' \in [Messages -> SUBSET Files]
    BY <2>4, <2>5 DEF TypeOK
  <2>7. /\ links' \subseteq live' \X Files \X Nat
        /\ Linked(links') \cup scheduled' \subseteq attachments'
        /\ attachments' \subseteq Files
    BY <2>1 DEF TypeOK, LinksOf, Linked
  <2>8. \A m \in archive'.messages : archive'.tx[m] > 0 /\ ~ txs'[archive'.tx[m]].vacuumed
    BY <2>1, <2>2 DEF TypeOK
  <2> QED
    BY <2>1, <2>2, <2>3, <2>6, <2>7, <2>8 DEF TypeOK
<1>10. ASSUME NEW t \in DOMAIN txs, Vacuum(t) PROVE TypeOK'
  <2> DEFINE ms == {m \in archive.messages : archive.tx[m] <= t}
  <2>1. /\ txs' = [i \in DOMAIN txs |-> IF i <= t THEN Vacuumed ELSE txs[i]]
        /\ files' = [m \in Messages |-> IF m \notin live /\ deleted_in[m] <= t THEN {} ELSE files[m]]
        /\ UNCHANGED <<live, version, links, scheduled, attachments, archived_attachments,
                       stored, archiver, sweep, deleted_in>>
    BY <1>10 DEF Vacuum
  <2>2. /\ txs' \in Seq([restored : BOOLEAN, vacuumed : BOOLEAN]) /\ Len(txs') = Len(txs)
        /\ \A i \in DOMAIN txs : ~ i <= t => txs'[i] = txs[i]
        /\ DOMAIN txs = 1..Len(txs) /\ Len(txs) \in Nat
    BY <2>1, TransactionFacts DEF TypeOK
  <2>3. files' \in [Messages -> SUBSET Files]
    BY <2>1 DEF TypeOK
  <2>4. archive' = [archive EXCEPT !.messages = @ \ ms, !.links = @ \ LinksOf(@, ms),
                       !.version = [m \in Messages |-> IF m \in ms THEN 0 ELSE @[m]],
                       !.tx = [m \in Messages |-> IF m \in ms THEN 0 ELSE @[m]]]
    BY <1>10 DEF Vacuum
  <2> HIDE DEF ms
  <2>5. /\ archive'.messages = archive.messages \ ms
        /\ archive'.links = archive.links \ LinksOf(archive.links, ms)
        /\ archive'.version = [m \in Messages |-> IF m \in ms THEN 0 ELSE archive.version[m]]
        /\ archive'.tx = [m \in Messages |-> IF m \in ms THEN 0 ELSE archive.tx[m]]
        /\ archive' = [messages |-> archive'.messages, version |-> archive'.version,
                       tx |-> archive'.tx, links |-> archive'.links]
    BY <2>4 DEF TypeOK
  <2>6. /\ archive'.messages \in SUBSET Messages
        /\ archive'.version \in [Messages -> Nat] /\ archive'.tx \in [Messages -> 0..Len(txs')]
    BY <2>2, <2>5 DEF TypeOK
  <2>7. archive'.links \in SUBSET (Messages \X Files \X Nat)
    BY <2>5 DEF TypeOK, LinksOf
  <2>8. archive' \in [messages : SUBSET Messages, version : [Messages -> Nat],
                  tx : [Messages -> 0..Len(txs')], links : SUBSET (Messages \X Files \X Nat)]
    BY <2>5, <2>6, <2>7
  <2>9. /\ LinksOf(archive'.links, archive'.messages) = archive'.links
        /\ Linked(archive'.links) \subseteq archived_attachments'
    BY <2>1, <2>5 DEF TypeOK, LinksOf, Linked
  <2>10. \A m \in archive'.messages : archive'.tx[m] > 0 /\ ~ txs'[archive'.tx[m]].vacuumed
    <3> SUFFICES ASSUME NEW m \in archive'.messages
                 PROVE  archive'.tx[m] > 0 /\ ~ txs'[archive'.tx[m]].vacuumed
      OBVIOUS
    <3>1. m \in archive.messages \ ms /\ m \in Messages /\ archive'.tx[m] = archive.tx[m]
      BY <2>5 DEF TypeOK
    <3>2. archive.tx[m] \in 0..Len(txs) /\ archive.tx[m] > 0 /\ ~ txs[archive.tx[m]].vacuumed
      BY <3>1 DEF TypeOK
    <3>3. ~ archive.tx[m] <= t
      BY <3>1 DEF ms
    <3>4. archive.tx[m] \in DOMAIN txs
      BY <2>2, <3>2
    <3> QED
      BY <2>2, <3>1, <3>2, <3>3, <3>4
  <2> QED
    BY <2>1, <2>2, <2>3, <2>8, <2>9, <2>10 DEF TypeOK
<1>11. CASE SweepFinds
  <2>1. Unclaimed \subseteq Files /\ UnclaimedArchived \subseteq Files
    BY DEF TypeOK, Unclaimed, UnclaimedArchived
  <2>2. sweep' \in [step : {"idle", "attachments", "archived"}, found : SUBSET Files,
                     paths : SUBSET Files]
    <3>1. CASE sweep' = [step |-> "attachments", found |-> Unclaimed, paths |-> {}]
      BY <2>1, <3>1
    <3>2. CASE sweep' = [sweep EXCEPT !.step = "archived", !.found = UnclaimedArchived]
      BY <2>1, <3>2 DEF TypeOK
    <3> QED
      BY <1>11, <3>1, <3>2 DEF SweepFinds
  <2> QED
    BY <1>11, <2>2 DEF TypeOK, SweepFinds
<1>12. ASSUME NEW f \in Files, SweepDeletes(f) PROVE TypeOK'
  <2>1. CASE sweep.step = "attachments"
    <3>1. Linked(links') = Linked(links) \ {f}
      BY <1>12, <2>1 DEF SweepDeletes, Linked, LinksTo
    <3> QED
      BY <1>12, <2>1, <3>1 DEF TypeOK, SweepDeletes
  <2>2. CASE sweep.step # "attachments"
    <3>1. /\ archive' = [archive EXCEPT !.links = archive.links \ LinksTo(archive.links, {f})]
          /\ archived_attachments' = archived_attachments \ {f}
      BY <1>12, <2>2 DEF SweepDeletes
    <3>2. /\ archive'.links = archive.links \ LinksTo(archive.links, {f})
          /\ archive'.messages = archive.messages /\ archive'.tx = archive.tx
          /\ archive' \in [messages : SUBSET Messages, version : [Messages -> Nat],
                  tx : [Messages -> 0..Len(txs)], links : SUBSET (Messages \X Files \X Nat)]
      BY <3>1 DEF TypeOK, LinksTo
    <3>3. Linked(archive'.links) = Linked(archive.links) \ {f}
      BY <3>2 DEF Linked, LinksTo
    <3>4. LinksOf(archive'.links, archive'.messages) = archive'.links
      BY <3>2 DEF TypeOK, LinksOf
    <3> QED
      BY <1>12, <2>2, <3>1, <3>2, <3>3, <3>4 DEF TypeOK, SweepDeletes
  <2> QED
    BY <2>1, <2>2
<1>13. CASE SweepStorage
  BY <1>13 DEF TypeOK, SweepStorage
<1>14. CASE SweepDies
  BY <1>14 DEF TypeOK, SweepDies
<1>15. CASE CleanUpStorage
  BY <1>15 DEF TypeOK, CleanUpStorage
<1>16. CASE UNCHANGED vars
  BY <1>16 DEF TypeOK, vars
<1> QED
  BY <1>1, <1>2, <1>3, <1>4, <1>5, <1>6, <1>7, <1>8, <1>9, <1>10, <1>11, <1>12, <1>13,
     <1>14, <1>15, <1>16 DEF Next, Sweep

-----------------------------------------------------------------------------
(* Files. *)

(* A claim links a file that is in the storage, and marks it as raced if   *)
(* some process is about to delete it.                                     *)
LEMMA ClaimFiles ==
  ASSUME TypeOK, FilesInv, NEW m \in Messages, NEW fs \in SUBSET Files, Claim(m, fs),
         live' = live \cup {m},
         UNCHANGED <<scheduled, attachments, stored, removed, archive_vars>>
  PROVE  FilesInv'
<1>1. /\ Linked(LinksOf(links', {m})) = fs \cap attachments
      /\ \A x : x # m => LinksOf(links', {x}) = LinksOf(links, {x})
      /\ Linked(links') \subseteq Linked(links) \cup (fs \cap attachments)
      /\ Linked(links') \cap Doomed \subseteq Linked(links) \cup raced'
  BY ClaimLinks
<1>2. files' = [files EXCEPT ![m] = fs \cap attachments] /\ raced \subseteq raced'
  BY DEF Claim
<1>3. files \in [Messages -> SUBSET Files] /\ live \subseteq Messages
  BY DEF TypeOK
<1>4. /\ archive' = archive /\ archiver' = archiver /\ sweep' = sweep
      /\ scheduled' = scheduled /\ attachments' = attachments /\ stored' = stored
      /\ removed' = removed
  BY DEF archive_vars
<1>5. Excepted \subseteq Excepted' /\ raced' \subseteq Excepted'
  BY <1>2, <1>4 DEF Excepted
<1>6. FilesStay'
  <2>1. (Linked(links) \cup Linked(archive.links) \cup scheduled \subseteq stored \cup Excepted)'
    BY <1>1, <1>4, <1>5 DEF FilesInv, FilesStay, ClaimableStored
  <2>2. \A x \in live' : files'[x] \ Excepted' \subseteq Linked(LinksOf(links', {x}))
    BY <1>1, <1>2, <1>3, <1>5 DEF FilesInv, FilesStay
  <2> QED
    BY <2>1, <2>2 DEF FilesStay
<1>7. ArchiverSafe'
  BY <1>1, <1>4, <1>5 DEF FilesInv, ArchiverSafe, Doomed
<1>8. SweepSafe'
  BY <1>1, <1>4, <1>5 DEF FilesInv, SweepSafe, Doomed, Refs
<1>9. ClaimableStored'
  BY <1>4, <1>5 DEF FilesInv, ClaimableStored
<1> QED
  BY <1>6, <1>7, <1>8, <1>9 DEF FilesInv

(* When the links to some files that are not in use are deleted, each      *)
(* message keeps the others.                                               *)
LEMMA UnlinkFiles ==
  ASSUME FilesStay, NEW fs, fs \cap Linked(links) \subseteq Excepted',
         links' = links \ LinksTo(links, fs), Excepted \subseteq Excepted',
         UNCHANGED <<live, files>>
  PROVE  /\ Linked(links') = Linked(links) \ fs
         /\ \A m \in live' : files'[m] \ Excepted' \subseteq Linked(LinksOf(links', {m}))
<1>1. \A m : Linked(LinksOf(links', {m})) = Linked(LinksOf(links, {m})) \ fs
  BY DEF Linked, LinksOf, LinksTo
<1>2. \A m : Linked(LinksOf(links, {m})) \subseteq Linked(links)
  BY DEF Linked, LinksOf
<1>3. Linked(links') = Linked(links) \ fs
  BY DEF Linked, LinksTo
<1> QED
  BY <1>1, <1>2, <1>3 DEF FilesStay

LEMMA FilesStep == TypeOK /\ FilesInv /\ [Next]_vars => FilesInv'
<1> SUFFICES ASSUME TypeOK, FilesInv, [Next]_vars PROVE FilesInv'
  OBVIOUS
<1> USE DEF FilesInv, Idle, NoSweep
<1>1. ASSUME NEW m \in Messages, NEW fs \in SUBSET Files, SendMessage(m, fs) PROVE FilesInv'
  BY <1>1, ClaimFiles DEF SendMessage
<1>2. ASSUME NEW m \in Messages, NEW fs \in SUBSET Files, EditMessage(m, fs) PROVE FilesInv'
  <2>1. live' = live \cup {m}
    BY <1>2 DEF EditMessage
  <2> QED
    BY <1>2, <2>1, ClaimFiles DEF EditMessage
<1>3. ASSUME NEW f \in Files, Schedule(f) PROVE FilesInv'
  BY <1>3 DEF Schedule, archive_vars, FilesStay, ArchiverSafe, SweepSafe, ClaimableStored,
              Refs, Excepted, Doomed
<1>4. ASSUME NEW f \in Files, RemoveAttachment(f) PROVE FilesInv'
  <2>1. /\ stored' = stored \ {f} /\ attachments' = attachments \ {f}
        /\ links' = links \ LinksTo(links, {f}) /\ scheduled' = scheduled \ {f}
        /\ removed' = removed \cup {f} /\ raced' = raced
        /\ UNCHANGED <<live, files, archive, archiver, sweep>>
    BY <1>4 DEF RemoveAttachment, archive_vars
  <2>2. Excepted' = Excepted \cup {f}
    BY <2>1 DEF Excepted
  <2>3. /\ Linked(links') = Linked(links) \ {f}
        /\ \A m \in live' : files'[m] \ Excepted' \subseteq Linked(LinksOf(links', {m}))
    BY <2>1, <2>2, UnlinkFiles
  <2> QED
    BY <2>1, <2>2, <2>3 DEF FilesStay, ArchiverSafe, SweepSafe, ClaimableStored, Refs
<1>5. ASSUME NEW ms \in SUBSET live, NEW type \in {"policy", "manual"}, ArchiveChunk(ms, type)
      PROVE  FilesInv'
  <2>1. /\ live' = live \ ms /\ links' = links \ LinksOf(links, ms)
        /\ archive'.links = archive.links \cup LinksOf(links, ms)
        /\ archiver'.found = archiver.found
        /\ UNCHANGED <<files, scheduled, attachments, stored, sweep, removed, raced>>
    BY <1>5 DEF ArchiveChunk, Archived, TypeOK
  <2>2. /\ Linked(links') \subseteq Linked(links)
        /\ Linked(archive'.links) \subseteq Linked(archive.links) \cup Linked(links)
        /\ \A m \in live' : LinksOf(links', {m}) = LinksOf(links, {m})
    BY <2>1 DEF Linked, LinksOf
  <2>3. Excepted' = Excepted
    BY <2>1 DEF Excepted
  <2> QED
    BY <2>1, <2>2, <2>3 DEF FilesStay, ArchiverSafe, SweepSafe, ClaimableStored, Refs
<1>6. CASE FindAttachments
  <2>1. /\ archiver'.found \cap (Linked(links) \cup scheduled) = {}
        /\ UNCHANGED <<live, files, links, scheduled, archive, attachments, stored, sweep,
                       removed, raced>>
    BY <1>6 DEF FindAttachments
  <2> QED
    BY <2>1 DEF FilesStay, ArchiverSafe, SweepSafe, ClaimableStored, Refs, Excepted
<1>7. CASE DeleteAttachments
  <2>1. /\ attachments' = attachments \ archiver.found
        /\ links' = links \ LinksTo(links, archiver.found)
        /\ scheduled' = scheduled \ archiver.found /\ archiver'.found = {}
        /\ UNCHANGED <<live, files, archive, stored, sweep, removed, raced>>
    BY <1>7 DEF DeleteAttachments
  <2>2. Excepted' = Excepted
    BY <2>1 DEF Excepted
  <2>3. /\ Linked(links') = Linked(links) \ archiver.found
        /\ \A m \in live' : files'[m] \ Excepted' \subseteq Linked(LinksOf(links', {m}))
    BY <2>1, <2>2, UnlinkFiles DEF ArchiverSafe
  <2> QED
    BY <2>1, <2>2, <2>3 DEF FilesStay, ArchiverSafe, SweepSafe, ClaimableStored, Refs
<1>8. CASE ArchiverDies
  BY <1>8 DEF ArchiverDies, FilesStay, ArchiverSafe, SweepSafe, ClaimableStored, Refs, Excepted
<1>9. ASSUME NEW t \in DOMAIN txs, Restore(t) PROVE FilesInv'
  <2> DEFINE ms == {m \in archive.messages : archive.tx[m] = t}
             back == Linked(LinksOf(archive.links, ms))
  <2>1. /\ live' = live \cup ms /\ links' = links \cup LinksOf(archive.links, ms)
        /\ attachments' = attachments \cup back /\ raced' = raced \cup (back \cap Doomed)
        /\ files' = [m \in Messages |-> IF m \in ms \ live THEN Linked(LinksOf(archive.links, {m}))
                                         ELSE files[m]]
        /\ UNCHANGED <<scheduled, archive, stored, archiver, sweep, removed>>
    BY <1>9 DEF Restore
  <2>2. Excepted \subseteq Excepted' /\ back \cap Doomed \subseteq Excepted'
    BY <2>1 DEF Excepted
  <2>3. /\ Linked(links') = Linked(links) \cup back /\ back \subseteq Linked(archive.links)
        /\ \A m \in ms : Linked(LinksOf(archive.links, {m})) \subseteq Linked(LinksOf(links', {m}))
        /\ \A m : Linked(LinksOf(links, {m})) \subseteq Linked(LinksOf(links', {m}))
    BY <2>1 DEF Linked, LinksOf
  <2>4. live \subseteq Messages /\ ms \subseteq Messages
    BY DEF TypeOK
  <2> HIDE DEF ms, back
  <2>5. \A m \in live' : files'[m] \ Excepted' \subseteq Linked(LinksOf(links', {m}))
    BY <2>1, <2>2, <2>3, <2>4 DEF FilesStay
  <2>6. FilesStay' /\ ClaimableStored'
    BY <2>1, <2>2, <2>3, <2>5 DEF FilesStay, ClaimableStored
  <2> QED
    BY <2>1, <2>2, <2>3, <2>6 DEF ArchiverSafe, SweepSafe, Refs, Doomed
<1>10. ASSUME NEW t \in DOMAIN txs, Vacuum(t) PROVE FilesInv'
  <2>1. /\ Linked(archive'.links) \subseteq Linked(archive.links)
        /\ UNCHANGED <<live, links, scheduled, attachments, stored, archiver, sweep, removed, raced>>
    BY <1>10 DEF Vacuum, TypeOK, Linked
  <2>2. \A m \in live : files'[m] = files[m]
    BY <1>10 DEF Vacuum, TypeOK
  <2>3. Excepted' = Excepted
    BY <2>1 DEF Excepted
  <2> QED
    BY <2>1, <2>2, <2>3 DEF FilesStay, ArchiverSafe, SweepSafe, ClaimableStored, Refs
<1>11. CASE SweepFinds
  <2>1. /\ Unclaimed \cap Refs = {} /\ UnclaimedArchived \cap Refs = {}
    BY DEF Unclaimed, UnclaimedArchived, Refs, TypeOK
  <2>2. /\ sweep'.found \cap Refs = {} /\ sweep'.paths \in {sweep.paths, {}}
        /\ UNCHANGED <<live, files, links, scheduled, archive, attachments, stored, archiver,
                       removed, raced>>
    <3>1. CASE sweep' = [step |-> "attachments", found |-> Unclaimed, paths |-> {}]
      BY <1>11, <2>1, <3>1 DEF SweepFinds
    <3>2. CASE sweep' = [sweep EXCEPT !.step = "archived", !.found = UnclaimedArchived]
      BY <1>11, <2>1, <3>2 DEF SweepFinds, TypeOK
    <3> QED
      BY <1>11, <3>1, <3>2 DEF SweepFinds
  <2> QED
    BY <2>2 DEF FilesStay, ArchiverSafe, SweepSafe, ClaimableStored, Refs, Excepted
<1>12. ASSUME NEW f \in Files, SweepDeletes(f) PROVE FilesInv'
  <2>1. /\ f \in sweep.found
        /\ sweep'.found = sweep.found \ {f} /\ sweep'.paths = sweep.paths \cup {f}
        /\ UNCHANGED <<live, files, stored, archiver, removed>>
    BY <1>12 DEF SweepDeletes, TypeOK
  <2>2. CASE sweep.step = "attachments"
    <3>1. /\ attachments' = attachments \ {f} /\ links' = links \ LinksTo(links, {f})
          /\ scheduled' = scheduled \ {f} /\ archive' = archive /\ raced' = raced
      BY <1>12, <2>2 DEF SweepDeletes
    <3>2. Excepted' = Excepted
      BY <2>1, <3>1 DEF Excepted
    <3>3. {f} \cap Linked(links) \subseteq Excepted
      BY <2>1 DEF SweepSafe, Refs
    <3>4. /\ Linked(links') = Linked(links) \ {f}
          /\ \A m \in live' : files'[m] \ Excepted' \subseteq Linked(LinksOf(links', {m}))
      BY <2>1, <3>1, <3>2, <3>3, UnlinkFiles
    <3> QED
      BY <2>1, <3>1, <3>2, <3>4 DEF FilesStay, ArchiverSafe, SweepSafe, ClaimableStored, Refs
  <2>3. CASE sweep.step # "attachments"
    <3>1. /\ archive'.links = archive.links \ LinksTo(archive.links, {f})
          /\ raced' = IF f \in attachments THEN raced \cup {f} ELSE raced
          /\ UNCHANGED <<attachments, links, scheduled>>
      BY <1>12, <2>3 DEF SweepDeletes, TypeOK
    <3>2. Linked(archive'.links) \subseteq Linked(archive.links)
      BY <3>1 DEF Linked
    <3>3. Excepted \subseteq Excepted' /\ (f \in attachments => f \in Excepted')
      BY <2>1, <3>1 DEF Excepted
    <3> QED
      BY <2>1, <3>1, <3>2, <3>3 DEF FilesStay, ArchiverSafe, SweepSafe, ClaimableStored, Refs
  <2> QED
    BY <2>2, <2>3
<1>13. CASE SweepStorage
  BY <1>13 DEF SweepStorage, FilesStay, ArchiverSafe, SweepSafe, ClaimableStored, Refs, Excepted
<1>14. CASE SweepDies
  BY <1>14 DEF SweepDies, FilesStay, ArchiverSafe, SweepSafe, ClaimableStored, Refs, Excepted
<1>15. CASE CleanUpStorage
  BY <1>15 DEF CleanUpStorage, FilesStay, ArchiverSafe, SweepSafe, ClaimableStored, Refs,
               Excepted, TypeOK
<1>16. CASE UNCHANGED vars
  BY <1>16 DEF vars, FilesStay, ArchiverSafe, SweepSafe, ClaimableStored, Refs, Excepted
<1> QED
  BY <1>1, <1>2, <1>3, <1>4, <1>5, <1>6, <1>7, <1>8, <1>9, <1>10, <1>11, <1>12, <1>13,
     <1>14, <1>15, <1>16 DEF Next, Sweep

-----------------------------------------------------------------------------
(* Undoing deletions. *)

(* The archive keeps what it has of a message in these steps: its row, its *)
(* transaction, and its links but for files that are excepted by then.     *)
Kept ==
  /\ archive'.messages = archive.messages /\ archive'.tx = archive.tx
  /\ \A m : Linked(LinksOf(archive.links, {m})) \ Excepted'
             \subseteq Linked(LinksOf(archive'.links, {m}))
  /\ UNCHANGED <<txs, deleted_in>> /\ Excepted \subseteq Excepted'
  /\ live \subseteq live' /\ \A m \in Messages \ live' : files'[m] = files[m]

LEMMA KeptCanBeUndone == UndoInv /\ Kept => UndoInv'
  BY DEF UndoInv, Kept, DeletionCanBeUndone, ArchiveMatches

LEMMA UndoStep == TypeOK /\ FilesInv /\ UndoInv /\ [Next]_vars => UndoInv'
<1> SUFFICES ASSUME TypeOK, FilesInv, UndoInv, [Next]_vars PROVE UndoInv'
  OBVIOUS
<1>1. ASSUME NEW m \in Messages, NEW fs \in SUBSET Files, SendMessage(m, fs) PROVE UndoInv'
  <2>1. /\ raced \subseteq raced' /\ files' = [files EXCEPT ![m] = fs \cap attachments]
        /\ live' = live \cup {m} /\ UNCHANGED <<archive, txs, deleted_in, removed>>
    BY <1>1 DEF SendMessage, Claim, archive_vars
  <2>2. Kept
    BY <2>1 DEF Kept, Excepted, TypeOK
  <2> QED
    BY <2>2, KeptCanBeUndone
<1>2. ASSUME NEW m \in Messages, NEW fs \in SUBSET Files, EditMessage(m, fs) PROVE UndoInv'
  <2>1. /\ raced \subseteq raced' /\ files' = [files EXCEPT ![m] = fs \cap attachments]
        /\ m \in live /\ UNCHANGED <<live, archive, txs, deleted_in, removed>>
    BY <1>2 DEF EditMessage, Claim, archive_vars
  <2>2. Kept
    BY <2>1 DEF Kept, Excepted, TypeOK
  <2> QED
    BY <2>2, KeptCanBeUndone
<1>3. ASSUME NEW f \in Files, Schedule(f) PROVE UndoInv'
  <2> Kept
    BY <1>3 DEF Schedule, Kept, Excepted, archive_vars
  <2> QED
    BY KeptCanBeUndone
<1>4. ASSUME NEW f \in Files, RemoveAttachment(f) PROVE UndoInv'
  <2> Kept
    BY <1>4 DEF RemoveAttachment, Kept, Excepted, archive_vars
  <2> QED
    BY KeptCanBeUndone
<1>5. ASSUME NEW ms \in SUBSET live, NEW type \in {"policy", "manual"}, ArchiveChunk(ms, type)
      PROVE  UndoInv'
  <2> DEFINE n == Len(txs) + 1
             new == [restored |-> FALSE, vacuumed |-> FALSE]
  <2>1. /\ txs' = Append(txs, new) /\ live' = live \ ms
        /\ archive'.messages = archive.messages \cup ms
        /\ archive'.tx = [m \in Messages |-> IF m \in ms THEN n ELSE archive.tx[m]]
        /\ archive'.links = archive.links \cup LinksOf(links, ms)
        /\ deleted_in' = [m \in Messages |-> IF m \in ms THEN n ELSE deleted_in[m]]
        /\ UNCHANGED <<files, removed, raced>>
    BY <1>5 DEF ArchiveChunk, Archived
  <2>2. /\ \A i \in 1..Len(txs) : txs'[i] = txs[i]
        /\ n > 0 /\ ~ txs'[n].restored /\ Len(txs) \in Nat
    BY <2>1 DEF TypeOK
  <2>3. Excepted' = Excepted
    BY <2>1 DEF Excepted
  <2>4. /\ \A m : Linked(LinksOf(archive.links, {m})) \subseteq Linked(LinksOf(archive'.links, {m}))
        /\ \A m \in ms : Linked(LinksOf(links, {m})) \subseteq Linked(LinksOf(archive'.links, {m}))
    BY <2>1 DEF Linked, LinksOf
  <2> HIDE DEF n, new
  <2>5. ASSUME NEW m \in Messages \ live'
        PROVE  \/ deleted_in'[m] = 0
               \/ txs'[deleted_in'[m]].vacuumed
               \/ /\ m \in archive'.messages /\ archive'.tx[m] = deleted_in'[m]
                  /\ ~ txs'[deleted_in'[m]].restored
                  /\ files'[m] \ Excepted' \subseteq Linked(LinksOf(archive'.links, {m}))
    <3>1. CASE m \in ms
      <4>1. files[m] \ Excepted \subseteq Linked(LinksOf(links, {m}))
        BY <3>1 DEF FilesInv, FilesStay
      <4> QED
        BY <2>1, <2>2, <2>3, <2>4, <3>1, <4>1
    <3>2. CASE m \notin ms
      <4>1. m \in Messages \ live /\ deleted_in'[m] = deleted_in[m] /\ archive'.tx[m] = archive.tx[m]
        BY <2>1, <3>2
      <4>2. deleted_in[m] # 0 => txs'[deleted_in[m]] = txs[deleted_in[m]]
        BY <2>2, <4>1 DEF TypeOK
      <4> QED
        BY <2>1, <2>3, <2>4, <4>1, <4>2 DEF UndoInv, DeletionCanBeUndone
    <3> QED
      BY <3>1, <3>2
  <2>6. ArchiveMatches'
    BY <2>1 DEF UndoInv, ArchiveMatches, TypeOK
  <2> QED
    BY <2>5, <2>6 DEF UndoInv, DeletionCanBeUndone
<1>6. CASE FindAttachments
  <2> Kept
    BY <1>6 DEF FindAttachments, Kept, Excepted
  <2> QED
    BY KeptCanBeUndone
<1>7. CASE DeleteAttachments
  <2> Kept
    BY <1>7 DEF DeleteAttachments, Kept, Excepted
  <2> QED
    BY KeptCanBeUndone
<1>8. CASE ArchiverDies
  <2> Kept
    BY <1>8 DEF ArchiverDies, Kept, Excepted
  <2> QED
    BY KeptCanBeUndone
<1>9. ASSUME NEW t \in DOMAIN txs, Restore(t) PROVE UndoInv'
  <2> DEFINE ms == {m \in archive.messages : archive.tx[m] = t}
  <2>1. /\ live' = live \cup ms /\ raced \subseteq raced'
        /\ txs' = [txs EXCEPT ![t].restored = TRUE]
        /\ UNCHANGED <<archive, deleted_in, removed>> /\ ~ txs[t].vacuumed
    BY <1>9 DEF Restore
  <2>2. \A m \in Messages \ live' : files'[m] = files[m]
    BY <1>9 DEF Restore
  <2>3. Excepted \subseteq Excepted'
    BY <2>1 DEF Excepted
  <2>4. \A i \in 1..Len(txs) : i # t => txs'[i] = txs[i]
    BY <2>1, TransactionFacts DEF TypeOK
  <2>5. ASSUME NEW m \in Messages \ live'
        PROVE  \/ deleted_in'[m] = 0
               \/ txs'[deleted_in'[m]].vacuumed
               \/ /\ m \in archive'.messages /\ archive'.tx[m] = deleted_in'[m]
                  /\ ~ txs'[deleted_in'[m]].restored
                  /\ files'[m] \ Excepted' \subseteq Linked(LinksOf(archive'.links, {m}))
    <3>1. deleted_in[m] # t
      <4>1. t # 0
        BY TransactionFacts DEF TypeOK
      <4>2. m \notin live /\ m \notin ms
        BY <2>1
      <4> QED
        BY <2>1, <4>1, <4>2 DEF UndoInv, DeletionCanBeUndone
    <3>2. deleted_in[m] # 0 => txs'[deleted_in[m]] = txs[deleted_in[m]]
      BY <2>4, <3>1 DEF TypeOK
    <3> QED
      BY <2>1, <2>2, <2>3, <3>2 DEF UndoInv, DeletionCanBeUndone
  <2>6. ArchiveMatches'
    BY <2>1 DEF UndoInv, ArchiveMatches
  <2> QED
    BY <2>5, <2>6 DEF UndoInv, DeletionCanBeUndone
<1>10. ASSUME NEW t \in DOMAIN txs, Vacuum(t) PROVE UndoInv'
  <2> DEFINE ms == {m \in archive.messages : archive.tx[m] <= t}
  <2>1. /\ txs' = [i \in DOMAIN txs |-> IF i <= t THEN Vacuumed ELSE txs[i]]
        /\ archive'.messages = archive.messages \ ms
        /\ archive'.links = archive.links \ LinksOf(archive.links, ms)
        /\ archive'.tx = [m \in Messages |-> IF m \in ms THEN 0 ELSE archive.tx[m]]
        /\ files' = [m \in Messages |-> IF m \notin live /\ deleted_in[m] <= t THEN {} ELSE files[m]]
        /\ UNCHANGED <<live, deleted_in, removed, raced>>
    BY <1>10 DEF Vacuum, TypeOK
  <2>2. DOMAIN txs = 1..Len(txs) /\ Len(txs) \in Nat
    BY TransactionFacts DEF TypeOK
  <2>3. \A i \in DOMAIN txs : /\ i <= t => txs'[i].vacuumed
                              /\ ~ i <= t => txs'[i] = txs[i]
    BY <2>1 DEF Vacuumed
  <2>4. \A m : m \notin ms => LinksOf(archive'.links, {m}) = LinksOf(archive.links, {m})
    BY <2>1 DEF LinksOf
  <2>5. Excepted' = Excepted
    BY <2>1 DEF Excepted
  <2>6. ASSUME NEW m \in Messages \ live'
        PROVE  \/ deleted_in'[m] = 0
               \/ txs'[deleted_in'[m]].vacuumed
               \/ /\ m \in archive'.messages /\ archive'.tx[m] = deleted_in'[m]
                  /\ ~ txs'[deleted_in'[m]].restored
                  /\ files'[m] \ Excepted' \subseteq Linked(LinksOf(archive'.links, {m}))
    <3>1. deleted_in[m] \in 0..Len(txs) /\ m \in Messages \ live
      BY <2>1 DEF TypeOK
    <3>2. CASE deleted_in[m] \in DOMAIN txs /\ ~ deleted_in[m] <= t
      <4>1. txs'[deleted_in[m]] = txs[deleted_in[m]] /\ deleted_in[m] # 0
        BY <2>2, <2>3, <3>2
      <4>2. files'[m] = files[m]
        BY <2>1, <3>1, <3>2
      <4>3. archive.tx[m] = deleted_in[m] => m \notin ms
        BY <3>2
      <4> HIDE DEF ms
      <4> QED
        BY <2>1, <2>4, <2>5, <3>1, <4>1, <4>2, <4>3 DEF UndoInv, DeletionCanBeUndone
    <3>3. CASE deleted_in[m] = 0 \/ (deleted_in[m] \in DOMAIN txs /\ deleted_in[m] <= t)
      <4> deleted_in'[m] = deleted_in[m]
        BY <2>1
      <4> QED
        BY <2>3, <3>3
    <3>4. deleted_in[m] = 0 \/ deleted_in[m] \in DOMAIN txs
      BY <2>2, <3>1
    <3> QED
      BY <3>2, <3>3, <3>4
  <2>7. ArchiveMatches'
    BY <2>1 DEF UndoInv, ArchiveMatches, TypeOK
  <2> QED
    BY <2>6, <2>7 DEF UndoInv, DeletionCanBeUndone
<1>11. CASE SweepFinds
  <2> Kept
    BY <1>11 DEF SweepFinds, Kept, Excepted
  <2> QED
    BY KeptCanBeUndone
<1>12. ASSUME NEW f \in Files, SweepDeletes(f) PROVE UndoInv'
  <2>1. CASE sweep.step = "attachments"
    <3> Kept
      BY <1>12, <2>1 DEF SweepDeletes, Kept, Excepted
    <3> QED
      BY KeptCanBeUndone
  <2>2. CASE sweep.step # "attachments"
    <3>1. /\ f \in sweep.found /\ raced \subseteq raced'
          /\ archive'.messages = archive.messages /\ archive'.tx = archive.tx
          /\ archive'.links = archive.links \ LinksTo(archive.links, {f})
          /\ UNCHANGED <<live, files, txs, deleted_in, removed>>
      BY <1>12, <2>2 DEF SweepDeletes, TypeOK
    <3>2. \A m : /\ Linked(LinksOf(archive'.links, {m})) = Linked(LinksOf(archive.links, {m})) \ {f}
                 /\ Linked(LinksOf(archive.links, {m})) \subseteq Linked(archive.links)
      BY <3>1 DEF Linked, LinksOf, LinksTo
    <3>3. f \in Linked(archive.links) => f \in Excepted
      BY <3>1 DEF FilesInv, SweepSafe, Refs
    <3>4. Excepted \subseteq Excepted'
      BY <3>1 DEF Excepted
    <3>5. Kept
      BY <3>1, <3>2, <3>3, <3>4 DEF Kept
    <3> QED
      BY <3>5, KeptCanBeUndone
  <2> QED
    BY <2>1, <2>2
<1>13. CASE SweepStorage \/ SweepDies \/ CleanUpStorage \/ UNCHANGED vars
  <2> Kept
    BY <1>13 DEF SweepStorage, SweepDies, CleanUpStorage, vars, Kept, Excepted
  <2> QED
    BY KeptCanBeUndone
<1> QED
  BY <1>1, <1>2, <1>3, <1>4, <1>5, <1>6, <1>7, <1>8, <1>9, <1>10, <1>11, <1>12, <1>13
     DEF Next, Sweep

-----------------------------------------------------------------------------
(* Theorems. *)

LEMMA Initially == Init => TypeOK /\ FilesInv /\ UndoInv
<1> SUFFICES ASSUME Init PROVE TypeOK /\ FilesInv /\ UndoInv
  OBVIOUS
<1>1. txs = <<>> /\ Len(txs) = 0 /\ txs \in Seq([restored : BOOLEAN, vacuumed : BOOLEAN])
  BY DEF Init
<1>2. Linked({}) = {} /\ \A ms : LinksOf({}, ms) = {}
  BY DEF Linked, LinksOf
<1>3. TypeOK
  BY <1>1, <1>2 DEF Init, TypeOK, Idle, NoSweep
<1>4. FilesInv
  BY <1>2 DEF Init, FilesInv, FilesStay, ArchiverSafe, SweepSafe, ClaimableStored, Refs,
              Idle, NoSweep
<1>5. UndoInv
  BY DEF Init, UndoInv, DeletionCanBeUndone, ArchiveMatches
<1> QED
  BY <1>3, <1>4, <1>5

(* The tables of zerver/lib/retention.py and zerver/actions/uploads.py     *)
(* refer to each other as TypeOK says, in every reachable state.           *)
THEOREM TypeCorrect == Spec => []TypeOK
<1>1. Init => TypeOK
  BY Initially
<1> QED
  BY <1>1, TypeStep, PTL DEF Spec

(* Archiving, restoring, vacuuming and the sweep of unclaimed files        *)
(* (move_messages_to_archive, restore_data_from_archive,                   *)
(* clean_archived_data, do_delete_old_unclaimed_attachments) keep the      *)
(* files in use, but for those that their owner deleted and those that     *)
(* were claimed after a process had found them without links.              *)
THEOREM FilesCorrect == Spec => []FilesStay
<1>1. Init => TypeOK /\ FilesInv
  BY Initially
<1>2. FilesInv => FilesStay
  BY DEF FilesInv
<1> QED
  BY <1>1, <1>2, TypeStep, FilesStep, PTL DEF Spec

(* A deletion can be undone until clean_archived_data vacuums it, however  *)
(* often run_archiving_in_chunks and restore_data_from_archive have moved  *)
(* the message before.                                                     *)
THEOREM UndoCorrect == Spec => []DeletionCanBeUndone
<1>1. Init => TypeOK /\ FilesInv /\ UndoInv
  BY Initially
<1>2. UndoInv => DeletionCanBeUndone
  BY DEF UndoInv
<1> QED
  BY <1>1, <1>2, TypeStep, FilesStep, UndoStep, PTL DEF Spec

(* Only restoring the transaction that has deleted a message last brings   *)
(* it back (restore_data_from_archive).                                    *)
THEOREM ComeBackCorrect == Spec => ComesBackOnlyByUndo
<1> DEFINE Undone ==
      \A m \in live' \ live : version[m] > 0 =>
        txs'[deleted_in[m]].restored /\ ~ txs[deleted_in[m]].restored
<1>1. Init => TypeOK /\ FilesInv /\ UndoInv
  BY Initially
<1>2. TypeOK /\ UndoInv /\ [Next]_vars => Undone
  <2> SUFFICES ASSUME TypeOK, UndoInv, [Next]_vars, NEW m \in live' \ live, version[m] > 0
               PROVE  txs'[deleted_in[m]].restored /\ ~ txs[deleted_in[m]].restored
    OBVIOUS
  <2>1. \E t \in DOMAIN txs : Restore(t)
    <3>1. ASSUME NEW x \in Messages, NEW fs \in SUBSET Files, SendMessage(x, fs) PROVE FALSE
      BY <3>1 DEF SendMessage
    <3>2. ASSUME NEW x \in Messages, NEW fs \in SUBSET Files, EditMessage(x, fs) PROVE FALSE
      BY <3>2 DEF EditMessage
    <3>3. ASSUME NEW f \in Files, Schedule(f) \/ RemoveAttachment(f) \/ SweepDeletes(f) PROVE FALSE
      BY <3>3 DEF Schedule, RemoveAttachment, SweepDeletes
    <3>4. ASSUME NEW ms \in SUBSET live, NEW type \in {"policy", "manual"}, ArchiveChunk(ms, type)
          PROVE  FALSE
      BY <3>4 DEF ArchiveChunk
    <3>5. ASSUME NEW t \in DOMAIN txs, Vacuum(t) PROVE FALSE
      BY <3>5 DEF Vacuum
    <3>6. ~ (FindAttachments \/ DeleteAttachments \/ ArchiverDies \/ SweepFinds \/ SweepStorage
             \/ SweepDies \/ CleanUpStorage \/ UNCHANGED vars)
      BY DEF FindAttachments, DeleteAttachments, ArchiverDies, SweepFinds, SweepStorage,
             SweepDies, CleanUpStorage, vars
    <3> QED
      BY <3>1, <3>2, <3>3, <3>4, <3>5, <3>6 DEF Next, Sweep
  <2>2. PICK t \in DOMAIN txs : Restore(t)
    BY <2>1
  <2>3. /\ m \in archive.messages /\ archive.tx[m] = t /\ ~ txs[t].vacuumed
        /\ txs' = [txs EXCEPT ![t].restored = TRUE]
    BY <2>2 DEF Restore
  <2>4. deleted_in[m] = t /\ m \in Messages
    BY <2>3 DEF UndoInv, ArchiveMatches, TypeOK
  <2>5. txs'[t].restored /\ t # 0
    <3>1. txs \in Seq([restored : BOOLEAN, vacuumed : BOOLEAN])
      BY DEF TypeOK
    <3>2. [txs EXCEPT ![t].restored = TRUE][t].restored /\ DOMAIN txs = 1..Len(txs) /\ Len(txs) \in Nat
      BY <3>1, TransactionFacts
    <3> QED
      BY <2>3, <3>2
  <2>6. ~ txs[t].restored
    BY <2>3, <2>4, <2>5 DEF UndoInv, DeletionCanBeUndone
  <2> QED
    BY <2>4, <2>5, <2>6
<1>3. TypeOK /\ UndoInv /\ [Next]_vars => [Undone]_vars
  BY <1>2
<1> HIDE DEF Undone
<1>4. Spec => [][Undone]_vars
  BY <1>1, <1>3, TypeStep, FilesStep, UndoStep, PTL DEF Spec
<1> QED
  BY <1>4 DEF ComesBackOnlyByUndo, Undone
=============================================================================
