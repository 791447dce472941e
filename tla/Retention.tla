------------------------------ MODULE Retention ------------------------------
(***************************************************************************)
(* Deletion of messages and of uploaded files.  Deleted messages go to     *)
(* archive tables in an ArchiveTransaction, which can be undone until it   *)
(* is vacuumed (zerver/lib/retention.py); a file may be linked from        *)
(* messages, archived messages and scheduled messages, and is removed from *)
(* the storage when no link is left (zerver/actions/uploads.py).  The      *)
(* processes that do this and the users who send and edit messages run at  *)
(* the same time.  All files are older than the weeks for which unclaimed  *)
(* ones are kept.                                                          *)
(***************************************************************************)
EXTENDS Integers, Sequences, FiniteSets, FiniteSetsExt

CONSTANTS
  NumMessages, Files,
  ChunkSize,
  MaxTransactions, MaxVersions, MaxDeaths       \* bounds

ASSUME ConstantsAssumption ==
  /\ NumMessages \in Nat /\ ChunkSize \in Nat \ {0}
  /\ {MaxTransactions, MaxVersions, MaxDeaths} \subseteq Nat

Messages == 1..NumMessages

VARIABLES
  live,         \* messages in zerver_message
  version,      \* version of the content and rows of a message; kept when it is deleted
  files,        \* files that the content of a message has claimed; kept until it is vacuumed
  links,        \* zerver_attachment_messages: message, file and row
  scheduled,    \* files linked from scheduled messages
  archive,      \* the archive: messages with their versions and transactions, and links
  txs,          \* ArchiveTransaction objects
  attachments,  \* files with a row in zerver_attachment
  archived_attachments,
  stored,       \* files in the storage
  archiver,     \* process that archives messages and cleans up their attachments
  sweep,        \* do_delete_old_unclaimed_attachments
  deaths,       \* of archivers and sweeps
  deleted_in,   \* history: the transaction that has deleted a message
  removed,      \* history: files that their owner has deleted
  raced         \* history: files whose links changed after a process had looked for them

vars == <<live, version, files, links, scheduled, archive, txs, attachments,
          archived_attachments, stored, archiver, sweep, deaths, deleted_in, removed, raced>>

archive_vars == <<archive, txs, archived_attachments, archiver, sweep, deaths, deleted_in>>

Idle == [step |-> "idle", scope |-> {}, found |-> {}]
NoSweep == [step |-> "idle", found |-> {}, paths |-> {}]

LinksOf(ls, ms) == {l \in ls : l[1] \in ms}
LinksTo(ls, fs) == {l \in ls : l[2] \in fs}
Linked(ls) == {l[2] : l \in ls}

-----------------------------------------------------------------------------
(* Users. *)

(* The files that some process has found unclaimed and will delete. *)
Doomed == archiver.found \cup sweep.found \cup sweep.paths

(* do_claim_attachments: a file without an Attachment is not claimed. *)
Claim(m, fs) ==
  LET claimed == fs \cap attachments
  IN  /\ files' = [files EXCEPT ![m] = claimed]
      /\ links' = {l \in links : l[1] = m => l[2] \in claimed}
                    \cup ({m} \X (claimed \ Linked(LinksOf(links, {m}))) \X {version[m] + 1})
      /\ raced' = raced \cup ((claimed \ Linked(LinksOf(links, {m}))) \cap Doomed)

SendMessage(m, fs) ==
  /\ version[m] = 0 /\ \A earlier \in 1..(m - 1) : version[earlier] > 0
  /\ live' = live \cup {m}
  /\ version' = [version EXCEPT ![m] = 1]
  /\ Claim(m, fs)
  /\ UNCHANGED <<scheduled, attachments, stored, removed, archive_vars>>

(* do_update_message with check_attachment_reference_change, a reaction, a *)
(* flag: the message or one of its rows changes.                           *)
EditMessage(m, fs) ==
  /\ m \in live /\ MapThenSumSet(LAMBDA x : version[x], Messages) < MaxVersions
  /\ version' = [version EXCEPT ![m] = @ + 1]
  /\ Claim(m, fs)
  /\ UNCHANGED <<live, scheduled, attachments, stored, removed, archive_vars>>

(* A scheduled message claims a file, and gives it up. *)
Schedule(f) ==
  /\ f \in attachments
  /\ scheduled' = IF f \in scheduled THEN scheduled \ {f} ELSE scheduled \cup {f}
  /\ raced' = IF f \in Doomed \ scheduled THEN raced \cup {f} ELSE raced
  /\ UNCHANGED <<live, version, files, links, attachments, stored, removed, archive_vars>>

(* remove_attachment: the owner deletes the file, whatever links to it.    *)
RemoveAttachment(f) ==
  /\ f \in attachments
  /\ stored' = stored \ {f}
  /\ attachments' = attachments \ {f}
  /\ links' = links \ LinksTo(links, {f})
  /\ scheduled' = scheduled \ {f}
  /\ removed' = removed \cup {f}
  /\ UNCHANGED <<live, version, files, raced, archive_vars>>

-----------------------------------------------------------------------------
(* Archiving and restoring. *)

(* What the archive holds after the messages ms are moved to it.  A        *)
(* message that is still there from an earlier deletion keeps its row but  *)
(* for the transaction (ON CONFLICT).  Fault: it keeps that, too.          *)
ArchivedKeepingTransaction(ms, t) ==
  [messages |-> archive.messages \cup ms,
   version |-> [m \in Messages |-> IF m \in ms \ archive.messages THEN version[m]
                                   ELSE archive.version[m]],
   tx |-> [m \in Messages |-> IF m \in ms \ archive.messages THEN t ELSE archive.tx[m]],
   links |-> archive.links \cup LinksOf(links, ms)]

Archived(ms, t) ==
  [messages |-> archive.messages \cup ms,
   version |-> [m \in Messages |-> IF m \in ms \ archive.messages THEN version[m]
                                   ELSE archive.version[m]],
   tx |-> [m \in Messages |-> IF m \in ms THEN t ELSE archive.tx[m]],
   links |-> archive.links \cup LinksOf(links, ms)]

(* The archive has another row for one of the links: ON CONFLICT (id) does *)
(* not help against the unique pairs of messages and attachments, and the  *)
(* transaction fails.  Reactions and UserMessages are moved in the same    *)
(* way.                                                                    *)
Refused(ms) ==
  \E l \in LinksOf(links, ms), a \in archive.links :
    a[1] = l[1] /\ a[2] = l[2] /\ a[3] # l[3]

(* One round of run_archiving_in_chunks: a transaction of its own.  It is  *)
(* called with the expired messages of a recipient, or with the messages   *)
(* that a user has chosen.                                                 *)
ArchiveChunk(ms, type) ==
  /\ archiver.step \in {"idle", type}
  /\ ms # {} /\ ms \subseteq live /\ Cardinality(ms) <= ChunkSize
  /\ ~ Refused(ms)
  /\ Len(txs) < MaxTransactions
  /\ txs' = Append(txs, [restored |-> FALSE, vacuumed |-> FALSE])
  /\ archive' = Archived(ms, Len(txs) + 1)
  /\ archived_attachments' = archived_attachments \cup Linked(LinksOf(links, ms))
  /\ live' = live \ ms
  /\ links' = links \ LinksOf(links, ms)
  /\ deleted_in' = [m \in Messages |-> IF m \in ms THEN Len(txs) + 1 ELSE deleted_in[m]]
  /\ archiver' = [archiver EXCEPT !.step = type, !.scope = IF type = "manual" THEN @ \cup ms ELSE @]
  /\ UNCHANGED <<version, files, scheduled, attachments, stored, sweep, deaths, removed, raced>>

(* The attachments that delete_expired_attachments, or the end of          *)
(* move_messages_to_archive for its messages only, finds without a link.   *)
FindAttachments ==
  LET candidates == IF archiver.step = "manual"
                    THEN Linked(LinksOf(archive.links, archiver.scope))
                    ELSE archived_attachments
  IN  /\ archiver.step \in {"policy", "manual"}
      /\ archiver' = [step |-> "found", scope |-> {},
                      found |-> (candidates \cap attachments) \ (Linked(links) \cup scheduled)]
      /\ UNCHANGED <<live, version, files, links, scheduled, archive, txs, attachments,
                     archived_attachments, stored, sweep, deaths, deleted_in, removed, raced>>

(* They are deleted, with any link that has been made meanwhile. *)
DeleteAttachments ==
  /\ archiver.step = "found"
  /\ attachments' = attachments \ archiver.found
  /\ links' = links \ LinksTo(links, archiver.found)
  /\ scheduled' = scheduled \ archiver.found
  /\ archiver' = Idle
  /\ UNCHANGED <<live, version, files, archive, txs, archived_attachments, stored, sweep,
                 deaths, deleted_in, removed, raced>>

(* The process ends between two transactions. *)
ArchiverDies ==
  /\ archiver # Idle
  /\ archiver' = Idle
  /\ deaths < MaxDeaths /\ deaths' = deaths + 1
  /\ UNCHANGED <<live, version, files, links, scheduled, archive, txs, attachments,
                 archived_attachments, stored, sweep, deleted_in, removed, raced>>

(* Fault: all archived messages are restored, whatever their transaction.  *)
RestoreAll(t) ==
  /\ t \in DOMAIN txs /\ ~ txs[t].vacuumed
  /\ live' = live \cup archive.messages
  /\ links' = links \cup archive.links
  /\ attachments' = attachments \cup Linked(archive.links)
  /\ txs' = [txs EXCEPT ![t].restored = TRUE]
  /\ UNCHANGED <<version, files, scheduled, archive, archived_attachments, stored,
                 archiver, sweep, deaths, deleted_in, removed, raced>>

(* restore_data_from_archive, for a transaction that restore_messages has  *)
(* chosen.  What is in the archive stays there.                            *)
Restore(t) ==
  /\ t \in DOMAIN txs /\ ~ txs[t].vacuumed
  /\ LET ms == {m \in archive.messages : archive.tx[m] = t}
         back == Linked(LinksOf(archive.links, ms))
     IN  /\ ~ Refused(ms)
         /\ live' = live \cup ms
         /\ version' = [m \in Messages |-> IF m \in ms \ live THEN archive.version[m] ELSE version[m]]
         /\ files' = [m \in Messages |-> IF m \in ms \ live THEN Linked(LinksOf(archive.links, {m}))
                                         ELSE files[m]]
         /\ links' = links \cup LinksOf(archive.links, ms)
         /\ attachments' = attachments \cup back
         /\ raced' = raced \cup (back \cap Doomed)
  /\ txs' = [txs EXCEPT ![t].restored = TRUE]
  /\ UNCHANGED <<scheduled, archive, archived_attachments, stored, archiver, sweep,
                 deaths, deleted_in, removed>>

Vacuumed == [restored |-> FALSE, vacuumed |-> TRUE]

(* Fault: the links of the messages are not deleted with them. *)
VacuumKeepingLinks(t) ==
  /\ \E i \in 1..t : ~ txs[i].vacuumed
  /\ archive' = [archive EXCEPT !.messages = {m \in @ : archive.tx[m] > t}]
  /\ txs' = [i \in DOMAIN txs |-> IF i <= t THEN Vacuumed ELSE txs[i]]
  /\ UNCHANGED <<live, version, files, links, scheduled, attachments, archived_attachments,
                 stored, archiver, sweep, deaths, deleted_in, removed, raced>>

(* clean_archived_data deletes the old transactions, and what is in the    *)
(* archive for them.                                                       *)
Vacuum(t) ==
  /\ \E i \in 1..t : ~ txs[i].vacuumed
  /\ LET ms == {m \in archive.messages : archive.tx[m] <= t}
     IN  archive' = [archive EXCEPT !.messages = @ \ ms, !.links = @ \ LinksOf(@, ms),
                       !.version = [m \in Messages |-> IF m \in ms THEN 0 ELSE @[m]],
                       !.tx = [m \in Messages |-> IF m \in ms THEN 0 ELSE @[m]]]
  /\ txs' = [i \in DOMAIN txs |-> IF i <= t THEN Vacuumed ELSE txs[i]]
  /\ files' = [m \in Messages |-> IF m \notin live /\ deleted_in[m] <= t THEN {} ELSE files[m]]
  /\ UNCHANGED <<live, version, links, scheduled, attachments, archived_attachments,
                 stored, archiver, sweep, deaths, deleted_in, removed, raced>>

-----------------------------------------------------------------------------
(* do_delete_old_unclaimed_attachments; a lock keeps a second one away. *)

(* get_old_unclaimed_attachments, the first query.  Fault: it does not     *)
(* look for archived messages.                                             *)
UnclaimedWithoutArchive == attachments \ (Linked(links) \cup scheduled)

Unclaimed == attachments \ (Linked(links) \cup scheduled \cup
                              (archived_attachments \cap Linked(archive.links)))

(* Fault: the rows of archived attachments are left alone. *)
UnclaimedArchivedNone == {}

(* The second query; it is evaluated after the first loop. *)
UnclaimedArchived == archived_attachments \ (Linked(archive.links) \cup
                              (attachments \cap (Linked(links) \cup scheduled)))

SweepFinds ==
  /\ \/ /\ sweep.step = "idle"
        /\ sweep' = [step |-> "attachments", found |-> Unclaimed, paths |-> {}]
     \/ /\ sweep.step = "attachments" /\ sweep.found = {}
        /\ sweep' = [sweep EXCEPT !.step = "archived", !.found = UnclaimedArchived]
  /\ UNCHANGED <<live, version, files, links, scheduled, archive, txs, attachments,
                 archived_attachments, stored, archiver, deaths, deleted_in, removed, raced>>

SweepDeletes(f) ==
  /\ f \in sweep.found
  /\ sweep' = [sweep EXCEPT !.found = @ \ {f}, !.paths = @ \cup {f}]
  /\ IF sweep.step = "attachments"
     THEN /\ attachments' = attachments \ {f}
          /\ links' = links \ LinksTo(links, {f})
          /\ scheduled' = scheduled \ {f}
          /\ UNCHANGED <<archive, archived_attachments, raced>>
     ELSE /\ archived_attachments' = archived_attachments \ {f}
          /\ archive' = [archive EXCEPT !.links = @ \ LinksTo(@, {f})]
          /\ raced' = IF f \in attachments THEN raced \cup {f} ELSE raced
          /\ UNCHANGED <<attachments, links, scheduled>>
  /\ UNCHANGED <<live, version, files, txs, stored, archiver, deaths, deleted_in, removed>>

SweepStorage ==
  /\ sweep.step = "archived" /\ sweep.found = {}
  /\ stored' = stored \ sweep.paths
  /\ sweep' = NoSweep
  /\ UNCHANGED <<live, version, files, links, scheduled, archive, txs, attachments,
                 archived_attachments, archiver, deaths, deleted_in, removed, raced>>

SweepDies ==
  /\ sweep # NoSweep
  /\ sweep' = NoSweep
  /\ deaths < MaxDeaths /\ deaths' = deaths + 1
  /\ UNCHANGED <<live, version, files, links, scheduled, archive, txs, attachments,
                 archived_attachments, stored, archiver, deleted_in, removed, raced>>

(* clean_attachment_upload_backend: files without any row. *)
CleanUpStorage ==
  /\ sweep.step = "idle"
  /\ ~ stored \subseteq attachments \cup archived_attachments
  /\ stored' = stored \cap (attachments \cup archived_attachments)
  /\ UNCHANGED <<live, version, files, links, scheduled, archive, txs, attachments,
                 archived_attachments, archiver, sweep, deaths, deleted_in, removed, raced>>

-----------------------------------------------------------------------------

Init ==
  /\ live = {} /\ links = {} /\ scheduled = {}
  /\ version = [m \in Messages |-> 0]
  /\ files = [m \in Messages |-> {}]
  /\ archive = [messages |-> {}, version |-> [m \in Messages |-> 0],
                tx |-> [m \in Messages |-> 0], links |-> {}]
  /\ txs = <<>> /\ deleted_in = [m \in Messages |-> 0]
  /\ attachments = Files /\ stored = Files /\ archived_attachments = {}
  /\ archiver = Idle /\ sweep = NoSweep
  /\ removed = {} /\ raced = {} /\ deaths = 0

Sweep == SweepFinds \/ SweepStorage \/ \E f \in Files : SweepDeletes(f)

Next ==
  \/ \E m \in Messages, fs \in SUBSET Files : SendMessage(m, fs) \/ EditMessage(m, fs)
  \/ \E f \in Files : Schedule(f) \/ RemoveAttachment(f)
  \/ \E ms \in SUBSET live, type \in {"policy", "manual"} : ArchiveChunk(ms, type)
  \/ FindAttachments \/ DeleteAttachments \/ ArchiverDies
  \/ \E t \in DOMAIN txs : Restore(t) \/ Vacuum(t)
  \/ Sweep \/ SweepDies \/ CleanUpStorage

Spec == Init /\ [][Next]_vars

(* The daily archive_messages command vacuums, a process that archives     *)
(* goes on to the attachments, and the sweep is run again and again.       *)
FairSpec ==
  /\ Spec
  /\ WF_vars(\E t \in DOMAIN txs : t = Len(txs) /\ Vacuum(t))
  /\ WF_vars(FindAttachments \/ DeleteAttachments)
  /\ WF_vars(Sweep)

-----------------------------------------------------------------------------
(* Properties. *)

(* The shape of the state; links have their rows, and the archive holds    *)
(* what belongs to transactions that exist.                                *)
TypeOK ==
  /\ live \subseteq Messages
  /\ version \in [Messages -> Nat] /\ files \in [Messages -> SUBSET Files]
  /\ links \subseteq live \X Files \X Nat
  /\ Linked(links) \cup scheduled \subseteq attachments
  /\ attachments \cup archived_attachments \cup stored \subseteq Files
  /\ txs \in Seq([restored : BOOLEAN, vacuumed : BOOLEAN])
  /\ deleted_in \in [Messages -> 0..Len(txs)]
  /\ archive \in [messages : SUBSET Messages, version : [Messages -> Nat],
                  tx : [Messages -> 0..Len(txs)], links : SUBSET (Messages \X Files \X Nat)]
  /\ LinksOf(archive.links, archive.messages) = archive.links
  /\ Linked(archive.links) \subseteq archived_attachments
  /\ \A m \in archive.messages : archive.tx[m] > 0 /\ ~ txs[archive.tx[m]].vacuumed
  /\ archiver \in [step : {"idle", "policy", "manual", "found"}, scope : SUBSET Messages,
                   found : SUBSET Files]
  /\ sweep \in [step : {"idle", "attachments", "archived"}, found : SUBSET Files,
                paths : SUBSET Files]

Excepted == removed \cup raced

(* A file is in the storage as long as a message, a scheduled message or   *)
(* an archived message refers to it, and a message keeps the links to the  *)
(* files it has claimed: unless the owner has deleted the file, or it was  *)
(* claimed after a process had found it without links.                     *)
FilesStay ==
  /\ Linked(links) \cup Linked(archive.links) \cup scheduled \subseteq stored \cup Excepted
  /\ \A m \in live : files[m] \ Excepted \subseteq Linked(LinksOf(links, {m}))

(* What is deleted can be restored until the transaction that deleted it   *)
(* is vacuumed, however often the message was deleted and restored before: *)
(* the archive has it under that transaction, which is not marked as       *)
(* restored, with the files that it had.                                   *)
DeletionCanBeUndone ==
  \A m \in Messages \ live :
    \/ deleted_in[m] = 0
    \/ txs[deleted_in[m]].vacuumed
    \/ /\ m \in archive.messages
       /\ archive.tx[m] = deleted_in[m] /\ ~ txs[deleted_in[m]].restored
       /\ files[m] \ Excepted \subseteq Linked(LinksOf(archive.links, {m}))

(* A message comes back only when the transaction that has deleted it last *)
(* is restored: restoring what retention policies deleted never revives a  *)
(* message that a user has deleted since.                                  *)
ComesBackOnlyByUndo ==
  [][\A m \in live' \ live : version[m] > 0 =>
       txs'[deleted_in[m]].restored /\ ~ txs[deleted_in[m]].restored]_vars

(* The undoing is a clean one: the message is as it was when it was        *)
(* deleted.                                                                *)
UndoIsClean ==
  [][\A m \in live' \ live : version[m] > 0 => version'[m] = version[m]]_vars

(* A file that nothing refers to any more is removed from the storage in   *)
(* the end, whatever rows and links were left behind for it; or a sweep    *)
(* that died has left it there without a row.                              *)
EventuallyCleaned ==
  \A f \in Files :
    <>[](f \notin Linked(links) \cup scheduled) =>
      <>(f \notin stored \/ (f \notin attachments \cup archived_attachments /\ sweep = NoSweep))
=============================================================================
