------------------------------ MODULE FileTransfer ------------------------------
(* File transfer over the control channel: the host's table of transfers and its *)
(* staging files, the viewer's upload, the revocation of credentials, transfers  *)
(* that fall silent, file operations that fail and restarts of the host.         *)
EXTENDS Naturals, FiniteSets

CONSTANTS Credentials, \* credential incarnations: the owners of transfers
          Tokens,      \* file tokens, 1 .. n in the order of their issue
          Size,        \* declared size of an upload
          Chunk,       \* FILE_CHUNK_SIZE
          MaxIncoming, \* MAX_CONCURRENT_INCOMING
          MaxOutgoing, \* MAX_CONCURRENT_OUTGOING
          MaxFaults,   \* file operations that fail, replies that are lost
          MaxRestarts

VARIABLES
  paired,    \* credentials the pairing accepts
  revoking,  \* credentials removed, with their transfers still to be retired
  revoked,   \* credentials whose revocation has returned
  incoming,  \* Inner.incoming: [owner, written, retired], or Absent
  outgoing,  \* Inner.outgoing: the owner, in a set, or {}
  idle,      \* transfers without activity for longer than STALE_TRANSFER
  disk,      \* length of the staging file of a token, in a set, or {}
  files,     \* files under their final names: [token, len]
  sender,    \* the viewer's sendFile: [st, at, by]
  leftover,  \* staging files an earlier process left behind
  next, faults, restarts

vars == <<paired, revoking, revoked, incoming, outgoing, idle, disk, files, sender, leftover, next, faults, restarts>>
access == <<paired, revoking, revoked>>

Absent == [owner |-> {}, written |-> 0, retired |-> FALSE]
Entry(c) == [owner |-> {c}, written |-> 0, retired |-> FALSE]
Present(inc) == {t \in Tokens : inc[t].owner # {}}
Parts == {t \in Tokens : disk[t] # {}}

Init ==
  /\ paired = Credentials /\ revoking = {} /\ revoked = {}
  /\ incoming = [t \in Tokens |-> Absent] /\ outgoing = [t \in Tokens |-> {}]
  /\ idle = {} /\ disk = [t \in Tokens |-> {}] /\ files = {}
  /\ sender = [t \in Tokens |-> [st |-> "none", at |-> 0, by |-> {}]]
  /\ leftover = {} /\ next = 1 /\ faults = 0 /\ restarts = 0

\* slip: a request that was admitted once goes on after the revocation
AdmittedOnce(c) == TRUE
\* with_authorization, under the lock the revocation takes
Authorized(c) == c \in paired

Cost(n) == faults + n <= MaxFaults /\ faults' = faults + n
Sends(t, st) == sender' = [sender EXCEPT ![t].st = st]

\* an entry goes with its staging file; it stays, retired, when the file cannot be removed
Retire(gone, kept) ==
  [t \in Tokens |-> IF t \in gone THEN Absent
                    ELSE IF t \in kept THEN [incoming[t] EXCEPT !.retired = TRUE] ELSE incoming[t]]
Removed(gone) == [t \in Tokens |-> IF t \in gone THEN {} ELSE disk[t]]

\* sweep_at: the transfers that have been silent too long, and those kept for a failed removal
Stale == {t \in Present(incoming) : t \in idle \/ incoming[t].retired}

\* what the sweep leaves of the other direction
Unswept == [t \in Tokens |-> IF t \in idle THEN {} ELSE outgoing[t]]

\* begin_incoming_for_owner after its sweep, which fails to remove the files of stuck
BeginIncoming(c, stuck) ==
  /\ next \in Tokens /\ Authorized(c) /\ stuck \subseteq Stale /\ Cost(Cardinality(stuck))
  /\ LET swept == Retire(Stale \ stuck, stuck)
         clean == Removed(Stale \ stuck)
     IN /\ outgoing' = Unswept
        /\ IF Cardinality(Present(swept)) >= MaxIncoming
           THEN incoming' = swept /\ disk' = clean /\ UNCHANGED <<next, sender>>
           ELSE /\ incoming' = [swept EXCEPT ![next] = Entry(c)]
                /\ disk' = [clean EXCEPT ![next] = {0}]
                /\ sender' = [sender EXCEPT ![next] = [st |-> "sending", at |-> 0, by |-> {c}]]
                /\ next' = next + 1
  /\ UNCHANGED <<access, idle, files, leftover, restarts>>

Live(c, t) == Authorized(c) /\ incoming[t].owner = {c} /\ ~incoming[t].retired

\* append_incoming, whole: the answer may be lost with the connection
Append(c, t) ==
  /\ sender[t].st = "sending" /\ sender[t].at < Size /\ Live(c, t)
  /\ LET n == IF Size - sender[t].at < Chunk THEN Size - sender[t].at ELSE Chunk
     IN /\ sender[t].at = incoming[t].written /\ incoming[t].written + n <= Size
        /\ disk' = [disk EXCEPT ![t] = {l + n : l \in @}]
        /\ incoming' = [incoming EXCEPT ![t].written = @ + n]
        /\ idle' = idle \ {t}
        /\ \/ sender' = [sender EXCEPT ![t].at = @ + n] /\ UNCHANGED faults
           \/ Cost(1) /\ Sends(t, "gone")
  /\ UNCHANGED <<access, outgoing, files, leftover, next, restarts>>

\* slip: a chunk that was refused is sent again
SendsAgain(t) == UNCHANGED sender
\* sendFile gives up at the first error and cancels
GivesUp(t) == Sends(t, "cancelling")

\* append_incoming whose write failed after some bytes had reached the file
AppendFails(c, t) ==
  /\ sender[t].st = "sending" /\ sender[t].at < Size /\ Live(c, t) /\ Cost(1)
  /\ \E k \in 0 .. Chunk - 1 : disk' = [disk EXCEPT ![t] = {l + k : l \in @}]
  /\ GivesUp(t)
  /\ UNCHANGED <<access, incoming, outgoing, idle, files, leftover, next, restarts>>

\* the host refuses: the transfer was swept or retired, or the credential revoked
Refused(t) ==
  /\ sender[t].st = "sending" /\ ~\E c \in sender[t].by : Live(c, t)
  /\ GivesUp(t)
  /\ UNCHANGED <<access, incoming, outgoing, idle, disk, files, leftover, next, faults, restarts>>

\* remove_owned
TakesOwned(c, t) == incoming[t].owner = {c}

\* finish_incoming: incomplete files are removed, whole ones renamed unless the rename fails
Finish(c, t, fails) ==
  /\ Authorized(c) /\ TakesOwned(c, t) /\ ~incoming[t].retired
  /\ IF incoming[t].written # Size
     THEN /\ incoming' = IF fails THEN Retire({}, {t}) ELSE Retire({t}, {})
          /\ disk' = IF fails THEN disk ELSE Removed({t})
          /\ UNCHANGED files
     ELSE /\ incoming' = IF fails THEN incoming ELSE Retire({t}, {})
          /\ disk' = IF fails THEN disk ELSE Removed({t})
          /\ files' = IF fails THEN files ELSE files \cup {[token |-> t, len |-> l] : l \in disk[t]}
  /\ UNCHANGED <<access, outgoing, idle, leftover, next, restarts>>

\* sendFileEnd from the viewer whose upload is whole
End(c, t) ==
  /\ sender[t].st = "sending" /\ sender[t].at = Size /\ sender[t].by = {c}
  /\ \/ Finish(c, t, FALSE) /\ Sends(t, "gone") /\ UNCHANGED faults
     \/ Finish(c, t, TRUE) /\ GivesUp(t) /\ Cost(1)

\* cancel_incoming
CancelIncoming(c, t, fails) ==
  /\ Authorized(c) /\ TakesOwned(c, t)
  /\ incoming' = IF fails THEN Retire({}, {t}) ELSE Retire({t}, {})
  /\ disk' = IF fails THEN disk ELSE Removed({t})
  /\ UNCHANGED <<access, outgoing, idle, files, leftover, next, restarts>>

\* the cancellation that follows a failed upload; it may be refused or lost, and then forgotten
Cancel(c, t) ==
  /\ sender[t].st = "cancelling" /\ sender[t].by = {c} /\ Sends(t, "gone")
  /\ \/ CancelIncoming(c, t, FALSE) /\ UNCHANGED faults
     \/ CancelIncoming(c, t, TRUE) /\ Cost(1)
     \/ UNCHANGED <<access, incoming, outgoing, idle, disk, files, leftover, next, faults, restarts>>

\* an End or a Cancel with the token of somebody else's transfer
Stray(c, t) ==
  /\ sender[t].by # {c} /\ (Finish(c, t, FALSE) \/ CancelIncoming(c, t, FALSE))
  /\ UNCHANGED <<sender, faults>>

\* the same sweep before begin_outgoing and cancel_outgoing
Sweeps(stuck) ==
  /\ stuck \subseteq Stale /\ Cost(Cardinality(stuck))
  /\ incoming' = Retire(Stale \ stuck, stuck) /\ disk' = Removed(Stale \ stuck)
  /\ UNCHANGED <<access, idle, files, sender, leftover, restarts>>

\* begin_outgoing, refused where too many run or the file is no longer offered
BeginOutgoing(c, stuck) ==
  /\ Authorized(c) /\ Sweeps(stuck)
  /\ \/ outgoing' = Unswept /\ UNCHANGED next
     \/ /\ next \in Tokens /\ Cardinality({t \in Tokens : Unswept[t] # {}}) < MaxOutgoing
        /\ outgoing' = [Unswept EXCEPT ![next] = {c}] /\ next' = next + 1
\* cancel_outgoing
CancelOutgoing(c, t, stuck) ==
  /\ Authorized(c) /\ Sweeps(stuck)
  /\ outgoing' = [Unswept EXCEPT ![t] = @ \ {c}]
  /\ UNCHANGED next
\* finish_outgoing
EndOutgoing(c, t) ==
  /\ Authorized(c) /\ outgoing[t] = {c} /\ outgoing' = [outgoing EXCEPT ![t] = {}]
  /\ UNCHANGED <<access, incoming, idle, disk, files, sender, leftover, next, faults, restarts>>

\* half an hour without a chunk
Silent(t) ==
  /\ t \notin idle /\ (incoming[t].owner # {} \/ outgoing[t] # {}) /\ idle' = idle \cup {t}
  /\ UNCHANGED <<access, incoming, outgoing, disk, files, sender, leftover, next, faults, restarts>>

----------------------------------------------------------------------------
\* revoke_device: the pairing forgets the credential
Revoke(c) ==
  /\ c \in paired /\ paired' = paired \ {c} /\ revoking' = revoking \cup {c}
  /\ UNCHANGED <<revoked, incoming, outgoing, idle, disk, files, sender, leftover, next, faults, restarts>>

\* entries kept for a failed removal are tried again
ToRetire == {t \in Present(incoming) : incoming[t].retired \/ incoming[t].owner \subseteq revoking}

\* retire_owners, once the leases of the credential are idle
RetireOwners ==
  /\ revoking # {} /\ revoking' = {} /\ revoked' = revoked \cup revoking
  /\ \E stuck \in SUBSET ToRetire :
       /\ Cost(Cardinality(stuck))
       /\ incoming' = Retire(ToRetire \ stuck, stuck) /\ disk' = Removed(ToRetire \ stuck)
  /\ outgoing' = [t \in Tokens |-> outgoing[t] \ revoking]
  /\ UNCHANGED <<paired, idle, files, sender, leftover, next, restarts>>

\* the host process ends and starts again: its table is in memory only
Restart ==
  /\ restarts < MaxRestarts /\ restarts' = restarts + 1
  /\ incoming' = [t \in Tokens |-> Absent] /\ outgoing' = [t \in Tokens |-> {}]
  /\ sender' = [t \in Tokens |-> IF sender[t].st = "none" THEN sender[t] ELSE [sender[t] EXCEPT !.st = "gone"]]
  /\ leftover' = Parts /\ idle' = {}
  /\ revoking' = {} /\ revoked' = revoked \cup revoking
  /\ UNCHANGED <<paired, disk, files, next, faults>>

Next ==
  \/ \E c \in Credentials :
       \/ \E stuck \in SUBSET Tokens :
            \/ BeginIncoming(c, stuck) \/ BeginOutgoing(c, stuck)
            \/ \E t \in Tokens : CancelOutgoing(c, t, stuck)
       \/ Revoke(c)
       \/ \E t \in Tokens : \/ Append(c, t) \/ AppendFails(c, t) \/ End(c, t) \/ Cancel(c, t)
                            \/ Stray(c, t) \/ EndOutgoing(c, t)
  \/ \E t \in Tokens : Refused(t) \/ Silent(t)
  \/ RetireOwners \/ Restart

Spec == Init /\ [][Next]_vars

----------------------------------------------------------------------------
TransferTypeOK ==
  /\ \A t \in Tokens : incoming[t].owner \subseteq Credentials /\ incoming[t].written <= Size
  /\ \A t \in Present(incoming) : incoming[t].written = Size \/ incoming[t].written % Chunk = 0
  /\ paired \cap (revoking \cup revoked) = {}

\* An upload in progress of a paired viewer that has not fallen silent is still in the table,
\* with exactly the bytes its viewer believes to have sent, whatever other devices call with
\* its token and whatever is swept or revoked meanwhile.
UploadsAreKept ==
  \A t \in Tokens : sender[t].st = "sending" /\ sender[t].by \subseteq paired /\ t \notin idle =>
    incoming[t] = [owner |-> sender[t].by, written |-> sender[t].at, retired |-> FALSE]

\* Every staging file of this process has an entry that will remove it, also when removing it
\* failed once or several times.
PartsAreTracked == Parts \ leftover \subseteq Present(incoming)

\* A file under its final name has exactly the declared size, even when a write failed after a
\* part of its bytes had reached the staging file.
FilesAreWhole == \A f \in files : f.len = Size

\* After a revocation has returned, no transfer of the removed credential can move data again:
\* neither one it had nor one a request admitted before the revocation would still create.
RevokedHoldsNothing ==
  \A t \in Tokens : /\ incoming[t].owner \subseteq revoked => incoming[t].owner = {} \/ incoming[t].retired
                    /\ outgoing[t] \cap revoked = {}

\* An upload is nobody else's to take, the staging files are those of the table, a final file
\* is whole, and a revoked device holds no transfer.
TransfersAreAccounted ==
  /\ UploadsAreKept
  /\ PartsAreTracked
  /\ FilesAreWhole
  /\ RevokedHoldsNothing

================================================================================
