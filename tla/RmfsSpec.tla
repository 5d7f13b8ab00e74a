------------------------------ MODULE RmfsSpec ------------------------------
(***************************************************************************)
(* What the RMFS volume promises to the layer above it.                    *)
(*                                                                         *)
(* A volume is a set of named files.  A write changes one file, in one     *)
(* step, to exactly what the request asks for.  The volume is torn from    *)
(* the first change of a transaction group to the commit of the group: a   *)
(* torn volume cannot be mounted, so nobody ever reads an uncommitted file *)
(* after a restart.  A write that reports success has been carried out,    *)
(* one that reports failure on a volume that stays up has not, and a sync  *)
(* that reports success leaves nothing torn.                               *)
(***************************************************************************)
EXTENDS Naturals, Sequences

CONSTANTS Names,    \* the file names
          Requests  \* the requests that callers make: writes and SyncRequest

VARIABLES files,  \* the contents of every file, or NoFile
          torn,   \* a transaction group is open on the medium
          up,     \* the volume is mounted
          req,    \* the request in progress, or NoRequest
          done,   \* the request in progress has been carried out
          ok      \* what the last request reported

avars == <<files, torn, up, req, done, ok>>

NoFile == [data |-> <<>>, exists |-> FALSE]

NoRequest == [name |-> 0]

SyncRequest == [name |-> 0, sync |-> TRUE]

(* The contents that a write of r.data at r.off leaves in a file of        *)
(* contents old: the file ends at r.final and a hole reads as zeros.       *)
Written(old, r) ==
    [i \in 1 .. r.final |->
        IF i > r.off /\ i <= r.off + Len(r.data) THEN r.data[i - r.off]
        ELSE IF r.preserve /\ i <= Len(old) THEN old[i]
        ELSE 0]

Call(r) ==
    /\ up /\ req = NoRequest
    /\ req' = r /\ done' = FALSE
    /\ UNCHANGED <<files, torn, up, ok>>

(* The first change since the last commit. *)
Tear ==
    /\ ~torn
    /\ torn' = TRUE
    /\ UNCHANGED <<files, up, req, done, ok>>

(* The write itself: a range write never creates a file. *)
Write ==
    /\ torn /\ req \notin {NoRequest, SyncRequest} /\ ~done
    /\ req.preserve => files[req.name].exists /\ req.final >= Len(files[req.name].data)
    /\ files' = [files EXCEPT ![req.name] =
                    [data |-> Written(files[req.name].data, req), exists |-> TRUE]]
    /\ done' = TRUE
    /\ UNCHANGED <<torn, up, req, ok>>

Commit ==
    /\ torn
    /\ torn' = FALSE
    /\ UNCHANGED <<files, up, req, done, ok>>

(* A request that has nothing left to do: a sync of a volume that is not   *)
(* torn, or a range write of nothing that leaves the size alone.           *)
Idle(r) ==
    \/ r = SyncRequest /\ ~torn
    \/ /\ r \notin {NoRequest, SyncRequest}
       /\ r.preserve /\ r.data = <<>> /\ r.final = Len(files[r.name].data)

Return ==
    /\ req # NoRequest
    /\ req' = NoRequest /\ done' = FALSE
    /\ \/ ok' = TRUE /\ (done \/ Idle(req)) /\ UNCHANGED up
       \/ ok' = FALSE /\ ~done /\ req # SyncRequest /\ UNCHANGED up
       \/ ok' = FALSE /\ up' = FALSE
    /\ UNCHANGED <<files, torn>>

(* The machine stops; the medium keeps what it has. *)
Stop ==
    /\ up' = FALSE /\ req' = NoRequest /\ done' = FALSE
    /\ UNCHANGED <<files, torn, ok>>

Mount ==
    /\ ~up /\ ~torn
    /\ up' = TRUE
    /\ UNCHANGED <<files, torn, req, done, ok>>

AInit ==
    /\ files \in [Names -> [data : Seq(Nat), exists : BOOLEAN]]
    /\ torn = FALSE /\ up = TRUE /\ req = NoRequest /\ done = FALSE /\ ok = TRUE

ANext ==
    \/ \E r \in Requests : Call(r)
    \/ Tear \/ Write \/ Commit \/ Return \/ Stop \/ Mount

ASpec == AInit /\ [][ANext]_avars
=============================================================================
