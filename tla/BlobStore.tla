----------------------------- MODULE BlobStore -----------------------------
(***************************************************************************)
(* Blobs, which are stored once per content, and the keys that decide how  *)
(* long they live: a Commit says that the blob was uploaded, and links say *)
(* that somebody needs it.  A link is temporary (a reservation or a JMAP   *)
(* upload, which expire) or permanent (of a document or a queued message). *)
(*                                                                         *)
(* Writers are put_temporary_blob and put_jmap_blob                        *)
(* (crates/common/src/storage/blob.rs) with the batch that follows them,   *)
(* the queue (crates/smtp/src/queue/spool.rs) and the local delivery of a  *)
(* queued message (crates/email/src/message/ingest.rs), which shares the   *)
(* blob.  The purge (crates/store/src/write/blob.rs) scans the keys, then  *)
(* deletes blobs without a link that has not expired, then their keys.     *)
(*                                                                         *)
(* Batches and scans are atomic, everything else interleaves; the blob     *)
(* store and the data store are different systems.                         *)
(***************************************************************************)
EXTENDS Naturals, FiniteSets

CONSTANTS
    Hashes,      \* contents
    Docs,        \* documents and queued messages
    Writers,     \* concurrent writers, of one account
    Hold,        \* [kind of writer -> how long its temporary link lasts]
    MaxNow,      \* bound: the clock stops here
    MaxFailures  \* bound: purges that fail

Kinds == {"document", "upload", "queue", "local"}

ASSUME HoldAssumption ==
    /\ Hold \in [Kinds -> Nat \ {0}] /\ MaxNow \in Nat /\ MaxFailures \in Nat

VARIABLES
    now,
    blobs,     \* the blob store
    commits,   \* BlobOp::Commit keys
    temps,     \* BlobLink::Temporary keys
    links,     \* BlobLink::Document and BlobLink::Id keys: <<hash, document>>
    uploads,   \* blob ids given out by put_jmap_blob, while they have their
               \* temporary link: <<hash, expiry>>
    writer,
    purge,     \* the purge: where it is, and BlobPurgeState
    failures,
    raced, slow  \* history, see the properties

vars == <<now, blobs, commits, temps, links, uploads, writer, purge, failures, raced, slow>>

Idle == [pc |-> "idle", kind |-> "none", hash |-> "none", until |-> 0]
NoPurge == [pc |-> "idle", todo |-> {}, hashes |-> {}, temps |-> {}]

Init ==
    /\ now = 0
    /\ blobs = {} /\ commits = {} /\ temps = {} /\ links = {} /\ uploads = {}
    /\ writer = [w \in Writers |-> Idle]
    /\ purge = NoPurge /\ failures = 0
    /\ raced = {} /\ slow = {}

Tick ==
    /\ now < MaxNow
    /\ now' = now + 1
    /\ UNCHANGED <<blobs, commits, temps, links, uploads, writer, purge, failures, raced, slow>>

\* The key of a temporary link: the queue's are under no account.
TempKey(x) == [hash |-> x.hash, queue |-> x.kind = "queue", until |-> x.until]
KeepAccess == uploads' = {u \in uploads : [hash |-> u[1], queue |-> FALSE, until |-> u[2]] \in temps'}
Active(h) == {w \in Writers : writer[w].pc # "idle" /\ writer[w].hash = h}
Linked(h) == \E l \in links : l[1] = h

\* The writer is at work on a hash that a purge has listed.
Meets(w) == raced' = IF writer[w].hash \in purge.hashes THEN raced \cup {writer[w].hash} ELSE raced
\* Bound: no property speaks of a raced content, so nobody starts on it again.
InScope(h) == h \notin raced
Goto(w, pc) == writer' = [writer EXCEPT ![w].pc = pc]

-----------------------------------------------------------------------------
(* Writers.                                                                *)

\* "First reserve the hash."
Reserve(w, h, kind) ==
    /\ writer[w].pc = "idle" /\ kind # "local" /\ InScope(h)
    /\ LET x == [pc |-> IF kind = "queue" THEN "put" ELSE "check", kind |-> kind,
                 hash |-> h, until |-> now + Hold[kind]]
       IN  /\ writer' = [writer EXCEPT ![w] = x]
           /\ temps' = temps \cup {TempKey(x)}
           /\ raced' = IF h \in purge.hashes THEN raced \cup {h} ELSE raced
    /\ UNCHANGED <<now, blobs, commits, links, uploads, purge, failures, slow>>

\* Local delivery uses the blob of the message in the queue.
Share(w, l) ==
    /\ writer[w].pc = "idle" /\ InScope(l[1])
    /\ writer' = [writer EXCEPT ![w] = [pc |-> "link", kind |-> "local", hash |-> l[1],
                                        until |-> 0]]
    /\ UNCHANGED <<now, blobs, commits, temps, links, uploads, purge, failures, raced, slow>>

\* Mutant: the reservation is taken for an upload.
BlobExists_Reserved(h) == h \in commits \/ Cardinality({t \in temps : t.hash = h}) > 1

BlobExists(h) == h \in commits

\* A hash that was committed is not uploaded again.
Check(w) ==
    LET h == writer[w].hash
    IN  /\ writer[w].pc = "check"
        /\ Goto(w, IF BlobExists(h) THEN "link" ELSE "put")
        /\ raced' = IF h \in purge.hashes \/ (h \in commits /\ h \notin blobs)
                      THEN raced \cup {h} ELSE raced
        /\ UNCHANGED <<now, blobs, commits, temps, links, uploads, purge, failures, slow>>

PutBlob(w) ==
    LET h == writer[w].hash
    IN  /\ writer[w].pc = "put"
        /\ blobs' = blobs \cup {h}
        /\ Goto(w, IF writer[w].kind = "queue" THEN "link" ELSE "commit")
        /\ slow' = IF TempKey(writer[w]) \in temps THEN slow ELSE slow \cup {h}
        /\ Meets(w)
        /\ UNCHANGED <<now, commits, temps, links, uploads, purge, failures>>

Commit(w) ==
    /\ writer[w].pc = "commit"
    /\ commits' = commits \cup {writer[w].hash}
    /\ Goto(w, "link")
    /\ Meets(w)
    /\ UNCHANGED <<now, blobs, temps, links, uploads, purge, failures, slow>>

\* Mutant: the queue does not commit the blob.
Link_NoCommit(w, d) ==
    LET x == writer[w]
    IN  /\ x.pc = "link" /\ x.kind # "upload"
        /\ \A l \in links : l[2] # d
        /\ links' = links \cup {<<x.hash, d>>}
        /\ temps' = temps \ {TempKey(x)}
        /\ writer' = [writer EXCEPT ![w] = Idle]
        /\ Meets(w) /\ KeepAccess
        /\ UNCHANGED <<now, blobs, commits, purge, failures, slow>>

\* The document's batch links the blob and clears the reservation; the
\* queue's also commits.
Link(w, d) ==
    LET x == writer[w]
    IN  /\ x.pc = "link" /\ x.kind # "upload"
        /\ \A l \in links : l[2] # d
        /\ links' = links \cup {<<x.hash, d>>}
        /\ temps' = temps \ {TempKey(x)}
        /\ commits' = IF x.kind = "queue" THEN commits \cup {x.hash} ELSE commits
        /\ writer' = [writer EXCEPT ![w] = Idle]
        /\ Meets(w) /\ KeepAccess
        /\ UNCHANGED <<now, blobs, purge, failures, slow>>

\* put_jmap_blob gives the blob id out; the link expires by itself.
Uploaded(w) ==
    LET x == writer[w]
    IN  /\ x.pc = "link" /\ x.kind = "upload"
        /\ uploads' = IF TempKey(x) \in temps THEN uploads \cup {<<x.hash, x.until>>} ELSE uploads
        /\ writer' = [writer EXCEPT ![w] = Idle]
        /\ Meets(w)
        /\ UNCHANGED <<now, blobs, commits, temps, links, purge, failures, slow>>

\* blob_has_access, for a blob id with an expiry whose link is there.
HasAccess(u) == u[2] > now

\* A store error, or a crash.
WriteFails(w) ==
    /\ writer[w].pc # "idle"
    /\ writer' = [writer EXCEPT ![w] = Idle]
    /\ UNCHANGED <<now, blobs, commits, temps, links, uploads, purge, failures, raced, slow>>

\* The document or the message is deleted.
Unlink(l) ==
    /\ l \in links
    /\ links' = links \ {l}
    /\ UNCHANGED <<now, blobs, commits, temps, uploads, writer, purge, failures, raced, slow>>

-----------------------------------------------------------------------------
(* The purge.                                                              *)

\* Mutant: the link is counted until it is purged.
Protects_Always(t) == TRUE

\* process_key: a temporary link protects its blob until it expires.
Protects(t) == t.until > now

Known == commits \cup {t.hash : t \in temps} \cup {l[1] : l \in links}
Unlinked == {h \in Known : ~Linked(h) /\ \A t \in temps : t.hash = h => ~Protects(t)}

\* The iteration over the keys lists what to delete.
PurgeScans ==
    LET old == {t \in temps : ~Protects(t)}
    IN  /\ purge.pc = "idle" /\ Unlinked \cup old # {}
        /\ purge' = [pc |-> "delete", todo |-> Unlinked, hashes |-> Unlinked, temps |-> old]
        /\ raced' = raced \cup {h \in Unlinked : Active(h) # {}}
        /\ UNCHANGED <<now, blobs, commits, temps, links, uploads, writer, failures, slow>>

\* "Delete expired or unlinked blobs": one by one, all before any key.
PurgeDeletes(h) ==
    /\ purge.pc = "delete" /\ h \in purge.todo
    /\ blobs' = blobs \ {h}
    /\ purge' = [purge EXCEPT !.todo = @ \ {h}]
    /\ UNCHANGED <<now, commits, temps, links, uploads, writer, failures, raced, slow>>

\* Mutant: the commits stay.
PurgeClears_LinksOnly(H, T) ==
    /\ purge.pc = "delete" /\ purge.todo = {}
    /\ H \subseteq purge.hashes /\ T \subseteq purge.temps
    /\ temps' = temps \ T
    /\ purge' = IF H = purge.hashes /\ T = purge.temps THEN NoPurge
                ELSE [purge EXCEPT !.hashes = @ \ H, !.temps = @ \ T]
    /\ KeepAccess
    /\ UNCHANGED <<now, blobs, commits, links, writer, failures, raced, slow>>

\* "Delete hashes": the keys, in one or several batches.
PurgeClears(H, T) ==
    /\ purge.pc = "delete" /\ purge.todo = {}
    /\ H \subseteq purge.hashes /\ T \subseteq purge.temps
    /\ commits' = commits \ H
    /\ temps' = temps \ T
    /\ purge' = IF H = purge.hashes /\ T = purge.temps THEN NoPurge
                ELSE [purge EXCEPT !.hashes = @ \ H, !.temps = @ \ T]
    /\ KeepAccess
    /\ UNCHANGED <<now, blobs, links, writer, failures, raced, slow>>

\* A store error, or a crash: what was not deleted yet stays.
PurgeFails ==
    /\ purge.pc = "delete" /\ failures < MaxFailures
    /\ purge' = NoPurge
    /\ failures' = failures + 1
    /\ UNCHANGED <<now, blobs, commits, temps, links, uploads, writer, raced, slow>>

-----------------------------------------------------------------------------
WriterStep(w) ==
    \/ \E h \in Hashes, kind \in Kinds : Reserve(w, h, kind)
    \/ \E l \in links : Share(w, l)
    \/ Check(w) \/ PutBlob(w) \/ Commit(w)
    \/ \E d \in Docs : Link(w, d)
    \/ Uploaded(w) \/ WriteFails(w)

PurgeStep ==
    \/ PurgeScans
    \/ \E h \in purge.todo : PurgeDeletes(h)
    \/ \E H \in SUBSET purge.hashes, T \in SUBSET purge.temps :
          /\ H # {} \/ T # {}
          /\ PurgeClears(H, T)

Next ==
    \/ Tick
    \/ \E w \in Writers : WriterStep(w)
    \/ \E l \in links : Unlink(l)
    \/ PurgeStep \/ PurgeFails

Spec == Init /\ [][Next]_vars

\* The maintenance task runs the purge again and again.
FairSpec == Spec /\ WF_vars(PurgeStep)

-----------------------------------------------------------------------------
(* Properties.                                                             *)

TypeOK ==
    /\ blobs \subseteq Hashes /\ commits \subseteq Hashes /\ links \subseteq Hashes \X Docs
    /\ uploads \subseteq Hashes \X Nat
    /\ temps \subseteq [hash : Hashes, queue : BOOLEAN, until : Nat]
    /\ \A w \in Writers : writer[w].pc # "idle" => writer[w].hash \in Hashes
    /\ purge.todo \subseteq purge.hashes /\ purge.hashes \subseteq Hashes

\* Whatever has a link, or an upload's blob id that gives access, is in the blob
\* store: two writers of one content, a reservation that ends, deletions
\* and purges do not take a blob away from anybody.  The exceptions are a
\* writer that works on a content which a purge has listed (raced): the purge
\* does not look again, and the writer trusts a commit that is about to go,
\* or that a failed purge has left behind.
LinkedBlobIsStored ==
    \A h \in Hashes \ raced :
        Linked(h) \/ (\E u \in uploads : u[1] = h /\ HasAccess(u)) => h \in blobs

\* A commit that no purge is about to clear, or has failed to, is true.
CommitIsTrue ==
    failures = 0 => commits \subseteq blobs \cup purge.hashes \cup raced

\* A blob can be found by the purge: it has a key, or a writer that will write
\* one or leave its reservation.  Only an upload that outlives its reservation
\* may leave a blob that nobody finds.
BlobIsFindable == blobs \subseteq Known \cup slow \cup raced

Garbage(h) ==
    /\ h \in (blobs \cup commits) \ (slow \cup raced)
    /\ ~Linked(h) /\ \A t \in temps : t.hash = h => t.until <= now
    /\ Active(h) = {}

\* What nobody needs is deleted in the end, unless it is needed again.
GarbageIsDeleted == \A h \in Hashes : Garbage(h) ~> ~Garbage(h)
=============================================================================
