-------------------------- MODULE BlobStoreProofs --------------------------
(***************************************************************************)
(* For any contents, documents, writers and lifetimes of temporary links:  *)
(* what is linked is stored, commits are true, and blobs can be found by   *)
(* the purge, but for contents on which a writer met a purge.              *)
(*                                                                         *)
(* None of the three is inductive.  What protects a content that was never *)
(* raced is that nobody works on it, links it or may read it while a purge *)
(* has listed it (ListedIsUnused), that a writer about to link has its     *)
(* blob and, unless its batch commits, its commit (LinkerIsBacked), and    *)
(* that the purge leaves a content which it did not list another key than  *)
(* the ones it is about to clear (BlobHasKey, ReservationOrKey).           *)
(***************************************************************************)
EXTENDS BlobStore, TLAPS

WriterStates ==
    [pc : {"idle", "check", "put", "commit", "link"}, kind : Kinds \cup {"none"},
     hash : Hashes \cup {"none"}, until : Nat]
TempKeys == [hash : Hashes, queue : BOOLEAN, until : Nat]

TypeInv ==
    /\ now \in Nat /\ failures \in Nat
    /\ blobs \in SUBSET Hashes /\ commits \in SUBSET Hashes
    /\ temps \in SUBSET TempKeys
    /\ links \in SUBSET (Hashes \X Docs)
    /\ uploads \in SUBSET (Hashes \X Nat)
    /\ writer \in [Writers -> WriterStates]
    /\ purge \in [pc : {"idle", "delete"}, todo : SUBSET Hashes, hashes : SUBSET Hashes,
                  temps : SUBSET TempKeys]
    /\ raced \in SUBSET Hashes /\ slow \in SUBSET Hashes

\* What a writer may be doing, by its kind.
WriterOK ==
    \A w \in Writers : writer[w].pc # "idle" =>
        /\ writer[w].hash \in Hashes /\ writer[w].kind \in Kinds
        /\ writer[w].pc \in {"check", "commit"} => writer[w].kind \in {"document", "upload"}
        /\ writer[w].pc = "put" => writer[w].kind # "local"

PurgeOK ==
    /\ purge.todo \subseteq purge.hashes
    /\ \A t \in purge.temps : t.until <= now
    /\ purge.pc = "idle" => purge = NoPurge

\* A blob id that gives access still has its temporary link.
UploadHasLink ==
    \A u \in uploads : [hash |-> u[1], queue |-> FALSE, until |-> u[2]] \in temps

\* A content that a purge has listed and that was not raced is nobody's.
ListedIsUnused ==
    \A h \in purge.hashes \ raced :
        /\ \A w \in Writers : writer[w].pc # "idle" => writer[w].hash # h
        /\ ~Linked(h)
        /\ \A u \in uploads : u[1] = h => ~HasAccess(u)
        /\ h \notin purge.todo => h \notin blobs

LinkerIsBacked ==
    \A w \in Writers :
        writer[w].pc \in {"commit", "link"} /\ writer[w].hash \notin raced =>
            /\ writer[w].hash \in blobs
            /\ writer[w].pc = "link" /\ writer[w].kind # "queue" => writer[w].hash \in commits

LinkedIsCommitted == \A h \in Hashes \ raced : Linked(h) => h \in commits

\* The blob of h has a key that the purge at work will not clear before the
\* blob.
Key(h) == \E t \in temps : t.hash = h /\ (t \notin purge.temps \/ h \in purge.todo)
BlobHasKey == \A h \in blobs \ (slow \cup raced) : h \in commits \/ Key(h)

\* A purge that clears a writer's reservation leaves another key.
ReservationOrKey ==
    \A w \in Writers :
        writer[w].pc \in {"check", "put"} /\ writer[w].hash \notin raced =>
            \/ TempKey(writer[w]) \notin purge.temps
            \/ writer[w].hash \in commits
            \/ Key(writer[w].hash)

IInv ==
    /\ TypeInv /\ WriterOK /\ PurgeOK
    /\ UploadHasLink /\ ListedIsUnused /\ LinkerIsBacked /\ LinkedIsCommitted
    /\ BlobHasKey /\ ReservationOrKey
    /\ LinkedBlobIsStored /\ CommitIsTrue

LEMMA TickIInv ==
  ASSUME IInv, Tick PROVE IInv'
<1>1. TypeInv'
  BY DEF IInv, TypeInv, Tick
<1>2. WriterOK'
  BY DEF IInv, WriterOK, Tick
<1>3. PurgeOK'
  BY DEF IInv, TypeInv, TempKeys, PurgeOK, Tick
<1>4. UploadHasLink'
  BY DEF IInv, UploadHasLink, Tick
<1>5. ListedIsUnused'
  BY DEF IInv, TypeInv, ListedIsUnused, Linked, HasAccess, Tick
<1>6. LinkerIsBacked'
  BY DEF IInv, LinkerIsBacked, Tick
<1>7. LinkedIsCommitted'
  BY DEF IInv, LinkedIsCommitted, Linked, Tick
<1>8. BlobHasKey'
  BY DEF IInv, BlobHasKey, Key, Tick
<1>9. ReservationOrKey'
  BY DEF IInv, Key, ReservationOrKey, Tick
<1>10. LinkedBlobIsStored'
  BY DEF IInv, TypeInv, LinkedBlobIsStored, Linked, HasAccess, Tick
<1>11. CommitIsTrue'
  BY DEF IInv, CommitIsTrue, Tick
<1>12. QED
  BY <1>1, <1>2, <1>3, <1>4, <1>5, <1>6, <1>7, <1>8, <1>9, <1>10, <1>11 DEF IInv

LEMMA ReserveIInv ==
  ASSUME IInv, NEW w \in Writers, NEW h \in Hashes, NEW kind \in Kinds, Reserve(w, h, kind) PROVE IInv'
<1>1. TypeInv'
  <2> DEFINE x == [pc |-> IF kind = "queue" THEN "put" ELSE "check", kind |-> kind,
                   hash |-> h, until |-> now + Hold[kind]]
  <2>1. now + Hold[kind] \in Nat
    BY HoldAssumption DEF IInv, TypeInv
  <2>2. x \in WriterStates /\ TempKey(x) \in TempKeys
    BY <2>1 DEF WriterStates, TempKeys, TempKey
  <2>3. /\ writer' = [writer EXCEPT ![w] = x] /\ temps' = temps \cup {TempKey(x)}
        /\ raced' \in {raced, raced \cup {h}}
        /\ UNCHANGED <<now, blobs, commits, links, uploads, purge, failures, slow>>
    BY DEF Reserve
  <2> HIDE DEF x
  <2>4. QED
    BY <2>2, <2>3 DEF IInv, TypeInv
<1>2. WriterOK'
  <2>1. /\ kind # "local"
        /\ writer' = [writer EXCEPT ![w] =
             [pc |-> IF kind = "queue" THEN "put" ELSE "check", kind |-> kind,
              hash |-> h, until |-> now + Hold[kind]]]
    BY DEF Reserve
  <2>2. kind = "queue" \/ kind \in {"document", "upload"}
    BY <2>1 DEF Kinds
  <2>3. ASSUME NEW v \in Writers, v # w PROVE writer'[v] = writer[v]
    BY <2>1, <2>3 DEF IInv, TypeInv
  <2>4. writer'[w] = [pc |-> IF kind = "queue" THEN "put" ELSE "check", kind |-> kind,
                      hash |-> h, until |-> now + Hold[kind]]
    BY <2>1 DEF IInv, TypeInv
  <2>5. QED
    BY <2>1, <2>2, <2>3, <2>4 DEF IInv, WriterOK
<1>3. PurgeOK'
  BY DEF IInv, PurgeOK, Reserve
<1>4. UploadHasLink'
  BY DEF IInv, UploadHasLink, Reserve
<1>5. ListedIsUnused'
  BY DEF IInv, ListedIsUnused, Linked, HasAccess, Reserve
<1>6. LinkerIsBacked'
  BY DEF IInv, LinkerIsBacked, Reserve
<1>7. LinkedIsCommitted'
  BY DEF IInv, LinkedIsCommitted, Linked, Reserve
<1>8. BlobHasKey'
  BY DEF IInv, BlobHasKey, Key, Reserve
<1>9. ReservationOrKey'
  BY HoldAssumption DEF IInv, TypeInv, PurgeOK, Key, ReservationOrKey, Reserve, TempKey
<1>10. LinkedBlobIsStored'
  BY DEF IInv, LinkedBlobIsStored, Linked, HasAccess, Reserve
<1>11. CommitIsTrue'
  BY DEF IInv, CommitIsTrue, Reserve
<1>12. QED
  BY <1>1, <1>2, <1>3, <1>4, <1>5, <1>6, <1>7, <1>8, <1>9, <1>10, <1>11 DEF IInv

LEMMA ShareIInv ==
  ASSUME IInv, NEW w \in Writers, NEW l \in links, Share(w, l) PROVE IInv'
<1>1. TypeInv'
  <2>1. l[1] \in Hashes
    BY DEF IInv, TypeInv
  <2>2. [pc |-> "link", kind |-> "local", hash |-> l[1], until |-> 0] \in WriterStates
    BY <2>1 DEF WriterStates, Kinds
  <2>3. QED
    BY <2>2 DEF IInv, TypeInv, Share
<1>2. WriterOK'
  <2>1. l[1] \in Hashes /\ "local" \in Kinds
    BY DEF IInv, TypeInv, Kinds
  <2>2. QED
    BY <2>1 DEF IInv, WriterOK, Share
<1>3. PurgeOK'
  BY DEF IInv, PurgeOK, Share
<1>4. UploadHasLink'
  BY DEF IInv, UploadHasLink, Share
<1>5. ListedIsUnused'
  BY DEF IInv, ListedIsUnused, Linked, HasAccess, Share
<1>6. LinkerIsBacked'
  <2>1. /\ l[1] \in Hashes \ raced /\ Linked(l[1])
        /\ UNCHANGED <<blobs, commits, raced>>
    BY DEF IInv, TypeInv, Share, InScope, Linked
  <2>2. l[1] \in commits /\ l[1] \in blobs
    BY <2>1 DEF IInv, LinkedIsCommitted, LinkedBlobIsStored
  <2>3. QED
    BY <2>1, <2>2 DEF IInv, LinkerIsBacked, Share
<1>7. LinkedIsCommitted'
  BY DEF IInv, LinkedIsCommitted, Linked, Share
<1>8. BlobHasKey'
  BY DEF IInv, BlobHasKey, Key, Share
<1>9. ReservationOrKey'
  BY DEF IInv, Key, ReservationOrKey, Share
<1>10. LinkedBlobIsStored'
  BY DEF IInv, LinkedBlobIsStored, Linked, HasAccess, Share
<1>11. CommitIsTrue'
  BY DEF IInv, CommitIsTrue, Share
<1>12. QED
  BY <1>1, <1>2, <1>3, <1>4, <1>5, <1>6, <1>7, <1>8, <1>9, <1>10, <1>11 DEF IInv

LEMMA CheckIInv ==
  ASSUME IInv, NEW w \in Writers, Check(w) PROVE IInv'
<1>1. TypeInv'
  BY DEF IInv, TypeInv, WriterStates, Check, Goto
<1>2. WriterOK'
  BY DEF IInv, WriterOK, Check, Goto
<1>3. PurgeOK'
  BY DEF IInv, PurgeOK, Check
<1>4. UploadHasLink'
  BY DEF IInv, UploadHasLink, Check
<1>5. ListedIsUnused'
  BY DEF IInv, ListedIsUnused, Linked, HasAccess, Check, Goto
<1>6. LinkerIsBacked'
  BY DEF IInv, LinkerIsBacked, Check, Goto, BlobExists
<1>7. LinkedIsCommitted'
  BY DEF IInv, LinkedIsCommitted, Linked, Check
<1>8. BlobHasKey'
  BY DEF IInv, BlobHasKey, Key, Check
<1>9. ReservationOrKey'
  BY DEF IInv, Key, ReservationOrKey, TempKey, Check, Goto
<1>10. LinkedBlobIsStored'
  BY DEF IInv, LinkedBlobIsStored, Linked, HasAccess, Check
<1>11. CommitIsTrue'
  BY DEF IInv, CommitIsTrue, Check
<1>12. QED
  BY <1>1, <1>2, <1>3, <1>4, <1>5, <1>6, <1>7, <1>8, <1>9, <1>10, <1>11 DEF IInv

LEMMA PutBlobIInv ==
  ASSUME IInv, NEW w \in Writers, PutBlob(w) PROVE IInv'
<1>1. TypeInv'
  <2>1. writer[w] \in WriterStates /\ writer[w].hash \in Hashes
    BY DEF IInv, TypeInv, WriterOK, PutBlob
  <2>2. raced' \in SUBSET Hashes
    BY <2>1 DEF IInv, TypeInv, PutBlob, Meets
  <2>3. writer' \in [Writers -> WriterStates]
    BY <2>1 DEF IInv, TypeInv, WriterStates, PutBlob, Goto
  <2>4. blobs' \in SUBSET Hashes /\ commits' \in SUBSET Hashes /\ slow' \in SUBSET Hashes
    BY <2>1 DEF IInv, TypeInv, PutBlob
  <2>5. QED
    BY <2>2, <2>3, <2>4 DEF IInv, TypeInv, PutBlob
<1>2. WriterOK'
  <2>1. writer[w].hash \in Hashes /\ writer[w].kind \in Kinds \ {"local"}
    BY DEF IInv, WriterOK, PutBlob
  <2>2. writer[w].kind = "queue" \/ writer[w].kind \in {"document", "upload"}
    BY <2>1 DEF Kinds
  <2>3. writer' = [writer EXCEPT ![w].pc = IF writer[w].kind = "queue" THEN "link" ELSE "commit"]
    BY DEF PutBlob, Goto
  <2>4. QED
    BY <2>1, <2>2, <2>3 DEF IInv, WriterOK
<1>3. PurgeOK'
  BY DEF IInv, PurgeOK, PutBlob
<1>4. UploadHasLink'
  BY DEF IInv, UploadHasLink, PutBlob
<1>5. ListedIsUnused'
  BY DEF IInv, ListedIsUnused, Linked, HasAccess, PutBlob, Goto, Meets
<1>6. LinkerIsBacked'
  BY DEF IInv, LinkerIsBacked, PutBlob, Goto, Meets
<1>7. LinkedIsCommitted'
  BY DEF IInv, LinkedIsCommitted, Linked, PutBlob, Meets
<1>8. BlobHasKey'
  BY DEF IInv, BlobHasKey, Key, ReservationOrKey, PutBlob, Meets, TempKey
<1>9. ReservationOrKey'
  BY DEF IInv, TypeInv, Key, ReservationOrKey, PutBlob, Goto, Meets
<1>10. LinkedBlobIsStored'
  BY DEF IInv, LinkedBlobIsStored, Linked, HasAccess, PutBlob, Meets
<1>11. CommitIsTrue'
  BY DEF IInv, CommitIsTrue, PutBlob, Meets
<1>12. QED
  BY <1>1, <1>2, <1>3, <1>4, <1>5, <1>6, <1>7, <1>8, <1>9, <1>10, <1>11 DEF IInv

LEMMA CommitIInv ==
  ASSUME IInv, NEW w \in Writers, Commit(w) PROVE IInv'
<1>1. TypeInv'
  <2>1. writer[w] \in WriterStates /\ writer[w].hash \in Hashes
    BY DEF IInv, TypeInv, WriterOK, Commit
  <2>2. raced' \in SUBSET Hashes
    BY <2>1 DEF IInv, TypeInv, Commit, Meets
  <2>3. writer' \in [Writers -> WriterStates]
    BY <2>1 DEF IInv, TypeInv, WriterStates, Commit, Goto
  <2>4. blobs' \in SUBSET Hashes /\ commits' \in SUBSET Hashes /\ slow' \in SUBSET Hashes
    BY <2>1 DEF IInv, TypeInv, Commit
  <2>5. QED
    BY <2>2, <2>3, <2>4 DEF IInv, TypeInv, Commit
<1>2. WriterOK'
  BY DEF IInv, WriterOK, Commit, Goto
<1>3. PurgeOK'
  BY DEF IInv, PurgeOK, Commit
<1>4. UploadHasLink'
  BY DEF IInv, UploadHasLink, Commit
<1>5. ListedIsUnused'
  BY DEF IInv, ListedIsUnused, Linked, HasAccess, Commit, Goto, Meets
<1>6. LinkerIsBacked'
  BY DEF IInv, LinkerIsBacked, Commit, Goto, Meets
<1>7. LinkedIsCommitted'
  BY DEF IInv, LinkedIsCommitted, Linked, Commit, Meets
<1>8. BlobHasKey'
  BY DEF IInv, BlobHasKey, Key, Commit, Meets
<1>9. ReservationOrKey'
  BY DEF IInv, Key, ReservationOrKey, Commit, Goto, Meets
<1>10. LinkedBlobIsStored'
  BY DEF IInv, LinkedBlobIsStored, Linked, HasAccess, Commit, Meets
<1>11. CommitIsTrue'
  BY DEF IInv, LinkerIsBacked, CommitIsTrue, Commit, Meets
<1>12. QED
  BY <1>1, <1>2, <1>3, <1>4, <1>5, <1>6, <1>7, <1>8, <1>9, <1>10, <1>11 DEF IInv

LEMMA LinkIInv ==
  ASSUME IInv, NEW w \in Writers, NEW d \in Docs, Link(w, d) PROVE IInv'
<1>1. TypeInv'
  <2>1. writer[w] \in WriterStates /\ writer[w].hash \in Hashes
    BY DEF IInv, TypeInv, WriterOK, Link
  <2>2. raced' \in SUBSET Hashes
    BY <2>1 DEF IInv, TypeInv, Link, Meets
  <2>3. writer' \in [Writers -> WriterStates]
    BY DEF IInv, TypeInv, WriterStates, Link, Idle
  <2>4. /\ commits' \in SUBSET Hashes /\ links' \in SUBSET (Hashes \X Docs)
        /\ temps' \in SUBSET TempKeys /\ uploads' \in SUBSET (Hashes \X Nat)
    BY <2>1 DEF IInv, TypeInv, Link, KeepAccess
  <2>5. QED
    BY <2>2, <2>3, <2>4 DEF IInv, TypeInv, Link
<1>2. WriterOK'
  BY DEF IInv, WriterOK, Link, Idle
<1>3. PurgeOK'
  BY DEF IInv, PurgeOK, Link
<1>4. UploadHasLink'
  BY DEF UploadHasLink, Link, KeepAccess
<1>5. ListedIsUnused'
  BY DEF IInv, ListedIsUnused, Linked, HasAccess, Link, Meets, KeepAccess, Idle
<1>6. LinkerIsBacked'
  BY DEF IInv, LinkerIsBacked, Link, Meets, Idle
<1>7. LinkedIsCommitted'
  BY DEF IInv, LinkerIsBacked, LinkedIsCommitted, Linked, Link, Meets
<1>8. BlobHasKey'
  BY DEF IInv, LinkerIsBacked, BlobHasKey, Key, Link, Meets, TempKey
<1>9. ReservationOrKey'
  BY DEF IInv, LinkerIsBacked, Key, ReservationOrKey, Link, Meets, TempKey, Idle
<1>10. LinkedBlobIsStored'
  <2>1. SUFFICES ASSUME NEW h \in Hashes \ raced',
                        (Linked(h) \/ \E u \in uploads : u[1] = h /\ HasAccess(u))'
                 PROVE  h \in blobs
    BY DEF LinkedBlobIsStored, Link
  <2>2. h \notin raced
    BY DEF Link, Meets
  <2>3. CASE h = writer[w].hash
    BY <2>2, <2>3 DEF IInv, LinkerIsBacked, Link
  <2>4. CASE h # writer[w].hash
    <3>1. Linked(h)' => Linked(h)
      BY <2>4 DEF Link, Linked
    <3>2. (\E u \in uploads : u[1] = h /\ HasAccess(u))' =>
            \E u \in uploads : u[1] = h /\ HasAccess(u)
      BY DEF Link, KeepAccess, HasAccess
    <3>3. QED
      BY <2>1, <2>2, <3>1, <3>2 DEF IInv, LinkedBlobIsStored
  <2>5. QED
    BY <2>3, <2>4
<1>11. CommitIsTrue'
  BY DEF IInv, LinkerIsBacked, CommitIsTrue, Link, Meets
<1>12. QED
  BY <1>1, <1>2, <1>3, <1>4, <1>5, <1>6, <1>7, <1>8, <1>9, <1>10, <1>11 DEF IInv

LEMMA UploadedIInv ==
  ASSUME IInv, NEW w \in Writers, Uploaded(w) PROVE IInv'
<1>1. TypeInv'
  BY DEF IInv, TypeInv, WriterStates, TempKeys, Uploaded, Meets, TempKey, Idle
<1>2. WriterOK'
  BY DEF IInv, WriterOK, Uploaded, Idle
<1>3. PurgeOK'
  BY DEF IInv, PurgeOK, Uploaded
<1>4. UploadHasLink'
  <2>1. ASSUME TempKey(writer[w]) \in temps
        PROVE  [hash |-> writer[w].hash, queue |-> FALSE, until |-> writer[w].until] \in temps
    BY <2>1 DEF Uploaded, TempKey
  <2>2. uploads' = uploads \/ (/\ TempKey(writer[w]) \in temps
                               /\ uploads' = uploads \cup {<<writer[w].hash, writer[w].until>>})
    BY DEF Uploaded
  <2>3. QED
    <3>1. CASE uploads' = uploads
      BY <3>1 DEF IInv, UploadHasLink, Uploaded
    <3>2. CASE /\ TempKey(writer[w]) \in temps
               /\ uploads' = uploads \cup {<<writer[w].hash, writer[w].until>>}
      <4>1. SUFFICES ASSUME NEW u \in uploads'
                     PROVE  [hash |-> u[1], queue |-> FALSE, until |-> u[2]] \in temps
        BY DEF UploadHasLink, Uploaded
      <4>2. CASE u \in uploads
        BY <4>2 DEF IInv, UploadHasLink
      <4>3. CASE u = <<writer[w].hash, writer[w].until>>
        BY <2>1, <3>2, <4>3
      <4>4. QED
        BY <3>2, <4>2, <4>3
    <3>3. QED
      BY <2>2, <3>1, <3>2
<1>5. ListedIsUnused'
  BY DEF IInv, ListedIsUnused, Linked, HasAccess, Uploaded, Meets, Idle
<1>6. LinkerIsBacked'
  BY DEF IInv, LinkerIsBacked, Uploaded, Meets, Idle
<1>7. LinkedIsCommitted'
  BY DEF IInv, LinkedIsCommitted, Linked, Uploaded, Meets
<1>8. BlobHasKey'
  BY DEF IInv, BlobHasKey, Key, Uploaded, Meets
<1>9. ReservationOrKey'
  BY DEF IInv, WriterOK, Key, ReservationOrKey, Uploaded, Meets, Idle
<1>10. LinkedBlobIsStored'
  BY DEF IInv, LinkerIsBacked, LinkedBlobIsStored, Linked, HasAccess, Uploaded, Meets
<1>11. CommitIsTrue'
  BY DEF IInv, CommitIsTrue, Uploaded, Meets
<1>12. QED
  BY <1>1, <1>2, <1>3, <1>4, <1>5, <1>6, <1>7, <1>8, <1>9, <1>10, <1>11 DEF IInv

LEMMA WriteFailsIInv ==
  ASSUME IInv, NEW w \in Writers, WriteFails(w) PROVE IInv'
<1>1. TypeInv'
  BY DEF IInv, TypeInv, WriterStates, WriteFails, Idle
<1>2. WriterOK'
  BY DEF IInv, WriterOK, WriteFails, Idle
<1>3. PurgeOK'
  BY DEF IInv, PurgeOK, WriteFails
<1>4. UploadHasLink'
  BY DEF IInv, UploadHasLink, WriteFails
<1>5. ListedIsUnused'
  BY DEF IInv, ListedIsUnused, Linked, HasAccess, WriteFails, Idle
<1>6. LinkerIsBacked'
  BY DEF IInv, LinkerIsBacked, WriteFails, Idle
<1>7. LinkedIsCommitted'
  BY DEF IInv, LinkedIsCommitted, Linked, WriteFails
<1>8. BlobHasKey'
  BY DEF IInv, BlobHasKey, Key, WriteFails
<1>9. ReservationOrKey'
  BY DEF IInv, Key, ReservationOrKey, WriteFails, Idle
<1>10. LinkedBlobIsStored'
  BY DEF IInv, LinkedBlobIsStored, Linked, HasAccess, WriteFails
<1>11. CommitIsTrue'
  BY DEF IInv, CommitIsTrue, WriteFails
<1>12. QED
  BY <1>1, <1>2, <1>3, <1>4, <1>5, <1>6, <1>7, <1>8, <1>9, <1>10, <1>11 DEF IInv

LEMMA UnlinkIInv ==
  ASSUME IInv, NEW l \in links, Unlink(l) PROVE IInv'
<1>1. TypeInv'
  BY DEF IInv, TypeInv, Unlink
<1>2. WriterOK'
  BY DEF IInv, WriterOK, Unlink
<1>3. PurgeOK'
  BY DEF IInv, PurgeOK, Unlink
<1>4. UploadHasLink'
  BY DEF IInv, UploadHasLink, Unlink
<1>5. ListedIsUnused'
  BY DEF IInv, ListedIsUnused, Linked, HasAccess, Unlink
<1>6. LinkerIsBacked'
  BY DEF IInv, LinkerIsBacked, Unlink
<1>7. LinkedIsCommitted'
  BY DEF IInv, LinkedIsCommitted, Linked, Unlink
<1>8. BlobHasKey'
  BY DEF IInv, BlobHasKey, Key, Unlink
<1>9. ReservationOrKey'
  BY DEF IInv, Key, ReservationOrKey, Unlink
<1>10. LinkedBlobIsStored'
  BY DEF IInv, LinkedBlobIsStored, Linked, HasAccess, Unlink
<1>11. CommitIsTrue'
  BY DEF IInv, CommitIsTrue, Unlink
<1>12. QED
  BY <1>1, <1>2, <1>3, <1>4, <1>5, <1>6, <1>7, <1>8, <1>9, <1>10, <1>11 DEF IInv

LEMMA PurgeScansIInv ==
  ASSUME IInv, PurgeScans PROVE IInv'
<1>1. TypeInv'
  BY DEF IInv, TypeInv, TempKeys, PurgeScans, Unlinked, Known
<1>2. WriterOK'
  BY DEF IInv, WriterOK, PurgeScans
<1>3. PurgeOK'
  BY DEF IInv, TypeInv, TempKeys, PurgeOK, PurgeScans, Protects
<1>4. UploadHasLink'
  BY DEF IInv, UploadHasLink, PurgeScans
<1>5. ListedIsUnused'
  <2>1. SUFFICES ASSUME NEW h \in Unlinked, h \notin raced'
                 PROVE  /\ \A w \in Writers : writer[w].pc # "idle" => writer[w].hash # h
                        /\ ~Linked(h)
                        /\ \A u \in uploads : u[1] = h => ~HasAccess(u)
    BY DEF ListedIsUnused, PurgeScans, Linked, HasAccess
  <2>2. Active(h) = {} /\ ~Linked(h) /\ \A t \in temps : t.hash = h => ~Protects(t)
    BY <2>1 DEF PurgeScans, Unlinked
  <2>3. \A u \in uploads : u[1] = h => ~HasAccess(u)
    BY <2>2 DEF IInv, UploadHasLink, HasAccess, Protects
  <2>4. QED
    BY <2>2, <2>3 DEF Active
<1>6. LinkerIsBacked'
  BY DEF IInv, LinkerIsBacked, PurgeScans
<1>7. LinkedIsCommitted'
  BY DEF IInv, LinkedIsCommitted, PurgeScans, Linked
<1>8. BlobHasKey'
  BY DEF IInv, TypeInv, LinkedIsCommitted, BlobHasKey, Key, PurgeScans, Unlinked, Known
<1>9. ReservationOrKey'
  BY DEF IInv, WriterOK, LinkedIsCommitted, Key, ReservationOrKey, TempKey,
     PurgeScans, Unlinked, Known
<1>10. LinkedBlobIsStored'
  BY DEF IInv, LinkedBlobIsStored, HasAccess, PurgeScans, Linked
<1>11. CommitIsTrue'
  BY DEF IInv, PurgeOK, CommitIsTrue, PurgeScans, NoPurge
<1>12. QED
  BY <1>1, <1>2, <1>3, <1>4, <1>5, <1>6, <1>7, <1>8, <1>9, <1>10, <1>11 DEF IInv

LEMMA PurgeDeletesIInv ==
  ASSUME IInv, NEW h \in purge.todo, PurgeDeletes(h) PROVE IInv'
<1>1. TypeInv'
  BY DEF IInv, TypeInv, PurgeDeletes
<1>2. WriterOK'
  BY DEF IInv, WriterOK, PurgeDeletes
<1>3. PurgeOK'
  BY DEF IInv, PurgeOK, PurgeDeletes
<1>4. UploadHasLink'
  BY DEF IInv, UploadHasLink, PurgeDeletes
<1>5. ListedIsUnused'
  BY DEF IInv, ListedIsUnused, Linked, HasAccess, PurgeDeletes
<1>6. LinkerIsBacked'
  BY DEF IInv, PurgeOK, ListedIsUnused, LinkerIsBacked, PurgeDeletes
<1>7. LinkedIsCommitted'
  BY DEF IInv, LinkedIsCommitted, Linked, PurgeDeletes
<1>8. BlobHasKey'
  BY DEF IInv, BlobHasKey, Key, PurgeDeletes
<1>9. ReservationOrKey'
  BY DEF IInv, PurgeOK, ListedIsUnused, Key, ReservationOrKey, PurgeDeletes
<1>10. LinkedBlobIsStored'
  BY DEF IInv, PurgeOK, ListedIsUnused, LinkedBlobIsStored, Linked, HasAccess,
     PurgeDeletes
<1>11. CommitIsTrue'
  BY DEF IInv, PurgeOK, CommitIsTrue, PurgeDeletes
<1>12. QED
  BY <1>1, <1>2, <1>3, <1>4, <1>5, <1>6, <1>7, <1>8, <1>9, <1>10, <1>11 DEF IInv

LEMMA PurgeClearsIInv ==
  ASSUME IInv, NEW H \in SUBSET purge.hashes, NEW T \in SUBSET purge.temps, PurgeClears(H, T) PROVE IInv'
<1>1. TypeInv'
  BY DEF IInv, TypeInv, PurgeClears, KeepAccess, NoPurge
<1>2. WriterOK'
  BY DEF IInv, WriterOK, PurgeClears
<1>3. PurgeOK'
  BY DEF IInv, PurgeOK, PurgeClears, NoPurge
<1>4. UploadHasLink'
  BY DEF UploadHasLink, PurgeClears, KeepAccess
<1>5. ListedIsUnused'
  BY DEF IInv, ListedIsUnused, Linked, HasAccess, PurgeClears, KeepAccess, NoPurge
<1>6. LinkerIsBacked'
  BY DEF IInv, ListedIsUnused, LinkerIsBacked, PurgeClears
<1>7. LinkedIsCommitted'
  BY DEF IInv, ListedIsUnused, LinkedIsCommitted, Linked, PurgeClears
<1>8. BlobHasKey'
  BY DEF IInv, ListedIsUnused, BlobHasKey, Key, PurgeClears, NoPurge
<1>9. ReservationOrKey'
  BY DEF IInv, ListedIsUnused, Key, ReservationOrKey, PurgeClears, NoPurge
<1>10. LinkedBlobIsStored'
  BY DEF IInv, LinkedBlobIsStored, Linked, HasAccess, PurgeClears, KeepAccess
<1>11. CommitIsTrue'
  BY DEF IInv, CommitIsTrue, PurgeClears
<1>12. QED
  BY <1>1, <1>2, <1>3, <1>4, <1>5, <1>6, <1>7, <1>8, <1>9, <1>10, <1>11 DEF IInv

LEMMA PurgeFailsIInv ==
  ASSUME IInv, PurgeFails PROVE IInv'
<1>1. TypeInv'
  BY DEF IInv, TypeInv, PurgeFails, NoPurge
<1>2. WriterOK'
  BY DEF IInv, WriterOK, PurgeFails
<1>3. PurgeOK'
  BY DEF PurgeOK, PurgeFails, NoPurge
<1>4. UploadHasLink'
  BY DEF IInv, UploadHasLink, PurgeFails
<1>5. ListedIsUnused'
  BY DEF ListedIsUnused, PurgeFails, NoPurge
<1>6. LinkerIsBacked'
  BY DEF IInv, LinkerIsBacked, PurgeFails
<1>7. LinkedIsCommitted'
  BY DEF IInv, LinkedIsCommitted, Linked, PurgeFails
<1>8. BlobHasKey'
  BY DEF IInv, BlobHasKey, Key, PurgeFails, NoPurge
<1>9. ReservationOrKey'
  BY DEF ReservationOrKey, PurgeFails, NoPurge
<1>10. LinkedBlobIsStored'
  BY DEF IInv, LinkedBlobIsStored, Linked, HasAccess, PurgeFails
<1>11. CommitIsTrue'
  BY DEF IInv, TypeInv, CommitIsTrue, PurgeFails
<1>12. QED
  BY <1>1, <1>2, <1>3, <1>4, <1>5, <1>6, <1>7, <1>8, <1>9, <1>10, <1>11 DEF IInv

LEMMA InitIInv == Init => IInv
BY HoldAssumption DEF Init, IInv, TypeInv, WriterStates, WriterOK, PurgeOK,
   UploadHasLink, ListedIsUnused, LinkerIsBacked, LinkedIsCommitted, BlobHasKey,
   ReservationOrKey, LinkedBlobIsStored, CommitIsTrue, Linked, Idle, NoPurge

LEMMA StutterIInv == ASSUME IInv, UNCHANGED vars PROVE IInv'
BY DEF vars, IInv, TypeInv, WriterOK, PurgeOK, UploadHasLink, ListedIsUnused,
   LinkerIsBacked, LinkedIsCommitted, BlobHasKey, Key, ReservationOrKey,
   LinkedBlobIsStored, CommitIsTrue, Linked, HasAccess

LEMMA NextIInv == ASSUME IInv, [Next]_vars PROVE IInv'
<1>1. ASSUME NEW w \in Writers, WriterStep(w) PROVE IInv'
  BY <1>1, ReserveIInv, ShareIInv, CheckIInv, PutBlobIInv, CommitIInv, LinkIInv,
     UploadedIInv, WriteFailsIInv DEF WriterStep
<1>2. ASSUME PurgeStep PROVE IInv'
  BY <1>2, PurgeScansIInv, PurgeDeletesIInv, PurgeClearsIInv DEF PurgeStep
<1>3. QED
  BY <1>1, <1>2, TickIInv, UnlinkIInv, PurgeFailsIInv, StutterIInv DEF Next

\* The purge finds every blob but those of an upload that outlived its
\* reservation or met a purge.
LEMMA FindableByKey == IInv => BlobIsFindable
BY DEF IInv, BlobHasKey, Key, BlobIsFindable, Known

LEMMA InvariantHolds == Spec => []IInv
BY InitIInv, NextIInv, PTL DEF Spec

\* A purge that deletes blobs and writers that trust commits never take a
\* linked blob away: process_key, the deletions and the writers' order of
\* reserving, uploading, committing and linking are enough.
THEOREM LinkedBlobsAreStored == Spec => []LinkedBlobIsStored
<1>1. IInv => LinkedBlobIsStored
  BY DEF IInv
<1>2. QED
  BY <1>1, InvariantHolds, PTL

\* BlobOp::Commit is what blob_exists trusts: it is true until a purge fails.
THEOREM CommitsAreTrue == Spec => []CommitIsTrue
<1>1. IInv => CommitIsTrue
  BY DEF IInv
<1>2. QED
  BY <1>1, InvariantHolds, PTL

\* No blob is leaked by the order in which the purge clears keys.
THEOREM BlobsAreFindable == Spec => []BlobIsFindable
BY FindableByKey, InvariantHolds, PTL
=============================================================================
