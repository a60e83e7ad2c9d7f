-------------------------------- MODULE Assets --------------------------------
(***************************************************************************)
(* Uploaded files and generated images: AssetService                       *)
(* (services/asset_service.py) over LocalAssetStorage (storage/local.py)   *)
(* and the rows of media_assets, the chat requests that attach and         *)
(* generate assets (services/chat_service.py), and AssetCleanupService,    *)
(* which deletes what has expired or belongs to nothing.                   *)
(*                                                                         *)
(* A row and its file are written by separate steps, each of which can     *)
(* fail, be cancelled or be the last before a crash; cleanup works from    *)
(* lists it took earlier, while messages bind assets and sessions go.      *)
(***************************************************************************)
EXTENDS Integers, FiniteSets

CONSTANTS
  Uploads, Images,    (* the assets of create_upload and of the provider   *)
  Sends,              (* send_message and stream_message requests          *)
  Sessions,
  SessionOf,          (* the session of each request                       *)
  AttachmentOf,       (* the upload each request names                     *)
  ImageOf,            (* the image the provider may generate for it        *)
  NoAsset, NoSession

Assets == Uploads \cup Images

ASSUME AssetsAssumption ==
  /\ SessionOf \in [Sends -> Sessions]
  /\ AttachmentOf \in [Sends -> Uploads]
  /\ ImageOf \in [Sends -> Images \cup {NoAsset}]
  /\ \A m, n \in Sends : ImageOf[m] = ImageOf[n] /\ ImageOf[m] # NoAsset => m = n
  /\ Uploads \cap Images = {}
  /\ NoAsset \notin Assets /\ NoSession \notin Sessions

VARIABLES
  row,       (* the asset's row in media_assets                            *)
  file,      (* the assets whose file is on disk                           *)
  writer,    (* how far the code that creates the asset has come           *)
  request,   (* progress of each chat request                              *)
  session,   (* sessions: live, being deleted (past the check), deleted    *)
  cleaner    (* AssetCleanupService: its lists and the asset in hand       *)

vars == <<row, file, writer, request, session, cleaner>>

(* uri: storage_uri is "pending", the path of the file, or cleared.        *)
(* temporary: expires_at is set.  old: it has passed; or, where it is not  *)
(* set, created_at is before the cutoff for orphans.  bound: session_id    *)
(* (and message_id).                                                       *)
Rows == [status : {"absent", "uploading", "available", "failed", "expired", "deleted"},
         uri : {"pending", "path", "cleared"},
         temporary : BOOLEAN, old : BOOLEAN,
         bound : Sessions \cup {NoSession}]

Writing == {"created", "written", "raised"}
InFlight == {"resolved", "answered", "bound"}
Idle == [pc |-> "idle", expired |-> {}, orphans |-> {}, hand |-> NoAsset]

TypeOK ==
  /\ row \in [Assets -> Rows]
  /\ file \subseteq Assets
  /\ writer \in [Assets -> Writing \cup {"none", "stored", "failed", "abandoned"}]
  /\ request \in [Sends -> InFlight \cup {"idle", "over", "unreadable"}]
  /\ session \in [Sessions -> {"live", "deleting", "deleted"}]
  /\ cleaner \in [pc : {"idle", "listing", "deleting", "marking"},
                  expired : SUBSET Assets, orphans : SUBSET Assets,
                  hand : Assets \cup {NoAsset}]

Init ==
  /\ row = [a \in Assets |-> [status |-> "absent", uri |-> "pending", temporary |-> FALSE,
                              old |-> FALSE, bound |-> NoSession]]
  /\ file = {}
  /\ writer = [a \in Assets |-> "none"]
  /\ request = [m \in Sends |-> "idle"]
  /\ session = [s \in Sessions |-> "live"]
  /\ cleaner = Idle

-----------------------------------------------------------------------------
(* create_upload and create_generated_asset: create_asset, save_bytes,     *)
(* mark_asset_stored, and mark_asset_failed for an exception of those two. *)
CreateAsset(a, temporary) ==
  /\ writer[a] = "none"
  /\ writer' = [writer EXCEPT ![a] = "created"]
  /\ row' = [row EXCEPT ![a].status = "uploading", ![a].temporary = temporary]

CreateUpload(a) ==
  /\ \E temporary \in BOOLEAN : CreateAsset(a, temporary)
  /\ UNCHANGED <<file, request, session, cleaner>>

(* _store_generated_media: before the user's message when the chunks carry *)
(* the image, after it when the whole answer does.                         *)
CreateGeneratedAsset(m) ==
  /\ request[m] \in {"answered", "bound"} /\ ImageOf[m] # NoAsset
  /\ CreateAsset(ImageOf[m], FALSE)
  /\ UNCHANGED <<file, request, session, cleaner>>

SaveBytes(a) ==
  /\ writer[a] = "created"
  /\ writer' = [writer EXCEPT ![a] = "written"]
  /\ file' = file \cup {a}
  /\ UNCHANGED <<row, request, session, cleaner>>

(* The write raises, perhaps after it has made the file.                   *)
SaveBytesFails(a) ==
  /\ writer[a] = "created"
  /\ writer' = [writer EXCEPT ![a] = "raised"]
  /\ file' \in {file, file \cup {a}}
  /\ UNCHANGED <<row, request, session, cleaner>>

StoredAsStored(a) == [row EXCEPT ![a].status = "stored", ![a].uri = "path"]

Stored(a) == [row EXCEPT ![a].status = "available", ![a].uri = "path"]

MarkAssetStored(a) ==
  /\ writer[a] = "written"
  /\ writer' = [writer EXCEPT ![a] = "stored"]
  /\ row' = Stored(a)
  /\ UNCHANGED <<file, request, session, cleaner>>

(* The commit fails, or the refresh that follows it.                       *)
MarkAssetStoredFails(a) ==
  /\ writer[a] = "written"
  /\ writer' = [writer EXCEPT ![a] = "raised"]
  /\ row' \in {row, Stored(a)}
  /\ UNCHANGED <<file, request, session, cleaner>>

MarkAssetFailed(a) ==
  /\ writer[a] = "raised"
  /\ writer' = [writer EXCEPT ![a] = "failed"]
  /\ row' = [row EXCEPT ![a].status = "failed"]
  /\ UNCHANGED <<file, request, session, cleaner>>

(* The upload is cancelled, which no handler catches, or its error cannot  *)
(* be recorded.                                                            *)
AbandonUpload(a) ==
  /\ a \in Uploads /\ writer[a] \in Writing
  /\ writer' = [writer EXCEPT ![a] = "abandoned"]
  /\ UNCHANGED <<row, file, request, session, cleaner>>

-----------------------------------------------------------------------------
(* Time: the expiry of a temporary asset passes, or the grace of another.  *)
GrowOld(a) ==
  /\ row[a].status # "absent" /\ ~row[a].old
  /\ row' = [row EXCEPT ![a].old = TRUE]
  /\ UNCHANGED <<file, writer, request, session, cleaner>>

-----------------------------------------------------------------------------
Goto(m, here, there) ==
  /\ request[m] = here
  /\ request' = [request EXCEPT ![m] = there]

(* _require_session and _resolve_prompt_parts: the row must exist; its     *)
(* status is not looked at, and the path may be one that no file ever has. *)
ResolvePromptParts(m) ==
  /\ session[SessionOf[m]] # "deleted"
  /\ row[AttachmentOf[m]].status # "absent"
  /\ Goto(m, "idle", IF row[AttachmentOf[m]].uri = "path" THEN "resolved" ELSE "over")
  /\ UNCHANGED <<row, file, writer, session, cleaner>>

(* The slot is granted and the adapter reads the file by its path, or      *)
(* finds none there, which is an error of the provider.                    *)
SendToProvider(m) ==
  /\ Goto(m, "resolved",
          IF AttachmentOf[m] \in file THEN "answered" ELSE "unreadable")
  /\ UNCHANGED <<row, file, writer, session, cleaner>>

Settled(m) == ImageOf[m] # NoAsset => writer[ImageOf[m]] \in {"none", "stored"}
HasImage(m) == ImageOf[m] # NoAsset /\ writer[ImageOf[m]] = "stored"

Bind(a, s) == row' = [row EXCEPT ![a].bound = s]

(* add_message, whose parts name the assets, and then                      *)
(* bind_asset_to_message for each of them, whatever its row says by now.   *)
BindAttachment(m) ==
  /\ Settled(m)
  /\ Goto(m, "answered", "bound")
  /\ Bind(AttachmentOf[m], SessionOf[m])
  /\ UNCHANGED <<file, writer, session, cleaner>>

BindImage(m) ==
  /\ Settled(m)
  /\ Goto(m, "bound", "over")
  /\ IF HasImage(m) THEN Bind(ImageOf[m], SessionOf[m]) ELSE UNCHANGED row
  /\ UNCHANGED <<file, writer, session, cleaner>>

(* An error of the provider or the database, a cancelled request, an image *)
(* that could not be stored.                                               *)
RequestFails(m) ==
  /\ request[m] \in InFlight
  /\ request' = [request EXCEPT ![m] = "over"]
  /\ writer' = [a \in Assets |-> IF a = ImageOf[m] /\ writer[a] \in Writing
                                THEN "abandoned" ELSE writer[a]]
  /\ UNCHANGED <<row, file, session, cleaner>>

(* delete_session: the check that no request is executing, and the         *)
(* deletion, which unbinds the session's assets in the same commit.        *)
BeginDelete(s) ==
  /\ session[s] = "live"
  /\ \A m \in Sends : SessionOf[m] = s => request[m] \notin InFlight
  /\ session' = [session EXCEPT ![s] = "deleting"]
  /\ UNCHANGED <<row, file, writer, request, cleaner>>

Unbind(s) == [a \in Assets |-> IF row[a].bound = s
                               THEN [row[a] EXCEPT !.bound = NoSession] ELSE row[a]]

DeleteSession(s) ==
  /\ session[s] = "deleting"
  /\ session' = [session EXCEPT ![s] = "deleted"]
  /\ row' = Unbind(s)
  /\ UNCHANGED <<file, writer, request, cleaner>>

-----------------------------------------------------------------------------
(* run_once: both lists first, then file and row of each asset in turn,    *)
(* the expired ones before the orphans.                                    *)
ExpiredInAnyState == {a \in Assets : /\ row[a].status \notin {"absent", "expired"}
                                     /\ row[a].temporary /\ row[a].old}

Expired == {a \in Assets : /\ row[a].status \in {"available", "failed"}
                           /\ row[a].temporary /\ row[a].old}

OrphansWithoutGrace == {a \in Assets : /\ row[a].status = "available"
                                       /\ ~row[a].temporary
                                       /\ row[a].bound = NoSession}

OrphansThatExpire == {a \in Assets : /\ row[a].status = "available"
                                     /\ row[a].temporary /\ row[a].old
                                     /\ row[a].bound = NoSession}

Orphans == {a \in Assets : /\ row[a].status = "available"
                           /\ ~row[a].temporary /\ row[a].old
                           /\ row[a].bound = NoSession}

ListExpiredAssets ==
  /\ cleaner.pc = "idle"
  /\ cleaner' = [Idle EXCEPT !.pc = "listing", !.expired = Expired]
  /\ UNCHANGED <<row, file, writer, request, session>>

ListOrphanAssets ==
  /\ cleaner.pc = "listing"
  /\ cleaner' = [cleaner EXCEPT !.pc = "deleting", !.orphans = Orphans]
  /\ UNCHANGED <<row, file, writer, request, session>>

Turn(a) == a \in cleaner.expired \/ (cleaner.expired = {} /\ a \in cleaner.orphans)

(* storage.delete: no file under the path is no error.                     *)
DeleteStored(a) ==
  /\ cleaner.pc = "deleting" /\ Turn(a)
  /\ cleaner' = [cleaner EXCEPT !.pc = "marking", !.hand = a]
  /\ file' = IF row[a].uri = "path" THEN file \ {a} ELSE file
  /\ UNCHANGED <<row, writer, request, session>>

MarkAssetStatus(a) ==
  /\ cleaner.pc = "marking" /\ cleaner.hand = a
  /\ row' = [row EXCEPT ![a].uri = "cleared",
               ![a].status = IF a \in cleaner.expired THEN "expired" ELSE "deleted"]
  /\ cleaner' = [pc |-> "deleting", hand |-> NoAsset,
                 expired |-> cleaner.expired \ {a}, orphans |-> cleaner.orphans \ {a}]
  /\ UNCHANGED <<file, writer, request, session>>

RoundEnds ==
  /\ cleaner.pc = "deleting"
  /\ cleaner.expired = {} /\ cleaner.orphans = {}
  /\ cleaner' = Idle
  /\ UNCHANGED <<row, file, writer, request, session>>

(* Any exception ends the round; the loop sleeps and begins another.       *)
RoundFails ==
  /\ cleaner.pc # "idle"
  /\ cleaner' = Idle
  /\ UNCHANGED <<row, file, writer, request, session>>

(* The process dies: what was being written or cleaned stays as it is.     *)
Crash ==
  /\ writer' = [a \in Assets |-> IF writer[a] \in Writing THEN "abandoned" ELSE writer[a]]
  /\ request' = [m \in Sends |-> IF request[m] \in InFlight THEN "over" ELSE request[m]]
  /\ session' = [s \in Sessions |-> IF session[s] = "deleting" THEN "live" ELSE session[s]]
  /\ cleaner' = Idle
  /\ UNCHANGED <<row, file>>

-----------------------------------------------------------------------------
Write(a) ==
  \/ SaveBytes(a) \/ SaveBytesFails(a) \/ MarkAssetStored(a) \/ MarkAssetStoredFails(a)
  \/ MarkAssetFailed(a)

Send(m) ==
  \/ ResolvePromptParts(m) \/ SendToProvider(m) \/ CreateGeneratedAsset(m)
  \/ BindAttachment(m) \/ BindImage(m) \/ RequestFails(m)

Clean ==
  \/ ListExpiredAssets \/ ListOrphanAssets \/ RoundEnds \/ RoundFails
  \/ \E a \in Assets : DeleteStored(a) \/ MarkAssetStatus(a)

Next ==
  \/ \E a \in Uploads : CreateUpload(a) \/ AbandonUpload(a)
  \/ \E a \in Assets : Write(a) \/ GrowOld(a)
  \/ \E m \in Sends : Send(m)
  \/ \E s \in Sessions : BeginDelete(s) \/ DeleteSession(s)
  \/ Clean
  \/ Crash

Spec == Init /\ [][Next]_vars

(* Time passes.  The cleanup loop begins a round again and again, and no   *)
(* step of a round fails every time (a file that can never be deleted      *)
(* would end every round there).  Nothing is assumed of users: an upload   *)
(* or a request may stop anywhere.                                         *)
FairSpec ==
  /\ Spec
  /\ WF_vars(ListExpiredAssets) /\ SF_vars(ListOrphanAssets) /\ SF_vars(RoundEnds)
  /\ \A a \in Assets : /\ WF_vars(GrowOld(a))
                        /\ SF_vars(DeleteStored(a)) /\ SF_vars(MarkAssetStatus(a))

-----------------------------------------------------------------------------
(* A stored file goes when its asset is due, whatever is listed, bound and *)
(* deleted meanwhile and wherever rounds of cleanup are interrupted: not   *)
(* before its expiry or its grace as an orphan has passed, and not later   *)
(* than its row says so.  A request whose attachment is gone when its slot *)
(* is granted had attached an asset that was due.                          *)
FilesGoWhenDue ==
  /\ \A a \in Assets : writer[a] = "stored" /\ a \notin file => row[a].old
  /\ \A a \in Assets :
       row[a].status \in {"expired", "deleted"} /\ writer[a] = "stored" => a \notin file
  /\ \A m \in Sends : request[m] = "unreadable" => row[AttachmentOf[m]].old

(* For a reader an asset's content appears once and goes once.             *)
Content ==
  [a \in Assets |->
    CASE row[a].status \in {"absent", "uploading"}        -> "none"
      [] row[a].status = "available" /\ a \in file       -> "there"
      [] OTHER                                            -> "gone"]

Life == INSTANCE FileLife WITH content <- Content

ImplementsFileLife == Life!Spec

(* What was stored for good is bound to a session or cleaned up: also the  *)
(* image of a request that failed after it was generated.                  *)
StoredIsBoundOrDeleted ==
  \A a \in Assets :
    ~row[a].temporary /\ row[a].status = "available" ~>
      row[a].bound # NoSession \/ row[a].status \in {"deleted", "failed"}
=============================================================================
