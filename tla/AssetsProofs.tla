------------------------------- MODULE AssetsProofs -------------------------------
(* Proofs about Assets: whoever lists, deletes and marks assets meets those  *)
(* that are stored, never those being written; so files go only when due,    *)
(* and the content of an asset appears once and goes once.                   *)
EXTENDS Assets, TLAPS

(* How row, file and writer of an asset hang together.  A file whose path    *)
(* the row has had, and that is gone, was deleted as due.                    *)
AssetInv(a) ==
  /\ writer[a] = "none" => row[a].status = "absent" /\ row[a].uri = "pending"
  /\ writer[a] \in {"created", "written"} =>
       row[a].status = "uploading" /\ row[a].uri = "pending"
  /\ writer[a] = "written" => a \in file
  /\ writer[a] = "stored" =>
       \/ row[a].status = "available" /\ row[a].uri = "path"
       \/ /\ row[a].status \in {"expired", "deleted"} /\ row[a].uri = "cleared"
          /\ a \notin file
  /\ row[a].uri # "pending" /\ a \notin file => row[a].old

Listed == cleaner.expired \cup cleaner.orphans

(* What cleanup has listed is due and written; what it marks is deleted.     *)
CleanerInv ==
  /\ \A a \in Listed : /\ row[a].old /\ writer[a] \notin {"none", "created", "written"}
                       /\ writer[a] = "stored" => row[a].status = "available"
  /\ cleaner.pc = "marking" =>
       /\ cleaner.hand \in Listed
       /\ writer[cleaner.hand] = "stored" => cleaner.hand \notin file

(* A request has the path its attachment had.                                *)
RequestInv ==
  \A m \in Sends :
    /\ request[m] = "resolved" => row[AttachmentOf[m]].uri # "pending"
    /\ request[m] = "unreadable" => row[AttachmentOf[m]].old

Inv == TypeOK /\ (\A a \in Assets : AssetInv(a)) /\ CleanerInv /\ RequestInv

LEMMA Attachments == \A m \in Sends : AttachmentOf[m] \in Uploads /\ AttachmentOf[m] \in Assets
BY AssetsAssumption DEF Assets

LEMMA IdleCleaner ==
  /\ Idle \in [pc : {"idle", "listing", "deleting", "marking"},
               expired : SUBSET Assets, orphans : SUBSET Assets, hand : Assets \cup {NoAsset}]
  /\ Idle.pc = "idle" /\ Idle.expired = {} /\ Idle.orphans = {}
BY DEF Idle

-----------------------------------------------------------------------------
(* Most steps write nothing: rows keep status and uri and only grow older,   *)
(* writers go on or give up, cleanup goes on or stops.                       *)
SameRows ==
  \A a \in Assets : /\ row'[a].status = row[a].status /\ row'[a].uri = row[a].uri
                    /\ row[a].old => row'[a].old

LEMMA Calm ==
  ASSUME Inv, TypeOK', SameRows, file' = file,
         \A a \in Assets : writer'[a] \in {writer[a], "abandoned"},
         cleaner' = cleaner \/ cleaner' = Idle,
         \A m \in Sends :
           \/ request'[m] = request[m]
           \/ request'[m] \notin {"resolved", "unreadable"}
           \/ request'[m] = "resolved" /\ row[AttachmentOf[m]].uri # "pending"
           \/ request[m] = "resolved" /\ AttachmentOf[m] \notin file
  PROVE  Inv'
<1>1. \A a \in Assets : AssetInv(a)'
  BY DEF Inv, AssetInv, SameRows
<1>2. CleanerInv'
  <2>1. CASE cleaner' = cleaner
    <3>1. Listed' = Listed /\ Listed \subseteq Assets
      BY <2>1 DEF Listed, Inv, TypeOK
    <3> QED BY <2>1, <3>1 DEF Inv, CleanerInv, SameRows
  <2>2. CASE cleaner' = Idle
    BY <2>2, IdleCleaner DEF CleanerInv, Listed
  <2> QED BY <2>1, <2>2
<1>3. RequestInv'
  BY Attachments DEF Inv, RequestInv, AssetInv, SameRows
<1> QED BY <1>1, <1>2, <1>3 DEF Inv

(* A step of whoever writes one asset.                                       *)
LEMMA OneAsset ==
  ASSUME Inv, TypeOK', NEW a \in Assets,
         \A b \in Assets \ {a} : /\ row'[b] = row[b] /\ writer'[b] = writer[b]
                                 /\ b \in file' <=> b \in file,
         AssetInv(a)',
         a \in Listed => writer'[a] \notin {"none", "created", "written", "stored"},
         row[a].uri # "pending" => row'[a].uri # "pending",
         row[a].old => row'[a].old,
         UNCHANGED <<request, cleaner>>
  PROVE  Inv'
<1>1. \A b \in Assets : AssetInv(b)'
  BY DEF Inv, AssetInv
<1>2. Listed' = Listed /\ Listed \subseteq Assets
  BY DEF Listed, Inv, TypeOK
<1>3. CleanerInv'
  BY <1>2 DEF Inv, CleanerInv
<1>4. RequestInv'
  BY Attachments DEF Inv, RequestInv
<1> QED BY <1>1, <1>3, <1>4 DEF Inv

-----------------------------------------------------------------------------
(* Writing an asset.                                                         *)
LEMMA CreateAssetKeeps ==
  ASSUME Inv, NEW a \in Assets, NEW temporary \in BOOLEAN, CreateAsset(a, temporary),
         UNCHANGED <<file, request, session, cleaner>>
  PROVE  Inv'
<1>1. AssetInv(a) /\ writer[a] = "none" /\ a \notin Listed
  BY DEF Inv, CreateAsset, CleanerInv
<1>2. /\ writer' \in [Assets -> Writing \cup {"none", "stored", "failed", "abandoned"}]
      /\ writer'[a] = "created" /\ \A b \in Assets \ {a} : writer'[b] = writer[b]
  BY DEF CreateAsset, Inv, TypeOK, Writing
<1>3. /\ row' \in [Assets -> Rows] /\ \A b \in Assets \ {a} : row'[b] = row[b]
      /\ row'[a].status = "uploading" /\ row'[a].uri = row[a].uri /\ row'[a].old = row[a].old
  <2> DEFINE new == [row[a] EXCEPT !.status = "uploading", !.temporary = temporary]
  <2>1. row[a] \in Rows /\ row \in [Assets -> Rows]
    BY DEF Inv, TypeOK
  <2>2. /\ new \in Rows
        /\ new.status = "uploading" /\ new.uri = row[a].uri /\ new.old = row[a].old
    BY <2>1 DEF Rows
  <2>3. row' = [row EXCEPT ![a] = new]
    BY <2>1 DEF CreateAsset, Rows
  <2> HIDE DEF new
  <2> QED BY <2>1, <2>2, <2>3
<1>4. TypeOK'
  BY <1>2, <1>3 DEF Inv, TypeOK
<1>5. AssetInv(a)'
  BY <1>1, <1>2, <1>3 DEF AssetInv
<1> QED BY <1>1, <1>2, <1>3, <1>4, <1>5, OneAsset

LEMMA StoredRow ==
  ASSUME Inv, NEW a \in Assets, row' = Stored(a)
  PROVE  /\ row' \in [Assets -> Rows] /\ \A b \in Assets \ {a} : row'[b] = row[b]
         /\ row'[a].status = "available" /\ row'[a].uri = "path" /\ row'[a].old = row[a].old
<1> DEFINE new == [row[a] EXCEPT !.status = "available", !.uri = "path"]
<1>1. row[a] \in Rows /\ row \in [Assets -> Rows]
  BY DEF Inv, TypeOK
<1>2. /\ new \in Rows
      /\ new.status = "available" /\ new.uri = "path" /\ new.old = row[a].old
  BY <1>1 DEF Rows
<1>3. row' = [row EXCEPT ![a] = new]
  BY <1>1 DEF Stored, Rows
<1> HIDE DEF new
<1> QED BY <1>1, <1>2, <1>3

LEMMA WriteKeeps ==
  ASSUME Inv, NEW a \in Assets, Write(a)
  PROVE  Inv'
<1>1. AssetInv(a) /\ UNCHANGED <<request, session, cleaner>>
  BY DEF Inv, Write, SaveBytes, SaveBytesFails, MarkAssetStored, MarkAssetStoredFails,
         MarkAssetFailed
<1>2. /\ writer' \in [Assets -> Writing \cup {"none", "stored", "failed", "abandoned"}]
      /\ \A b \in Assets \ {a} : writer'[b] = writer[b]
  BY DEF Write, SaveBytes, SaveBytesFails, MarkAssetStored, MarkAssetStoredFails,
         MarkAssetFailed, Inv, TypeOK, Writing
<1>3. a \in Listed => writer[a] \notin {"none", "created", "written"}
  BY DEF Inv, CleanerInv
<1>4. CASE SaveBytes(a) \/ SaveBytesFails(a)
  <2>1. /\ writer[a] = "created" /\ row' = row /\ file' \in {file, file \cup {a}}
        /\ writer'[a] \in {"written", "raised"} /\ (writer'[a] = "written" => a \in file')
    BY <1>4 DEF SaveBytes, SaveBytesFails, Inv, TypeOK
  <2>2. AssetInv(a)' /\ TypeOK'
    BY <1>1, <1>2, <2>1 DEF AssetInv, Inv, TypeOK
  <2> QED BY <1>1, <1>2, <1>3, <2>1, <2>2, OneAsset
<1>5. CASE MarkAssetStored(a) \/ MarkAssetStoredFails(a)
  <2>1. /\ writer[a] = "written" /\ file' = file
        /\ \/ writer'[a] = "stored" /\ row' = Stored(a)
           \/ writer'[a] = "raised" /\ row' \in {row, Stored(a)}
    BY <1>5 DEF MarkAssetStored, MarkAssetStoredFails, Inv, TypeOK
  <2>2. AssetInv(a)' /\ TypeOK'
    BY <1>1, <1>2, <2>1, StoredRow DEF AssetInv, Inv, TypeOK
  <2> QED BY <1>1, <1>2, <1>3, <2>1, <2>2, StoredRow, OneAsset DEF AssetInv
<1>6. CASE MarkAssetFailed(a)
  <2>1. /\ writer[a] = "raised" /\ file' = file /\ writer'[a] = "failed"
        /\ row' \in [Assets -> Rows] /\ \A b \in Assets \ {a} : row'[b] = row[b]
        /\ row'[a].uri = row[a].uri /\ row'[a].old = row[a].old
    BY <1>6 DEF MarkAssetFailed, Inv, TypeOK, Rows
  <2>2. AssetInv(a)' /\ TypeOK'
    BY <1>1, <1>2, <2>1 DEF AssetInv, Inv, TypeOK
  <2> QED BY <1>1, <1>2, <2>1, <2>2, OneAsset
<1> QED BY <1>4, <1>5, <1>6 DEF Write

-----------------------------------------------------------------------------
(* Steps that write no asset.                                                *)
LEMMA AbandonKeeps ==
  ASSUME Inv, NEW a \in Assets, AbandonUpload(a)
  PROVE  Inv'
<1>1. TypeOK' /\ SameRows /\ \A b \in Assets : writer'[b] \in {writer[b], "abandoned"}
  BY DEF AbandonUpload, Inv, TypeOK, SameRows, Writing
<1> QED BY <1>1, Calm DEF AbandonUpload

LEMMA GrowOldKeeps ==
  ASSUME Inv, NEW a \in Assets, GrowOld(a)
  PROVE  Inv'
<1> DEFINE new == [row[a] EXCEPT !.old = TRUE]
<1>1. row[a] \in Rows /\ row \in [Assets -> Rows]
  BY DEF Inv, TypeOK
<1>2. new \in Rows /\ new.status = row[a].status /\ new.uri = row[a].uri /\ new.old
  BY <1>1 DEF Rows
<1>3. row' = [row EXCEPT ![a] = new]
  BY <1>1 DEF GrowOld, Rows
<1> HIDE DEF new
<1>4. row' \in [Assets -> Rows] /\ SameRows
  BY <1>1, <1>2, <1>3 DEF SameRows
<1>5. TypeOK'
  BY <1>4 DEF GrowOld, Inv, TypeOK
<1> QED BY <1>4, <1>5, Calm DEF GrowOld

(* Binding and unbinding change nothing of an asset but its session.         *)
LEMMA BindKeepsRows ==
  ASSUME Inv, NEW a \in Assets, NEW s \in Sessions, Bind(a, s)
  PROVE  row' \in [Assets -> Rows] /\ SameRows
BY DEF Bind, Inv, TypeOK, Rows, SameRows

LEMMA SendKeeps ==
  ASSUME Inv, NEW m \in Sends, Send(m)
  PROVE  Inv'
<1>1. SessionOf[m] \in Sessions /\ AttachmentOf[m] \in Assets
      /\ ImageOf[m] \in Images \cup {NoAsset}
  BY Attachments, AssetsAssumption
<1>2. CASE ResolvePromptParts(m) \/ SendToProvider(m)
  <2>1. UNCHANGED <<row, file, writer, session, cleaner>>
    BY <1>2 DEF ResolvePromptParts, SendToProvider
  <2>2. TypeOK' /\ SameRows
    BY <1>2, <2>1 DEF ResolvePromptParts, SendToProvider, Goto, Inv, TypeOK, SameRows, InFlight
  <2>3. \A n \in Sends :
           \/ request'[n] = request[n]
           \/ request'[n] \notin {"resolved", "unreadable"}
           \/ request'[n] = "resolved" /\ row[AttachmentOf[n]].uri # "pending"
           \/ request[n] = "resolved" /\ AttachmentOf[n] \notin file
    BY <1>2 DEF ResolvePromptParts, SendToProvider, Goto, Inv, TypeOK
  <2> QED BY <2>1, <2>2, <2>3, Calm
<1>3. CASE CreateGeneratedAsset(m)
  <2>1. ImageOf[m] \in Assets
    BY <1>1, <1>3 DEF CreateGeneratedAsset, Assets
  <2> QED BY <1>3, <2>1, CreateAssetKeeps DEF CreateGeneratedAsset
<1>4. CASE BindAttachment(m) \/ BindImage(m)
  <2>1. row' \in [Assets -> Rows] /\ SameRows
    <3>1. CASE row' = row
      BY <3>1 DEF Inv, TypeOK, SameRows
    <3>2. CASE Bind(AttachmentOf[m], SessionOf[m])
      BY <1>1, <3>2, BindKeepsRows
    <3>3. CASE HasImage(m) /\ Bind(ImageOf[m], SessionOf[m])
      BY <1>1, <3>3, BindKeepsRows DEF HasImage, Assets
    <3> QED BY <1>4, <3>1, <3>2, <3>3 DEF BindAttachment, BindImage
  <2>2. UNCHANGED <<file, writer, session, cleaner>>
        /\ \E place \in {"bound", "over"} : request' = [request EXCEPT ![m] = place]
    BY <1>4 DEF BindAttachment, BindImage, Goto
  <2>3. TypeOK'
    BY <2>1, <2>2 DEF Inv, TypeOK, InFlight
  <2>4. \A n \in Sends : \/ request'[n] = request[n]
                         \/ request'[n] \notin {"resolved", "unreadable"}
    BY <2>2 DEF Inv, TypeOK
  <2> QED BY <2>1, <2>2, <2>3, <2>4, Calm
<1>5. CASE RequestFails(m)
  <2>1. UNCHANGED <<row, file, session, cleaner>> /\ SameRows
    BY <1>5 DEF RequestFails, SameRows
  <2>2. TypeOK' /\ \A b \in Assets : writer'[b] \in {writer[b], "abandoned"}
    BY <1>5 DEF RequestFails, Inv, TypeOK, Writing
  <2>3. \A n \in Sends : request'[n] = request[n] \/ request'[n] = "over"
    BY <1>5 DEF RequestFails, Inv, TypeOK
  <2> QED BY <2>1, <2>2, <2>3, Calm
<1> QED BY <1>2, <1>3, <1>4, <1>5 DEF Send

LEMMA SessionKeeps ==
  ASSUME Inv, NEW s \in Sessions, BeginDelete(s) \/ DeleteSession(s)
  PROVE  Inv'
<1>1. UNCHANGED <<file, writer, request, cleaner>>
      /\ session' \in [Sessions -> {"live", "deleting", "deleted"}]
  BY DEF BeginDelete, DeleteSession, Inv, TypeOK
<1>2. row' \in [Assets -> Rows] /\ SameRows
  <2>1. \A a \in Assets : [row[a] EXCEPT !.bound = NoSession] \in Rows
    BY DEF Inv, TypeOK, Rows
  <2>2. \A a \in Assets :
          LET free == [row[a] EXCEPT !.bound = NoSession]
          IN free.status = row[a].status /\ free.uri = row[a].uri /\ free.old = row[a].old
    BY DEF Inv, TypeOK, Rows
  <2>3. CASE row' = row
    BY <2>3 DEF Inv, TypeOK, SameRows
  <2>4. CASE row' = Unbind(s)
    <3>1. \A a \in Assets : row'[a] \in {row[a], [row[a] EXCEPT !.bound = NoSession]}
      BY <2>4 DEF Unbind
    <3>2. row' \in [Assets -> Rows]
      BY <2>1, <2>4 DEF Unbind, Inv, TypeOK
    <3> QED BY <2>2, <3>1, <3>2 DEF SameRows
  <2> QED BY <2>3, <2>4 DEF BeginDelete, DeleteSession
<1>3. TypeOK'
  BY <1>1, <1>2 DEF Inv, TypeOK
<1> QED BY <1>1, <1>2, <1>3, Calm

LEMMA CrashKeeps ==
  ASSUME Inv, Crash
  PROVE  Inv'
<1>1. TypeOK' /\ SameRows /\ (\A a \in Assets : writer'[a] \in {writer[a], "abandoned"})
  BY IdleCleaner DEF Crash, Inv, TypeOK, SameRows, Writing
<1>2. \A m \in Sends : request'[m] = request[m] \/ request'[m] = "over"
  BY DEF Crash
<1> QED BY <1>1, <1>2, Calm DEF Crash

-----------------------------------------------------------------------------
(* Cleanup: what it lists is due, what it holds it has listed.               *)
LEMMA CleanKeeps ==
  ASSUME Inv, Clean
  PROVE  Inv'
<1> USE Attachments
<1>1. CASE ListExpiredAssets \/ ListOrphanAssets
  <2>1. UNCHANGED <<row, file, writer, request, session>>
    BY <1>1 DEF ListExpiredAssets, ListOrphanAssets
  <2>2. /\ cleaner'.pc \in {"listing", "deleting"}
        /\ cleaner'.expired \in {cleaner.expired, Expired}
        /\ cleaner'.orphans \in {{}, Orphans}
        /\ cleaner'.hand \in Assets \cup {NoAsset}
        /\ cleaner' \in [pc : {"idle", "listing", "deleting", "marking"},
                  expired : SUBSET Assets, orphans : SUBSET Assets, hand : Assets \cup {NoAsset}]
    <3>1. Expired \subseteq Assets /\ Orphans \subseteq Assets
      BY DEF Expired, Orphans
    <3>2. CASE ListExpiredAssets
      BY <3>1, <3>2 DEF ListExpiredAssets, Idle, Inv, TypeOK
    <3>3. CASE ListOrphanAssets
      BY <3>1, <3>3 DEF ListOrphanAssets, Inv, TypeOK
    <3> QED BY <1>1, <3>2, <3>3
  <2>3. \A a \in Expired \cup Orphans :
          /\ a \in Assets /\ row[a].old /\ writer[a] \notin {"none", "created", "written"}
          /\ writer[a] = "stored" => row[a].status = "available"
    BY DEF Expired, Orphans, Inv, AssetInv
  <2>4. CleanerInv'
    BY <2>1, <2>2, <2>3 DEF CleanerInv, Listed, Inv
  <2>5. TypeOK' /\ RequestInv' /\ \A a \in Assets : AssetInv(a)'
    BY <2>1, <2>2 DEF Inv, TypeOK, RequestInv, AssetInv
  <2> QED BY <2>4, <2>5 DEF Inv
<1>2. CASE RoundEnds \/ RoundFails
  <2>1. TypeOK' /\ SameRows /\ cleaner' = Idle /\ UNCHANGED <<row, file, writer, request, session>>
    BY <1>2, IdleCleaner DEF RoundEnds, RoundFails, Inv, TypeOK, SameRows
  <2> QED BY <2>1, Calm
<1>3. ASSUME NEW a \in Assets, DeleteStored(a) PROVE Inv'
  <2>1. /\ UNCHANGED <<row, writer, request, session>>
        /\ a \in Listed /\ row[a].old
        /\ file' = IF row[a].uri = "path" THEN file \ {a} ELSE file
    BY <1>3 DEF DeleteStored, Turn, Listed, Inv, CleanerInv
  <2>2. cleaner'.pc = "marking" /\ cleaner'.hand = a /\ Listed' = Listed
        /\ cleaner' \in [pc : {"idle", "listing", "deleting", "marking"},
                  expired : SUBSET Assets, orphans : SUBSET Assets, hand : Assets \cup {NoAsset}]
    BY <1>3 DEF DeleteStored, Listed, Inv, TypeOK
  <2>3. writer[a] = "stored" => row[a].uri = "path"
    BY <2>1 DEF Inv, CleanerInv, AssetInv
  <2>4. CleanerInv'
    BY <2>1, <2>2, <2>3 DEF Inv, CleanerInv
  <2>5. \A b \in Assets : AssetInv(b)'
    BY <2>1 DEF Inv, AssetInv, CleanerInv
  <2>6. TypeOK' /\ RequestInv'
    BY <2>1, <2>2 DEF Inv, TypeOK, RequestInv
  <2> QED BY <2>4, <2>5, <2>6 DEF Inv
<1>4. ASSUME NEW a \in Assets, MarkAssetStatus(a) PROVE Inv'
  <2>1. /\ UNCHANGED <<file, writer, request, session>>
        /\ a \in Listed /\ (writer[a] = "stored" => a \notin file)
    BY <1>4 DEF MarkAssetStatus, Inv, CleanerInv
  <2>2. /\ row' \in [Assets -> Rows] /\ \A b \in Assets \ {a} : row'[b] = row[b]
        /\ row'[a].status \in {"expired", "deleted"} /\ row'[a].uri = "cleared"
        /\ row'[a].old = row[a].old
    <3> DEFINE status == IF a \in cleaner.expired THEN "expired" ELSE "deleted"
               new == [row[a] EXCEPT !.uri = "cleared", !.status = status]
    <3>1. row[a] \in Rows /\ row \in [Assets -> Rows] /\ status \in {"expired", "deleted"}
      BY DEF Inv, TypeOK
    <3>2. row' = [row EXCEPT ![a] = new]
      BY <1>4, <3>1 DEF MarkAssetStatus, Rows
    <3> HIDE DEF status
    <3>3. new \in Rows /\ new.status = status /\ new.uri = "cleared" /\ new.old = row[a].old
      BY <3>1 DEF Rows
    <3> HIDE DEF new
    <3> QED BY <3>1, <3>2, <3>3
  <2>3. /\ cleaner'.pc = "deleting" /\ Listed' = Listed \ {a}
        /\ cleaner' \in [pc : {"idle", "listing", "deleting", "marking"},
                  expired : SUBSET Assets, orphans : SUBSET Assets, hand : Assets \cup {NoAsset}]
    BY <1>4 DEF MarkAssetStatus, Listed, Inv, TypeOK
  <2>4. CleanerInv'
    <3>1. Listed \subseteq Assets
      BY DEF Listed, Inv, TypeOK
    <3> QED BY <2>1, <2>2, <2>3, <3>1 DEF Inv, CleanerInv
  <2>5. \A b \in Assets : AssetInv(b)'
    BY <2>1, <2>2 DEF Inv, AssetInv, CleanerInv
  <2>6. TypeOK' /\ RequestInv'
    BY <2>1, <2>2, <2>3 DEF Inv, TypeOK, RequestInv
  <2> QED BY <2>4, <2>5, <2>6 DEF Inv
<1> QED BY <1>1, <1>2, <1>3, <1>4 DEF Clean

LEMMA InvHolds == Spec => []Inv
<1>1. Init => Inv
  <2> SUFFICES ASSUME Init PROVE Inv
    OBVIOUS
  <2>1. TypeOK
    BY IdleCleaner DEF Init, TypeOK, Rows
  <2> QED BY <2>1, IdleCleaner DEF Init, Inv, AssetInv, CleanerInv, Listed, RequestInv
<1>2. Inv /\ [Next]_vars => Inv'
  <2> SUFFICES ASSUME Inv, [Next]_vars PROVE Inv'
    OBVIOUS
  <2>1. ASSUME NEW a \in Uploads, CreateUpload(a) \/ AbandonUpload(a) PROVE Inv'
    BY <2>1, CreateAssetKeeps, AbandonKeeps DEF CreateUpload, Assets
  <2>2. CASE UNCHANGED vars
    <3>1. TypeOK' /\ SameRows
      BY <2>2 DEF vars, Inv, TypeOK, SameRows
    <3> QED BY <2>2, <3>1, Calm DEF vars
  <2> QED BY <2>1, <2>2, WriteKeeps, GrowOldKeeps, SendKeeps, SessionKeeps, CleanKeeps,
             CrashKeeps DEF Next
<1> QED BY <1>1, <1>2, PTL DEF Spec

-----------------------------------------------------------------------------
(* The content of an asset, step by step.                                    *)
Gone(a) == Content[a] = "gone"
Appeared(a) ==
  /\ row[a].status = "uploading" /\ a \in file
  /\ row'[a].status = "available" /\ a \in file'

LEMMA ContentIs ==
  ASSUME Inv, NEW a \in Assets
  PROVE  /\ Content[a] \in {"none", "there", "gone"}
         /\ Content[a] = "none" <=> row[a].status \in {"absent", "uploading"}
         /\ Content[a] = "there" <=> row[a].status = "available" /\ a \in file
BY DEF Content

(* A step that leaves row status and file of all assets but one alone, and   *)
(* gives that one no content it has not just been given, is a step of        *)
(* FileLife or none.                                                         *)
LEMMA OneContent ==
  ASSUME Inv, Inv', NEW a \in Assets,
         \A b \in Assets \ {a} : row'[b].status = row[b].status /\ (b \in file' <=> b \in file),
         \/ Appeared(a)
         \/ row'[a].status \in {"failed", "expired", "deleted"}
         \/ row'[a].status = row[a].status /\ (a \in file' => a \in file)
         \/ row[a].status \in {"absent", "uploading"} /\ row'[a].status = "uploading"
  PROVE  [Life!Next]_Content
<1>1. \A b \in Assets \ {a} : Content'[b] = Content[b]
  BY DEF Content
<1>2. \/ Content'[a] = Content[a]
      \/ Content[a] = "none" /\ Content'[a] = "there"
      \/ Content[a] # "gone" /\ Content'[a] = "gone"
  BY DEF Content, Appeared
<1>3. Content = [b \in Assets |-> Content[b]] /\ Content' = [b \in Assets |-> Content'[b]]
  BY DEF Content
<1>4. CASE Content'[a] = Content[a]
  BY <1>1, <1>3, <1>4
<1>5. CASE Content[a] = "none" /\ Content'[a] = "there"
  <2>1. Content' = [Content EXCEPT ![a] = "there"]
    BY <1>1, <1>3, <1>5
  <2> QED BY <1>5, <2>1 DEF Life!Next, Life!Publish
<1>6. CASE Content[a] # "gone" /\ Content'[a] = "gone"
  <2>1. Content' = [Content EXCEPT ![a] = "gone"]
    BY <1>1, <1>3, <1>6
  <2> QED BY <1>6, <2>1 DEF Life!Next, Life!Retire
<1> QED BY <1>2, <1>4, <1>5, <1>6

LEMMA SameContent ==
  ASSUME Inv, SameRows, file' = file
  PROVE  Content' = Content
BY DEF Content, SameRows

LEMMA WriteImplements ==
  ASSUME Inv, Inv', NEW a \in Assets, Write(a)
  PROVE  [Life!Next]_Content
<1>1. AssetInv(a) /\ row \in [Assets -> Rows]
  BY DEF Inv, TypeOK
<1>2. CASE SaveBytes(a) \/ SaveBytesFails(a)
  <2>1. row' = row /\ file' \in {file, file \cup {a}} /\ row[a].status = "uploading"
    BY <1>1, <1>2 DEF SaveBytes, SaveBytesFails, AssetInv
  <2> QED BY <2>1, OneContent
<1>3. CASE MarkAssetStored(a) \/ MarkAssetStoredFails(a)
  <2>1. file' = file /\ a \in file /\ row[a].status = "uploading" /\ row' \in {row, Stored(a)}
    BY <1>1, <1>3 DEF MarkAssetStored, MarkAssetStoredFails, AssetInv
  <2>2. CASE row' = row
    BY <2>1, <2>2, OneContent
  <2>3. CASE row' = Stored(a)
    BY <2>1, <2>3, StoredRow, OneContent DEF Appeared
  <2> QED BY <2>1, <2>2, <2>3
<1>4. CASE MarkAssetFailed(a)
  <2>1. file' = file /\ row'[a].status = "failed" /\ \A b \in Assets \ {a} : row'[b] = row[b]
    BY <1>1, <1>4 DEF MarkAssetFailed, Rows
  <2> QED BY <2>1, OneContent
<1> QED BY <1>2, <1>3, <1>4 DEF Write

LEMMA CreateImplements ==
  ASSUME Inv, Inv', NEW a \in Assets, NEW temporary \in BOOLEAN, CreateAsset(a, temporary),
         file' = file
  PROVE  [Life!Next]_Content
<1>1. AssetInv(a) /\ row \in [Assets -> Rows]
  BY DEF Inv, TypeOK
<1>2. /\ row[a].status = "absent" /\ row'[a].status = "uploading"
      /\ \A b \in Assets \ {a} : row'[b] = row[b]
  BY <1>1 DEF CreateAsset, AssetInv, Rows
<1> QED BY <1>2, OneContent

LEMMA CleanImplements ==
  ASSUME Inv, Inv', Clean
  PROVE  [Life!Next]_Content
<1>1. row \in [Assets -> Rows]
  BY DEF Inv, TypeOK
<1>2. ASSUME NEW a \in Assets, DeleteStored(a) PROVE [Life!Next]_Content
  <2>1. row' = row /\ file' \in {file, file \ {a}}
    BY <1>2 DEF DeleteStored
  <2> QED BY <2>1, OneContent
<1>3. ASSUME NEW a \in Assets, MarkAssetStatus(a) PROVE [Life!Next]_Content
  <2>1. /\ file' = file /\ row'[a].status \in {"expired", "deleted"}
        /\ \A b \in Assets \ {a} : row'[b] = row[b]
    BY <1>1, <1>3 DEF MarkAssetStatus, Rows
  <2> QED BY <2>1, OneContent
<1>4. CASE ListExpiredAssets \/ ListOrphanAssets \/ RoundEnds \/ RoundFails
  <2>1. row' = row /\ file' = file
    BY <1>4 DEF ListExpiredAssets, ListOrphanAssets, RoundEnds, RoundFails
  <2> QED BY <2>1 DEF Content
<1> QED BY <1>2, <1>3, <1>4 DEF Clean

LEMMA StepImplements ==
  ASSUME Inv, Inv', [Next]_vars
  PROVE  [Life!Next]_Content
<1>0. row \in [Assets -> Rows] /\ row' \in [Assets -> Rows]
  BY DEF Inv, TypeOK
<1>1. ASSUME NEW a \in Uploads, CreateUpload(a) PROVE [Life!Next]_Content
  BY <1>1, CreateImplements DEF CreateUpload, Assets
<1>2. ASSUME NEW a \in Uploads, AbandonUpload(a) PROVE [Life!Next]_Content
  BY <1>2, SameContent DEF AbandonUpload, SameRows
<1>3. ASSUME NEW a \in Assets, GrowOld(a) PROVE [Life!Next]_Content
  <2>1. SameRows /\ file' = file
    BY <1>0, <1>3 DEF GrowOld, SameRows, Rows
  <2> QED BY <2>1, SameContent
<1>4. ASSUME NEW m \in Sends, Send(m) PROVE [Life!Next]_Content
  <2>1. CASE CreateGeneratedAsset(m)
    <3>1. ImageOf[m] \in Assets
      BY <2>1, AssetsAssumption DEF CreateGeneratedAsset, Assets
    <3> QED BY <2>1, <3>1, CreateImplements DEF CreateGeneratedAsset
  <2>2. CASE BindAttachment(m) \/ BindImage(m)
    <3>1. SameRows /\ file' = file
      BY <1>0, <2>2 DEF BindAttachment, BindImage, Bind, SameRows, Rows
    <3> QED BY <3>1, SameContent
  <2>3. CASE ResolvePromptParts(m) \/ SendToProvider(m) \/ RequestFails(m)
    BY <2>3, SameContent DEF ResolvePromptParts, SendToProvider, RequestFails, SameRows
  <2> QED BY <1>4, <2>1, <2>2, <2>3 DEF Send
<1>5. ASSUME NEW s \in Sessions, BeginDelete(s) \/ DeleteSession(s) PROVE [Life!Next]_Content
  <2>1. SameRows /\ file' = file
    <3>1. \A a \in Assets :
            LET free == [row[a] EXCEPT !.bound = NoSession]
            IN free.status = row[a].status /\ free.uri = row[a].uri /\ free.old = row[a].old
      BY <1>0 DEF Rows
    <3> QED BY <1>5, <3>1 DEF BeginDelete, DeleteSession, Unbind, SameRows
  <2> QED BY <2>1, SameContent
<1>6. CASE Crash \/ UNCHANGED vars
  BY <1>6, SameContent DEF Crash, vars, SameRows
<1> QED BY <1>1, <1>2, <1>3, <1>4, <1>5, <1>6, WriteImplements, CleanImplements DEF Next

-----------------------------------------------------------------------------
(* Rows, files and the state of cleanup stay within their types.             *)
THEOREM TypeCorrect == Spec => []TypeOK
BY InvHolds, PTL DEF Inv

(* A stored file is deleted neither before its expiry or grace has passed    *)
(* nor after its row says it is gone, wherever create_upload, run_once and   *)
(* the chat requests are interrupted.                                        *)
THEOREM FilesGoDuly == Spec => []FilesGoWhenDue
<1>1. Inv => FilesGoWhenDue
  BY DEF Inv, AssetInv, RequestInv, FilesGoWhenDue
<1> QED BY <1>1, InvHolds, PTL

(* An asset's content is published once and retired for good.                *)
THEOREM AssetsImplementFileLife == Spec => ImplementsFileLife
<1>1. Init => Life!Init
  <2> SUFFICES ASSUME Init PROVE Life!Init
    OBVIOUS
  <2>1. \A a \in Assets : row[a].status = "absent"
    BY DEF Init
  <2> QED BY <2>1 DEF Content, Life!Init
<1>2. Inv /\ Inv' /\ [Next]_vars => [Life!Next]_Content
  BY StepImplements
<1> QED BY <1>1, <1>2, InvHolds, PTL DEF Spec, ImplementsFileLife, Life!Spec
=============================================================================
