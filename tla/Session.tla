------------------------------- MODULE Session -------------------------------
(* A client that joins a server: it downloads the files it misses (Download), *)
(* asks for a new gamestate ("donedl", CL_DownloadsComplete and               *)
(* SV_DoneDownload_f) and then plays (Snapshot). While a download is open the *)
(* server sends no snapshots (SV_SendClientMessages, SV_SendDownloadMessages) *)
(* and the client no moves, so one part follows the other.                    *)
EXTENDS Download, Snapshot

VARIABLE part    \* "files" or "game"

vars == <<dlVars, snVars, part>>

\* CL_ParseGamestate and CL_InitDownloads have found files to be missing, or the
\* client has not got a gamestate yet and will find none.
Init ==
  /\ DlInit
  /\ IF client = Downloaded THEN part = "game" /\ SnInit
     ELSE part = "files" /\ SnInitMissingFiles

DownloadFiles ==
  /\ part = "files"
  /\ DlNext
  /\ UNCHANGED <<snVars, part>>

\* The commands before "donedl" have been executed, and the blocks before the
\* new gamestate have come or are lost. The fields of the download are not read
\* again, and forgotten here.
DoneDownload ==
  /\ part = "files"
  /\ client.state = "done" /\ ~server.dropped
  /\ cmds = <<>> /\ net = <<>>
  /\ SV_DoneDownload
  /\ part' = "game"
  /\ server' = NoDownload /\ client' = Downloaded
  /\ again' = FALSE /\ stale' = {} /\ spoiled' = {}
  /\ UNCHANGED <<net, cmds>>

PlayGame ==
  /\ part = "game"
  /\ SnNext
  /\ UNCHANGED <<dlVars, part>>

Next == DownloadFiles \/ DoneDownload \/ PlayGame

\* Only the downloads have a property that needs fairness: DownloadEnds.
Spec == Init /\ [][Next]_vars /\ DlFairness

-----------------------------------------------------------------------------

TypeOK == DlTypeOK /\ SnTypeOK /\ part \in {"files", "game"}
=============================================================================
