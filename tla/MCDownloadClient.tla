-------------------------- MODULE MCDownloadClient --------------------------
(* Instances of DownloadClient for TLC.                                    *)
EXTENDS DownloadClient

(* Two downloads meet in nothing but the name of the active client and the *)
(* end of the server, and both may change at any moment of one download.   *)
MCDownloads == {"d1"}

MCDefaults == [secret |-> Empty, port |-> "1", download_client |-> "sabnzbd"]
MCValues == [download_client |-> Clients]
MCTokens == <<"first", "second", "third">>

(* Nothing given, the client, or the secret; a port that cannot be read.   *)
NoEnv == [k \in Keys |-> Unset]
MCEnvs == {NoEnv, [NoEnv EXCEPT !["download_client"] = "nzbget", !["port"] = Bad], [NoEnv EXCEPT !["secret"] = "given"]}
=============================================================================
