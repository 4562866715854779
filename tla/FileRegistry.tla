---------------------------- MODULE FileRegistry ----------------------------
(* The files that run_python leaves for download: analysis/file_manager.py, and the *)
(* route that serves them (routes.py). Content is on disk and in the memory of one   *)
(* process; the entries are in memory only and are read back from disk, without       *)
(* content, when the registry is first used after a restart.                           *)
(*                                                                                *)
(* An id is a fresh uuid, so a file is the same value as its id. All operations are    *)
(* synchronous calls on the event loop: one action each.                               *)
CONSTANT File

Content == {"empty", "part", "whole"}

VARIABLES
    made,    \* the global registry exists
    files,   \* _files: the content in memory, "none" without an entry
    disk,    \* storage_dir
    used,    \* ids that were generated
    linked,  \* ids that register_file returned, which the client was shown
    reborn,  \* ids from before the latest restart
    removed, \* ids whose file something else has removed
    cleaned  \* ids that a sweep has counted as deleted

storage   == <<made, files, disk>>
fileHistory == <<used, linked, reborn, removed, cleaned>>
filesVars == <<storage, fileHistory>>

FilesTypeOK ==
    /\ made \in BOOLEAN
    /\ files \in [File -> Content \cup {"none"}]
    /\ disk \in [File -> {"none", "part", "whole"}]
    /\ used \subseteq File /\ linked \subseteq used /\ reborn \subseteq used
    /\ removed \subseteq used /\ cleaned \subseteq used

NoFiles == [f \in File |-> "none"]

FilesInit ==
    /\ made = FALSE /\ files = NoFiles /\ disk = NoFiles
    /\ used = {} /\ linked = {} /\ reborn = {} /\ removed = {} /\ cleaned = {}

-----------------------------------------------------------------------------
\* Every file of the directory gets an entry whose content is read later.
Loaded == [f \in File |-> IF disk[f] = "none" THEN "none" ELSE "empty"]

\* The entries as an operation finds them: the first one makes the registry.
Entries == IF made THEN files ELSE Loaded

\* What a download of f answers; "none" is a 404.
Answer(f) ==
    IF Entries[f] = "none" \/ disk[f] = "none" THEN Entries[f] ELSE disk[f]

\* register_file. A write that raises may leave a part, and no entry.
Register(f, written) ==
    /\ f \notin used
    /\ used' = used \cup {f}
    /\ made' = TRUE
    /\ disk' = [disk EXCEPT ![f] = written]
    /\ IF written = "whole"
       THEN files' = [Entries EXCEPT ![f] = "whole"] /\ linked' = linked \cup {f}
       ELSE files' = Entries /\ UNCHANGED linked
    /\ UNCHANGED <<reborn, removed, cleaned>>

\* Mutant: the content in memory is not trusted, only what is on disk.
DownloadFromDisk(f) ==
    /\ made' = TRUE
    /\ files' = [Entries EXCEPT ![f] =
                    IF @ = "none" THEN @ ELSE IF disk[f] = "none" THEN "empty" ELSE disk[f]]
    /\ UNCHANGED <<disk, fileHistory>>

\* get_file: what is on disk replaces the content in memory.
Download(f) ==
    /\ made' = TRUE
    /\ files' = [Entries EXCEPT ![f] = Answer(f)]
    /\ UNCHANGED <<disk, fileHistory>>

\* Mutant: the entry goes before the file, and stays gone if the file does not go.
SweepEntriesFirst(old, stuck) ==
    /\ made' = TRUE
    /\ old \subseteq {f \in File : Entries[f] # "none"}
    /\ stuck \subseteq {f \in old : disk[f] # "none"}
    /\ disk' = [f \in File |-> IF f \in old \ stuck THEN "none" ELSE disk[f]]
    /\ files' = [f \in File |-> IF f \in old THEN "none" ELSE Entries[f]]
    /\ cleaned' = cleaned \cup (old \ stuck)
    /\ UNCHANGED <<used, linked, reborn, removed>>

\* cleanup_old_files. What is old is up to the caller; an unlink that fails keeps
\* both the file and the entry.
Sweep(old, stuck) ==
    /\ made' = TRUE
    /\ old \subseteq {f \in File : Entries[f] # "none"}
    /\ stuck \subseteq {f \in old : disk[f] # "none"}
    /\ disk' = [f \in File |-> IF f \in old \ stuck THEN "none" ELSE disk[f]]
    /\ files' = [f \in File |-> IF f \in old \ stuck THEN "none" ELSE Entries[f]]
    /\ cleaned' = cleaned \cup (old \ stuck)
    /\ UNCHANGED <<used, linked, reborn, removed>>

\* Somebody empties the temporary directory.
RemoveFile(f) ==
    /\ disk[f] # "none"
    /\ disk' = [disk EXCEPT ![f] = "none"]
    /\ removed' = removed \cup {f}
    /\ UNCHANGED <<made, files, used, linked, reborn, cleaned>>

\* The process ends, and with it its memory.
FilesLost ==
    /\ made' = FALSE /\ files' = NoFiles
    /\ reborn' = used
    /\ UNCHANGED <<disk, used, linked, removed, cleaned>>

FilesStep ==
    \/ \E f \in File, written \in {"none", "part", "whole"} : Register(f, written)
    \/ \E f \in File : Download(f)
    \/ \E old \in SUBSET File : \E stuck \in SUBSET old : Sweep(old, stuck)

FilesNext == FilesStep \/ FilesLost \/ \E f \in File : RemoveFile(f)

FilesSpec == FilesInit /\ [][FilesNext]_filesVars

-----------------------------------------------------------------------------
(* A link that was given out serves the whole file, after restarts too              *)
(* (file_manager.py:41), unless a sweep deleted it, or the process restarted and the   *)
(* file was removed: "a 404 here means ... the process restarted and the on-disk file   *)
(* was removed externally" (routes.py:38). Removing the file alone does no harm.       *)
LinkServed ==
    \A f \in linked : Answer(f) = "whole" \/ f \in cleaned \/ f \in removed \cap reborn

(* A link that is answered by a 404 never works again: not after a sweep that could not  *)
(* delete the file (file_manager.py:108), nor when a restart reads the directory again.  *)
GoneStaysGone ==
    [][\A f \in linked : Answer(f) = "none" => Answer(f)' = "none"]_filesVars
=============================================================================
