-------------------------------- MODULE Files --------------------------------
(***************************************************************************)
(* The two file systems that Nachos can be built with: its own one on the  *)
(* simulated disk (FileSystem), or, with FILESYS_STUB, the host's          *)
(* (HostFile).  What belongs to the other build is empty.                  *)
(***************************************************************************)
EXTENDS Integers, Sequences

CONSTANTS
    NumSectors, SectorSize, NumDirect, NumDirEntries, Stored(_),
    Names, Sizes, TransferSize, Junk, NoFile, NoCopy, Unwritten, MaxOps,
    HostNames, OpenFiles, Closed, Missing, MaxLength, MaxCalls

VARIABLES
    stub,               \* FILESYS_STUB is defined
    disk, todo, copying, ops, content, atRisk, damaged, lost,
    named, data, openFile, calls, image, place, result

diskVars == <<disk, todo, copying, ops, content, atRisk, damaged, lost>>
hostVars == <<named, data, openFile, calls, image, place, result>>
vars == <<stub, diskVars, hostVars>>

FS == INSTANCE FileSystem
Host == INSTANCE HostFile

\* The files fit into a header.  FileHeader::Allocate does not see to it.
ASSUME SizesFit == \A size \in Sizes : FS!divRoundUp(size, SectorSize) <= NumDirect

Absent(x) == x = <<>>

Init ==
    /\ stub \in BOOLEAN
    /\ IF stub
       THEN /\ Host!Init
            /\ Absent(disk) /\ Absent(todo) /\ Absent(copying) /\ Absent(ops)
            /\ Absent(content) /\ Absent(atRisk) /\ Absent(damaged) /\ Absent(lost)
       ELSE /\ FS!Init
            /\ Absent(named) /\ Absent(data) /\ Absent(openFile) /\ Absent(calls)
            /\ Absent(image) /\ Absent(place) /\ Absent(result)

Next ==
    /\ UNCHANGED stub
    /\ \/ stub /\ Host!Next /\ UNCHANGED diskVars
       \/ ~stub /\ FS!Next /\ UNCHANGED hostVars

Spec == Init /\ [][Next]_vars
-----------------------------------------------------------------------------
\* On the disk, the directory lists exactly the files there should be (FileSystem).
DirectoryExact == ~stub => FS!DirectoryExact

\* On the disk, files keep to sectors of their own, and no sector is leaked
\* (FileSystem).
FilesIntact == ~stub => FS!FilesIntact

(***************************************************************************)
(* In both builds, what is read is what was last written at that place of  *)
(* the file (ReadsAreExact of FileSystem, HostReadsAreExact of HostFile).  *)
(***************************************************************************)
ReadsAreExact == IF stub THEN Host!HostReadsAreExact ELSE FS!ReadsAreExact
=============================================================================
