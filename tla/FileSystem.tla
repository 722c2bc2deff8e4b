----------------------------- MODULE FileSystem -----------------------------
(***************************************************************************)
(* The file system (filesys/filesys.cc) as the commands of main            *)
(* (threads/main.cc: -f, -cp, -p, -r, -l) use it, one at a time, on a disk *)
(* that may lose power between any two sector writes and is then used      *)
(* again as it is.                                                         *)
(*                                                                         *)
(* disk      what the sectors hold                                         *)
(* todo      the sector writes that the operation in progress has still to *)
(*           make.  Reads happen at its start: nobody else writes.         *)
(* copying   the command Copy between its calls of Write                   *)
(* ops       how many operations have been started, weighted by cost       *)
(* and, to state what is right:                                            *)
(* content   what each file should hold; NoFile if there is none, Junk if  *)
(*           its sectors have come to be used by a command on another name *)
(* atRisk    the names and the bytes that the operation in progress may    *)
(*           spoil if it is cut short                                      *)
(* damaged   the names whose creation or removal was cut short by a loss   *)
(*           of power.  Commands go on using them like all other names.    *)
(* lost      a command has taken a sector of data for the header of a      *)
(*           damaged file                                                  *)
(***************************************************************************)
EXTENDS Integers, Sequences, FiniteSets, SequencesExt

CONSTANTS NumSectors, SectorSize,
          Junk,             \* what memory holds that nobody has set
          NumDirEntries,
          Stored(_),        \* the part of a name that strncpy keeps and strncmp compares
          Names, Sizes, TransferSize,
          NoFile, NoCopy, Unwritten,
          MaxOps            \* bound on the number of operations, see WriteCost

(***************************************************************************)
(* Files on the simulated disk: the free map (lib/bitmap.cc through        *)
(* filesys/pbitmap.cc), file headers (filesys/filehdr.cc) and open files   *)
(* (filesys/openfile.cc).                                                  *)
(*                                                                         *)
(* A disk is a function from sectors to sequences of SectorSize cells.     *)
(* What the code keeps in a group of bytes is one cell: a byte of a file,  *)
(* a part of a directory entry, the free map (which fits into one sector)  *)
(* or a file header (which fills its sector, and is its first cell).  The  *)
(* free map is the set of marked sectors; Bitmap shows that bitmap.cc      *)
(* keeps such a set.                                                       *)
(*                                                                         *)
(* An operation that changes the disk yields its sector writes, in order,  *)
(* so that a loss of power can come between any two of them.               *)
(***************************************************************************)
Sectors == 0 .. NumSectors - 1
divRoundDown(n, s) == n \div s
divRoundUp(n, s) == (n \div s) + (IF n % s > 0 THEN 1 ELSE 0)

Blank == [i \in 1 .. SectorSize |-> Junk]

SectorWrite(sector, cells) == [sector |-> sector, cells |-> cells]
WriteSector(disk, w) == [disk EXCEPT ![w.sector] = w.cells]
WriteAll(disk, writes) == FoldLeft(WriteSector, disk, writes)
-----------------------------------------------------------------------------
(***************************************************************************)
(* PersistentBitmap: FindAndSet, done n times, marks the n lowest clear    *)
(* sectors.                                                                *)
(***************************************************************************)
NumClear(freeMap) == Cardinality(Sectors \ freeMap)

FindAndSet(freeMap, n) ==
    LET clear == Sectors \ freeMap
    IN  [i \in 1 .. n |-> CHOOSE s \in clear :
                              Cardinality({r \in clear : r < s}) = i - 1]

(***************************************************************************)
(* FileHeader.  Allocate is defined when NumClear is large enough.         *)
(***************************************************************************)
Allocate(freeMap, fileSize) ==
    [numBytes |-> fileSize, numSectors |-> divRoundUp(fileSize, SectorSize),
     dataSectors |-> FindAndSet(freeMap, divRoundUp(fileSize, SectorSize))]

CanAllocate(freeMap, fileSize) == NumClear(freeMap) >= divRoundUp(fileSize, SectorSize)

DataSectors(hdr) == {hdr.dataSectors[i] : i \in 1 .. hdr.numSectors}

\* Deallocate asserts that the sectors are marked, and clears them.
Deallocatable(freeMap, hdr) == DataSectors(hdr) \subseteq freeMap
Deallocate(freeMap, hdr) == freeMap \ DataSectors(hdr)

HeaderFetchFrom(disk, sector) == disk[sector][1]
HeaderWriteBack(hdr, sector) == <<SectorWrite(sector, [Blank EXCEPT ![1] = hdr])>>

ByteToSector(hdr, offset) == hdr.dataSectors[(offset \div SectorSize) + 1]
-----------------------------------------------------------------------------
\* The sectors that a request of numBytes > 0 at position touches
FirstSector(position) == divRoundDown(position, SectorSize)
LastSector(position, numBytes) == divRoundDown(position + numBytes - 1, SectorSize)

\* A request beyond the end of the file is cut off, or is nothing at all.
Clip(hdr, numBytes, position) ==
    IF numBytes <= 0 \/ position >= hdr.numBytes THEN 0
    ELSE IF position + numBytes > hdr.numBytes THEN hdr.numBytes - position
    ELSE numBytes

(***************************************************************************)
(* OpenFile::ReadAt: read all sectors that the request touches, and copy   *)
(* the part wanted.                                                        *)
(***************************************************************************)
ReadAt(disk, hdr, numBytes, position) ==
    LET n == Clip(hdr, numBytes, position)
        first == FirstSector(position)
        last == LastSector(position, n)
        buf == [i \in 1 .. (1 + last - first) * SectorSize |->
                   disk[ByteToSector(hdr, first * SectorSize + i - 1)]
                       [1 + ((i - 1) % SectorSize)]]
        start == position - first * SectorSize
    IN  IF n = 0 THEN <<>> ELSE SubSeq(buf, start + 1, start + n)

\* bcopy(from, &buf[start], ...)
CopyInto(buf, start, from) ==
    [i \in DOMAIN buf |->
        IF i - start \in DOMAIN from THEN from[i - start] ELSE buf[i]]

\* Mutant: the last sector is not read first when the first one was aligned.
ReadsLastMutated(firstAligned, lastAligned, first, last) ==
    ~lastAligned /\ first # last /\ ~firstAligned

\* The last sector is to be partly written, and has not been read as the first.
ReadsLast(firstAligned, lastAligned, first, last) ==
    ~lastAligned /\ (first # last \/ firstAligned)

(***************************************************************************)
(* OpenFile::WriteAt: a buffer for all sectors that the request touches;   *)
(* read the first and the last if they are to be partly written, copy the  *)
(* bytes in, write all sectors back.                                       *)
(***************************************************************************)
WriteAt(disk, hdr, from, position) ==
    LET n == Clip(hdr, Len(from), position)
        first == FirstSector(position)
        last == LastSector(position, n)
        firstAligned == position = first * SectorSize
        lastAligned == position + n = (last + 1) * SectorSize
        empty == [i \in 1 .. (1 + last - first) * SectorSize |-> Junk]
        withFirst == IF firstAligned THEN empty
                     ELSE CopyInto(empty, 0,
                              ReadAt(disk, hdr, SectorSize, first * SectorSize))
        withLast == IF ReadsLast(firstAligned, lastAligned, first, last)
                    THEN CopyInto(withFirst, (last - first) * SectorSize,
                              ReadAt(disk, hdr, SectorSize, last * SectorSize))
                    ELSE withFirst
        buf == CopyInto(withLast, position - first * SectorSize, SubSeq(from, 1, n))
    IN  IF n = 0 THEN <<>>
        ELSE [i \in 1 .. 1 + last - first |->
                 SectorWrite(ByteToSector(hdr, (first + i - 1) * SectorSize),
                             SubSeq(buf, (i - 1) * SectorSize + 1, i * SectorSize))]

(***************************************************************************)
(* OpenFile::Read, called until it returns nothing, with the position that *)
(* it moves on: the loop of Print (threads/main.cc).                       *)
(***************************************************************************)
ReadAll(disk, hdr, size) ==
    FlattenSeq([i \in 1 .. divRoundUp(hdr.numBytes, size) |->
                   ReadAt(disk, hdr, size, (i - 1) * size)])
-----------------------------------------------------------------------------
(***************************************************************************)
(* The directory (filesys/directory.cc): a table of NumDirEntries entries, *)
(* kept in a file of its own.                                              *)
(*                                                                         *)
(* On the disk an entry is two cells, inUse with sector, and the name.  In *)
(* the code an entry has 20 bytes, and the boundary between the two        *)
(* sectors of the table falls between sector and name of the seventh       *)
(* (bytes 120-127 and 128-137): with an odd SectorSize some entry is split *)
(* in the same way.                                                        *)
(***************************************************************************)
Entry(inUse, sector, name) == [inUse |-> inUse, sector |-> sector, name |-> name]

\* Directory::Directory sets inUse alone.
EmptyDirectory == [i \in 1 .. NumDirEntries |-> Entry(FALSE, Junk, Junk)]

DirectoryFileSize == 2 * NumDirEntries

DirectoryFetchFrom(disk, file) ==
    LET cells == ReadAt(disk, file, DirectoryFileSize, 0)
    IN  [i \in 1 .. NumDirEntries |->
            Entry(cells[2 * i - 1].inUse, cells[2 * i - 1].sector, cells[2 * i])]

DirectoryWriteBack(disk, file, table) ==
    LET Of(i) == table[(i + 1) \div 2]
        cells == [i \in 1 .. DirectoryFileSize |->
                     IF i % 2 = 1 THEN [inUse |-> Of(i).inUse, sector |-> Of(i).sector]
                     ELSE Of(i).name]
    IN  WriteAt(disk, file, cells, 0)

\* FindIndex, as the set of the index found: empty, or the first one that matches.
FindIndex(table, name) ==
    LET matches == {i \in DOMAIN table : table[i].inUse /\ table[i].name = Stored(name)}
    IN  {i \in matches : \A j \in matches : i <= j}

\* Find, as the set of the sector found
Find(table, name) == {table[i].sector : i \in FindIndex(table, name)}

\* The entry that Add takes, the first that is not in use
FreeIndex(table) ==
    LET free == {i \in DOMAIN table : ~table[i].inUse}
    IN  {i \in free : \A j \in free : i <= j}

\* Mutant: the name is not copied into the entry.
AddMutated(table, name, newSector) ==
    [i \in DOMAIN table |->
        IF i \in FreeIndex(table) THEN Entry(TRUE, newSector, table[i].name) ELSE table[i]]

\* Add, where FindIndex finds nothing and there is a FreeIndex
Add(table, name, newSector) ==
    [i \in DOMAIN table |->
        IF i \in FreeIndex(table) THEN Entry(TRUE, newSector, Stored(name)) ELSE table[i]]

\* Remove: the name and the sector stay in the entry.
DirectoryRemove(table, name) ==
    [i \in DOMAIN table |->
        IF i \in FindIndex(table, name) THEN [table[i] EXCEPT !.inUse = FALSE] ELSE table[i]]

\* List and Print: the entries in use
Listed(table) == {table[i].name : i \in {j \in DOMAIN table : table[j].inUse}}
-----------------------------------------------------------------------------
(***************************************************************************)
(* The file system and the commands.                                       *)
(***************************************************************************)
VARIABLES disk, todo, copying, ops, content, atRisk, damaged, lost

vars == <<disk, todo, copying, ops, content, atRisk, damaged, lost>>

Keys == {Stored(name) : name \in Names}

FreeMapSector == 0
DirectorySector == 1
FreeMapFileSize == 1

freeMapFile == HeaderFetchFrom(disk, FreeMapSector)
directoryFile == HeaderFetchFrom(disk, DirectorySector)

\* PersistentBitmap::FetchFrom and WriteBack
FetchMap(d, file) == ReadAt(d, file, FreeMapFileSize, 0)[1].marked
WriteMap(d, file, freeMap) == WriteAt(d, file, <<[marked |-> freeMap]>>, 0)

directory == DirectoryFetchFrom(disk, directoryFile)
freeMap == FetchMap(disk, freeMapFile)

(***************************************************************************)
(* FileSystem(TRUE): an empty file system.  FileSystem(FALSE) opens the    *)
(* two files again, which have not moved.                                  *)
(***************************************************************************)
Format ==
    LET reserved == {FreeMapSector, DirectorySector}
        mapHdr == Allocate(reserved, FreeMapFileSize)
        dirHdr == Allocate(reserved \cup DataSectors(mapHdr), DirectoryFileSize)
        marked == reserved \cup DataSectors(mapHdr) \cup DataSectors(dirHdr)
        headers == WriteAll([s \in Sectors |-> Blank],
                            HeaderWriteBack(mapHdr, FreeMapSector)
                            \o HeaderWriteBack(dirHdr, DirectorySector))
        withMap == WriteAll(headers, WriteMap(headers, mapHdr, marked))
    IN  WriteAll(withMap, DirectoryWriteBack(withMap, dirHdr, EmptyDirectory))

Init ==
    /\ disk = Format
    /\ todo = <<>> /\ copying = NoCopy /\ ops = 0
    /\ content = [k \in Keys |-> NoFile]
    /\ atRisk = [keys |-> {}, bytes |-> {}]
    /\ damaged = {}
    /\ lost = FALSE
-----------------------------------------------------------------------------
\* FileSystem::Open: the header of a name that is in the directory
HeaderSector(name) == CHOOSE s \in Find(directory, name) : TRUE
Open(name) == HeaderFetchFrom(disk, HeaderSector(name))

\* The sector does hold a header, if perhaps that of another file.  The code
\* has no way to tell.
IsHeader(sector) ==
    HeaderFetchFrom(disk, sector)
        \in [numBytes : Nat, numSectors : Nat, dataSectors : Seq(Sectors)]

Opens(name) == Find(directory, name) # {} /\ IsHeader(HeaderSector(name))

\* The names that may be spoilt, now or by an operation that was cut short
Suspect ==
    IF lost THEN Keys ELSE damaged \cup (IF todo = <<>> THEN {} ELSE atRisk.keys)

\* The files that have to be right
Live == {k \in Keys \ Suspect : content[k] \notin {NoFile, Junk}}

FileSectors(k) ==
    LET s == HeaderSector(k) IN {s} \cup DataSectors(HeaderFetchFrom(disk, s))
SystemSectors == {FreeMapSector, DirectorySector}
                 \cup DataSectors(freeMapFile) \cup DataSectors(directoryFile)

\* The files that lose sectors, or what these hold, to a command on a name
\* that is not right itself
Spoilt(name, sectors) ==
    {k \in Live : Stored(name) \notin Live /\ FileSectors(k) \cap sectors # {}}
-----------------------------------------------------------------------------
\* A Write counts as two operations towards MaxOps: it has the most variants.
WriteCost == 2

\* A command is given: nothing else is in progress.  Any name will do, also
\* one that is damaged.
Begin(cost) ==
    /\ todo = <<>> /\ copying = NoCopy /\ ~lost
    /\ ops + cost <= MaxOps /\ ops' = ops + cost

Risk(keys, bytes) == atRisk' = [keys |-> keys, bytes |-> bytes]

\* The name that the directory entry about to be used has kept from an earlier file
FormerName == {directory[i].name : i \in FreeIndex(directory)} \cap Keys

\* Mutant: the header's own sector is not marked before the data sectors are found.
HeaderMapMutated(sector) == freeMap

\* The free map once FindAndSet has found a sector for the header
HeaderMap(sector) == freeMap \cup {sector}

(***************************************************************************)
(* FileSystem::Create, called by Copy.  It fails, and then has changed     *)
(* nothing, if the name exists, or there is no sector for the header, no   *)
(* entry in the directory or no room for the data.  Otherwise the header,  *)
(* the directory and the free map are written, in this order.  A damaged   *)
(* name that is not in the directory is as good as new.                    *)
(***************************************************************************)
Create(name, initialSize) ==
    /\ Begin(1)
    /\ Find(directory, name) = {}
    /\ NumClear(freeMap) > 0
    /\ FreeIndex(directory) # {}
    /\ LET sector == FindAndSet(freeMap, 1)[1]
           table == Add(directory, name, sector)
           hdr == Allocate(HeaderMap(sector), initialSize)
           marked == HeaderMap(sector) \cup DataSectors(hdr)
       IN  /\ CanAllocate(HeaderMap(sector), initialSize)
           /\ todo' = HeaderWriteBack(hdr, sector)
                      \o DirectoryWriteBack(disk, directoryFile, table)
                      \o WriteMap(disk, freeMapFile, marked)
    /\ copying' = [name |-> name, size |-> initialSize, seekPosition |-> 0]
    /\ content' = [content EXCEPT ![Stored(name)] =
                      [i \in 1 .. initialSize |-> Unwritten]]
    /\ damaged' = damaged \ {Stored(name)}
    /\ Risk({Stored(name)} \cup FormerName, {})
    /\ UNCHANGED <<disk, lost>>

\* Fresh bytes of operation op, for a place in the file
Bytes(op, n, position) == [i \in 1 .. n |-> [op |-> op, byte |-> position + i]]

\* WriteAt through the header that Open fetched.  Of a file that is not right
\* nothing is expected, but others may have come by its sectors.
Put(name, position, from) ==
    LET writes == WriteAt(disk, Open(name), from, position)
        spoilt == Spoilt(name, {writes[i].sector : i \in DOMAIN writes})
        Expected(k) ==
            [i \in DOMAIN content[k] |-> IF i - position \in DOMAIN from
                                         THEN from[i - position] ELSE content[k][i]]
    IN  /\ todo' = writes
        /\ content' = [k \in Keys |->
               IF k \in spoilt THEN Junk
               ELSE IF k = Stored(name) /\ k \in Live THEN Expected(k) ELSE content[k]]
        /\ Risk({}, {<<Stored(name), position + i>> :
                         i \in 1 .. Clip(Open(name), Len(from), position)})

\* One turn of Copy's loop: Open, and Write at the position that Write moves on.
CopyWrite ==
    /\ todo = <<>> /\ copying # NoCopy
    /\ LET left == copying.size - copying.seekPosition
           amountRead == IF left < TransferSize THEN left ELSE TransferSize
       IN  IF left > 0
           THEN /\ Put(copying.name, copying.seekPosition,
                       Bytes(ops, amountRead, copying.seekPosition))
                /\ copying' = [copying EXCEPT !.seekPosition = @ + amountRead]
           ELSE /\ copying' = NoCopy
                /\ UNCHANGED <<todo, content, atRisk>>
    /\ UNCHANGED <<disk, ops, damaged, lost>>

\* OpenFile::Seek and Write, or WriteAt, by a program that uses the file
Write(name) ==
    /\ Begin(WriteCost)
    /\ Opens(name)
    /\ \E position \in 0 .. Max(Sizes) - 1, numBytes \in 1 .. Max(Sizes) :
          /\ position + numBytes <= Max(Sizes)
          /\ Put(name, position, Bytes(ops + WriteCost, numBytes, position))
    /\ UNCHANGED <<disk, copying, damaged, lost>>

\* Mutant: Remove clears the data sectors and forgets the header's own.
ClearedMutated(hdr, sector) == Deallocate(freeMap, hdr)

\* The free map without the data sectors and the header of a file
Cleared(hdr, sector) == Deallocate(freeMap, hdr) \ {sector}

(***************************************************************************)
(* FileSystem::Remove: the free map is written before the directory.       *)
(* Deallocate aborts, before anything is written, if a data sector is not  *)
(* marked; by FilesIntact this happens to no file that is right.           *)
(***************************************************************************)
RemoveFile(name) ==
    /\ Begin(1)
    /\ Opens(name)
    /\ Deallocatable(freeMap, Open(name))
    /\ todo' = WriteMap(disk, freeMapFile, Cleared(Open(name), HeaderSector(name)))
               \o DirectoryWriteBack(disk, directoryFile, DirectoryRemove(directory, name))
    /\ LET spoilt == Spoilt(name, FileSectors(name))
       IN  content' = [k \in Keys |-> IF k = Stored(name) THEN NoFile
                                      ELSE IF k \in spoilt THEN Junk ELSE content[k]]
    /\ Risk({Stored(name)}, {})
    /\ UNCHANGED <<disk, copying, damaged, lost>>

\* Remove, or Open and Write, takes data for a header: it may clear and write
\* any sectors.  From then on nothing is said about the disk.
Misread(name) ==
    /\ Begin(1)
    /\ Find(directory, name) # {} /\ ~Opens(name)
    /\ lost' = TRUE
    /\ UNCHANGED <<disk, todo, copying, content, atRisk, damaged>>

\* SynchDisk::WriteSector, for the next write of the operation
DiskWrite ==
    /\ todo # <<>>
    /\ disk' = WriteSector(disk, Head(todo))
    /\ todo' = Tail(todo)
    /\ atRisk' = IF todo' = <<>> THEN [keys |-> {}, bytes |-> {}] ELSE atRisk
    /\ UNCHANGED <<copying, ops, content, damaged, lost>>

\* Power is lost, and the disk is used again with FileSystem(FALSE).
Crash ==
    /\ todo' = <<>> /\ copying' = NoCopy
    /\ IF todo = <<>>
       THEN UNCHANGED <<damaged, content>>
       ELSE /\ damaged' = damaged \cup atRisk.keys
            /\ content' = [k \in Keys |->
                   IF k \in atRisk.keys THEN NoFile
                   ELSE IF content[k] \in {NoFile, Junk} THEN content[k]
                   ELSE [i \in DOMAIN content[k] |->
                            IF <<k, i>> \in atRisk.bytes THEN Unwritten
                            ELSE content[k][i]]]
    /\ Risk({}, {})
    /\ UNCHANGED <<disk, ops, lost>>

Next ==
    \/ \E name \in Names, initialSize \in Sizes : Create(name, initialSize)
    \/ CopyWrite
    \/ \E name \in Names : Write(name) \/ RemoveFile(name) \/ Misread(name)
    \/ DiskWrite
    \/ Crash

Spec == Init /\ [][Next]_vars
-----------------------------------------------------------------------------
(***************************************************************************)
(* The directory lists exactly the files there should be, each once.  At   *)
(* every moment, and after any number of losses of power, this holds for   *)
(* all names but the ones that were being created or removed and the name  *)
(* that a new file's directory entry had before, whatever commands are     *)
(* given later, also on these names, until one of them takes a sector of   *)
(* data for a header (lost).  A name is right again once it has been       *)
(* created anew.                                                           *)
(***************************************************************************)
DirectoryExact ==
    LET table == directory
    IN  \A k \in Keys \ Suspect :
            /\ k \in Listed(table) <=> content[k] # NoFile
            /\ \A i, j \in {n \in DOMAIN table : table[n].inUse /\ table[n].name = k} :
                   i = j

(***************************************************************************)
(* No two files share a sector, no file has a sector of the free map or of *)
(* the directory, and all their sectors are marked, so that no other file  *)
(* will get them and Deallocate's assertion holds.  While all names are    *)
(* right, nothing else is marked: no sector is ever leaked.  After losses  *)
(* of power this holds for all files but those named in DirectoryExact,    *)
(* and those that a later command on such a name has met in its sectors.   *)
(***************************************************************************)
FilesIntact ==
    LET sectors == [k \in Live |-> FileSectors(k)]
        marked == freeMap
        system == SystemSectors
    IN  /\ \A k \in Live :
              /\ IsHeader(HeaderSector(k))
              /\ sectors[k] \cap system = {}
              /\ sectors[k] \subseteq marked
              /\ Cardinality(sectors[k]) = 1 + Open(k).numSectors
              /\ \A l \in Live \ {k} : sectors[k] \cap sectors[l] = {}
        /\ todo = <<>> /\ damaged = {} /\ (\A k \in Keys : content[k] # Junk) =>
              marked = system \cup UNION {sectors[k] : k \in Live}

(***************************************************************************)
(* Whatever part of a file is read (ReadAt, or Print's loop of Read), it   *)
(* is what was last written there, also while another file, or another     *)
(* part of this one, is being written.  A write through the entry of a     *)
(* damaged name spoils no file but those that own a sector it writes.      *)
(***************************************************************************)
Settled(k, i) == todo = <<>> \/ <<k, i>> \notin atRisk.bytes

Matches(k, position, read) ==
    \A i \in DOMAIN read :
        \/ ~Settled(k, position + i)
        \/ content[k][position + i] \in {Unwritten, read[i]}

ReadsAreExact ==
    \A k \in Live :
        LET hdr == Open(k)
            length == Len(content[k])
            all == ReadAll(disk, hdr, TransferSize)
        IN  /\ hdr.numBytes = length
            /\ Len(all) = length /\ Matches(k, 0, all)
            /\ \A position \in 0 .. length : \A end \in position + 1 .. length + 1 :
                   LET read == ReadAt(disk, hdr, end - position, position)
                   IN  /\ Len(read) = (IF end <= length THEN end ELSE length) - position
                       /\ Matches(k, position, read)
=============================================================================
