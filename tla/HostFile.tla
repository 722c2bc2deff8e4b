------------------------------ MODULE HostFile ------------------------------
(***************************************************************************)
(* The file system of the default build, with FILESYS_STUB: the classes    *)
(* FileSystem (filesys/filesys.h) and OpenFile (filesys/openfile.h) as     *)
(* calls of the host's open, lseek, read, write and unlink through         *)
(* lib/sysdep.cc.  Any number of OpenFile objects may be open on a file    *)
(* that others create anew or remove.                                      *)
(*                                                                         *)
(* named       the host's directory: the file that each name stands for    *)
(* data        the bytes of each file                                      *)
(* openFile    the OpenFile objects: the file, the host's offset of its    *)
(*             descriptor, and currentOffset                               *)
(* calls       how many calls have been made                               *)
(* and, to state what is right:                                            *)
(* image       what each file should hold                                  *)
(* place       where the next Read or Write of an object should start      *)
(* result      what the last read returned, and what it should have        *)
(***************************************************************************)
EXTENDS Integers, Sequences, FiniteSets, SequencesExt

CONSTANTS
    HostNames, OpenFiles,
    Closed, Missing,
    MaxLength,          \* bound on the length of a file
    MaxCalls            \* bound on the number of calls

VARIABLES named, data, openFile, calls, image, place, result

vars == <<named, data, openFile, calls, image, place, result>>

\* As many files as can be named or open at once
Files == 1 .. Cardinality(HostNames) + Cardinality(OpenFiles)
Positions == 0 .. MaxLength
NumBytes == 1 .. 2

Zero == 0
\* The bytes that the object h writes, told apart by their place in the request
Bytes(h, n) == [i \in 1 .. n |-> <<h, i>>]

NoResult == [got |-> <<>>, should |-> <<>>]
-----------------------------------------------------------------------------
(***************************************************************************)
(* The host: write at an offset fills a gap with zeros, read returns what  *)
(* there is, unlink leaves the file to the descriptors that are open.      *)
(***************************************************************************)
WriteOver(bytes, from, offset) ==
    LET length == IF Len(bytes) > offset + Len(from) THEN Len(bytes) ELSE offset + Len(from)
    IN  [i \in 1 .. length |->
            IF i - offset \in DOMAIN from THEN from[i - offset]
            ELSE IF i \in DOMAIN bytes THEN bytes[i] ELSE Zero]

ReadFrom(bytes, n, offset) ==
    SubSeq(bytes, offset + 1, IF offset + n < Len(bytes) THEN offset + n ELSE Len(bytes))

InUse(f) ==
    \/ \E name \in HostNames : named[name] = f
    \/ \E h \in OpenFiles : openFile[h] # Closed /\ openFile[h].file = f

Fresh == CHOOSE f \in Files : ~InUse(f) /\ \A g \in Files : g < f => InUse(g)
-----------------------------------------------------------------------------
Init ==
    /\ named = [name \in HostNames |-> Missing]
    /\ data = [f \in Files |-> <<>>] /\ image = data
    /\ openFile = [h \in OpenFiles |-> Closed]
    /\ place = [h \in OpenFiles |-> 0]
    /\ calls = 0 /\ result = NoResult

Called == calls < MaxCalls /\ calls' = calls + 1

\* OpenForWrite: the file is there and empty, also if it was there before.
OpenForWrite(f) ==
    data' = [data EXCEPT ![f] = <<>>] /\ image' = [image EXCEPT ![f] = <<>>]

\* FileSystem::Create
Create(name) ==
    /\ Called
    /\ LET f == IF named[name] = Missing THEN Fresh ELSE named[name]
       IN  named' = [named EXCEPT ![name] = f] /\ OpenForWrite(f)
    /\ result' = NoResult
    /\ UNCHANGED <<openFile, place>>

\* The descriptor that OpenForReadWrite returns for a file that is there
OpenForReadWrite(name) == [file |-> named[name], offset |-> 0]

\* The constructor of OpenFile
NewOpenFile(fd) == [file |-> fd.file, offset |-> fd.offset, currentOffset |-> 0]

\* FileSystem::Open, for a file that is there
Open(h, name) ==
    /\ Called
    /\ openFile[h] = Closed /\ named[name] # Missing
    /\ openFile' = [openFile EXCEPT ![h] = NewOpenFile(OpenForReadWrite(name))]
    /\ place' = [place EXCEPT ![h] = 0]
    /\ result' = NoResult
    /\ UNCHANGED <<named, data, image>>

Unlink(name) == named' = [named EXCEPT ![name] = Missing]

\* FileSystem::Remove, for a file that is there
RemoveName(name) ==
    /\ Called
    /\ named[name] # Missing
    /\ Unlink(name)
    /\ result' = NoResult
    /\ UNCHANGED <<data, openFile, image, place>>

\* ~OpenFile
Close(h) ==
    /\ Called
    /\ openFile[h] # Closed
    /\ openFile' = [openFile EXCEPT ![h] = Closed]
    /\ result' = NoResult
    /\ UNCHANGED <<named, data, image, place>>

\* Mutant: the descriptor is used at the offset where the last call left it.
LseekMutated(o, position) == o

\* Lseek(file, position, 0)
Lseek(o, position) == [o EXCEPT !.offset = position]

ReadPartial(o, nBytes) == ReadFrom(data[o.file], nBytes, o.offset)

\* OpenFile::ReadAt: seek, and read what there is.
ReadBytes(o, numBytes, position) == ReadPartial(Lseek(o, position), numBytes)

AfterRead(o, numBytes, position) ==
    [Lseek(o, position) EXCEPT !.offset = @ + Len(ReadBytes(o, numBytes, position))]

\* The object h reads, and what it should get starts at from.
Reads(h, numBytes, position, from) ==
    /\ result' = [got |-> ReadBytes(openFile[h], numBytes, position),
                  should |-> ReadFrom(image[openFile[h].file], numBytes, from)]
    /\ UNCHANGED <<named, data, image>>

ReadAt(h, numBytes, position) ==
    /\ Called
    /\ openFile[h] # Closed
    /\ Reads(h, numBytes, position, position)
    /\ openFile' = [openFile EXCEPT ![h] = AfterRead(@, numBytes, position)]
    /\ UNCHANGED place

\* Read: ReadAt at currentOffset, which moves on.
Read(h, numBytes) ==
    /\ Called
    /\ openFile[h] # Closed
    /\ LET o == openFile[h]
           position == o.currentOffset
       IN  /\ Reads(h, numBytes, position, place[h])
           /\ openFile' = [openFile EXCEPT ![h] =
                 [AfterRead(o, numBytes, position) EXCEPT
                     !.currentOffset = @ + Len(ReadBytes(o, numBytes, position))]]
    /\ place' = [place EXCEPT ![h] = @ + Len(result'.should)]

\* WriteFile writes all of the bytes.
WriteFile(o, from) == WriteOver(data[o.file], from, o.offset)

\* OpenFile::WriteAt: seek, and write.
AfterWrite(o, numBytes, position) == [Lseek(o, position) EXCEPT !.offset = @ + numBytes]

Writes(h, numBytes, position, to) ==
    LET f == openFile[h].file
    IN  /\ to + numBytes <= MaxLength
        /\ data' = [data EXCEPT ![f] =
                       WriteFile(Lseek(openFile[h], position), Bytes(h, numBytes))]
        /\ image' = [image EXCEPT ![f] = WriteOver(@, Bytes(h, numBytes), to)]
        /\ result' = NoResult
        /\ UNCHANGED named

WriteAt(h, numBytes, position) ==
    /\ Called
    /\ openFile[h] # Closed
    /\ Writes(h, numBytes, position, position)
    /\ openFile' = [openFile EXCEPT ![h] = AfterWrite(@, numBytes, position)]
    /\ UNCHANGED place

\* Write: WriteAt at currentOffset, which moves on.
Write(h, numBytes) ==
    /\ Called
    /\ openFile[h] # Closed
    /\ Writes(h, numBytes, openFile[h].currentOffset, place[h])
    /\ openFile' = [openFile EXCEPT ![h] =
           [AfterWrite(@, numBytes, @.currentOffset) EXCEPT !.currentOffset = @ + numBytes]]
    /\ place' = [place EXCEPT ![h] = @ + numBytes]

Tell(o) == o.offset

\* Length: seek to the end, and tell.
Length(h) ==
    /\ Called
    /\ openFile[h] # Closed
    /\ openFile' = [openFile EXCEPT ![h] = Lseek(@, Len(data[@.file]))]
    /\ result' = [got |-> <<Tell(openFile'[h])>>,
                  should |-> <<Len(image[openFile[h].file])>>]
    /\ UNCHANGED <<named, data, image, place>>

Next ==
    \/ \E name \in HostNames : Create(name) \/ RemoveName(name)
    \/ \E h \in OpenFiles, name \in HostNames : Open(h, name)
    \/ \E h \in OpenFiles : Close(h) \/ Length(h)
    \/ \E h \in OpenFiles, n \in NumBytes : Read(h, n) \/ Write(h, n)
    \/ \E h \in OpenFiles, n \in NumBytes, position \in Positions :
           ReadAt(h, n, position) \/ WriteAt(h, n, position)
-----------------------------------------------------------------------------
(***************************************************************************)
(* Every read returns what was last written at that place of the file, by  *)
(* whatever object, and Read and Write go on where the object's own last   *)
(* Read or Write ended, although ReadAt, WriteAt and Length move the one   *)
(* offset that the host keeps for its descriptor.                          *)
(***************************************************************************)
HostReadsAreExact ==
    /\ result.got = result.should
    /\ \A f \in Files : InUse(f) => data[f] = image[f]
=============================================================================
