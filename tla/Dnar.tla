-------------------------------- MODULE Dnar --------------------------------
(***************************************************************************)
(* The DNAR protocol of internal/dnar/dnar.proto: the messages of an       *)
(* archive, in the order a sender writes them, and the archive itself.     *)
(* An index into the trailer's files, its paths or the payloads counts     *)
(* from 1 here, from 0 in the archive.                                     *)
(***************************************************************************)
EXTENDS NixStore

VARIABLE
  archive       \* the messages written so far

(* The number of messages of the stream that follows. *)
StreamHeader(length) == [msg |-> "header", length |-> length]

NAR(path, files) == [msg |-> "nar", path |-> path, files |-> files]

CAChunk(data) == [msg |-> "chunk", data |-> data]

(* The inputs an archive is unpacked with: store paths, and files in them. *)
PathTrailer(paths, files) == [msg |-> "trailer", paths |-> paths, files |-> files]

FileDescriptor(storePath, path) == [storePath |-> storePath, path |-> path]

(* The files of a NAR. *)
RegularFile(row, chunks) ==
  [type |-> "regular", path |-> row.path, size |-> row.size, exec |-> row.exec,
   chunks |-> chunks]

DirectoryFile(path, from) == [type |-> "directory", path |-> path, from |-> from]

SymlinkFile(path, target) == [type |-> "symlink", path |-> path, target |-> target]

(* "from" of a directory that is not copied from an input. *)
NoDirectory == -1

(* How the bytes of a regular file are obtained, chunk by chunk. *)
CA(index) == [chunk |-> "ca", index |-> index]

FD(index, size, offset, digest) ==
  [chunk |-> "fd", index |-> index, size |-> size, offset |-> offset, digest |-> digest]

Delta(index, size, offset, digest, deltaIndex, resultSize) ==
  [chunk |-> "delta", index |-> index, size |-> size, offset |-> offset,
   digest |-> digest, deltaIndex |-> deltaIndex, resultSize |-> resultSize]

(* What the message of a payload carries: the blocks of a chunk, or the    *)
(* delta that makes result out of base.                                    *)
Verbatim(blocks) == [kind |-> "verbatim", blocks |-> blocks, base |-> <<>>]

DeltaOf(base, result) == [kind |-> "delta", blocks |-> result, base |-> base]

=============================================================================
