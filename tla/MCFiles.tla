------------------------------ MODULE MCFiles -------------------------------
(***************************************************************************)
(* The file system: names and inodes (Inode), and the contents of files    *)
(* (Content, with blocks of two bytes and files of at most three blocks;   *)
(* the image has one file, and one more can be written).  They share no    *)
(* state, so a behaviour is about one of them, chosen at the start, and    *)
(* the other stays in its initial state.                                   *)
(***************************************************************************)
EXTENDS MCInode

CONSTANTS
  Caller, Regular, BSIZE, NDIRECT, NINDIRECT, METABLOCKS, SIZE, LOGSIZE, Contents,
  Chunks, MaxWrites, Lengths                                       \* Content

VARIABLES part, fs, committed, off, call, trans, result, ncall

Con == INSTANCE Content

ASSUME FileConstants == Con!ContentConstants

cvars == <<fs, committed, off, call, trans, result, ncall>>

MCContents == {2 :> <<1, 2, 1>>}
MCChunks == {<<1, 2, 1, 2>>, <<2>>}

MCInit == part \in {"names", "contents"} /\ Init /\ Con!Init

MCNext ==
  /\ \/ part = "names" /\ Next /\ UNCHANGED cvars
     \/ part = "contents" /\ Con!Next /\ UNCHANGED vars
  /\ UNCHANGED part

MCSpec == MCInit /\ [][MCNext]_<<part, vars, cvars>>

Processes == Symmetry \union Permutations(Caller)
FilesView == <<part, IF part = "names" THEN View ELSE cvars>>

-----------------------------------------------------------------------------
(* The properties of Content; those of Inode are checked as they stand.    *)

(* In memory and after any crash, every block is free or listed once.      *)
BlocksAccounted == part = "contents" => Con!BlocksAccounted

(* No write fills the log.                                                 *)
FitsInLog == Con!FitsInLog

(* Files behave as byte sequences with a shared offset.                    *)
ByteFiles == Con!ByteFiles
=============================================================================
