-------------------------------- MODULE Sjfs ---------------------------------
(***************************************************************************)
(* The SpaceJet file system (src/sjfs.c): a fixed table of append-only     *)
(* files in RAM that a reset does not clear.  Each operation of the code   *)
(* is an operator from stores to stores (or to its result); Mission runs   *)
(* them.  A file's content is a sequence of units, the smallest pieces a   *)
(* property tells apart; write_pos is its length.                          *)
(***************************************************************************)
EXTENDS Integers, Sequences

CONSTANTS
    SJFS_MAX_FILES,   \* entries in the table (24)
    SJFS_FILE_UNITS   \* capacity of a file, in units (4096 bytes)

ASSUME SjfsAssumption ==
    /\ SJFS_MAX_FILES \in Nat \ {0}
    /\ SJFS_FILE_UNITS \in Nat

FileId == 0 .. SJFS_MAX_FILES - 1
NoFile == -1

(* Path names are pairs <<directory, n>>.                                  *)
NoPath    == <<"", 0>>
Unused    == [used |-> FALSE, path |-> NoPath, data |-> <<>>]

(* valid: the magic number and version are those of a formatted store.     *)
Formatted == [valid |-> TRUE, entries |-> [f \in FileId |-> Unused]]

-----------------------------------------------------------------------------
(* Mutant of SjfsInit: an existing store is formatted again.               *)
SjfsInitAlways(fs) == Formatted

(* sjfs_init: mount what is there, format anything else.                   *)
SjfsInit(fs) == IF fs.valid THEN fs ELSE Formatted

Lowest(S) == IF S = {} THEN NoFile ELSE CHOOSE f \in S : \A g \in S : f <= g

(* sjfs_open: the first entry in use with that path.                       *)
SjfsOpen(fs, path) == Lowest({f \in FileId : fs.entries[f].used /\ fs.entries[f].path = path})

(* sjfs_create: the index it returns, NoFile when the table is full, and   *)
(* the store it leaves.  It does not look for an existing file.            *)
SjfsFree(fs) == Lowest({f \in FileId : ~ fs.entries[f].used})

SjfsCreate(fs, path) ==
    IF SjfsFree(fs) = NoFile THEN fs
    ELSE [fs EXCEPT !.entries[SjfsFree(fs)] = [used |-> TRUE, path |-> path, data |-> <<>>]]

(* sjfs_open_or_create, index and store.                                   *)
SjfsOpenOrFree(fs, path) ==
    IF SjfsOpen(fs, path) # NoFile THEN SjfsOpen(fs, path) ELSE SjfsFree(fs)

SjfsOpenOrCreate(fs, path) ==
    IF SjfsOpen(fs, path) # NoFile THEN fs ELSE SjfsCreate(fs, path)

(* The first n units of a sequence, or all it has.                         *)
Take(s, n) == SubSeq(s, 1, IF Len(s) <= n THEN Len(s) ELSE n)

(* Mutant of SjfsWrite: what does not fit as a whole is not written.       *)
SjfsWriteWhole(fs, f, units) ==
    IF f \in FileId /\ Len(fs.entries[f].data) + Len(units) <= SJFS_FILE_UNITS
    THEN [fs EXCEPT !.entries[f].data = @ \o units]
    ELSE fs

(* Mutant of SjfsWrite: the capacity of the file is not looked at.         *)
SjfsWriteUnbounded(fs, f, units) ==
    IF f \in FileId THEN [fs EXCEPT !.entries[f].data = @ \o units] ELSE fs

(* sjfs_write: append what still fits, silently drop the rest.             *)
SjfsWrite(fs, f, units) ==
    IF f \in FileId
    THEN [fs EXCEPT !.entries[f].data =
              @ \o Take(units, SJFS_FILE_UNITS - Len(@))]
    ELSE fs

(* sjfs_read into a buffer of n units; the caller has checked the index.   *)
SjfsRead(fs, f, n) == Take(fs.entries[f].data, n)

(* Mutant of SjfsRename: it takes effect on no file.                       *)
SjfsRenameNone(fs, old, new) == fs

(* sjfs_rename: the first file of that path; new may already be in use.    *)
SjfsRename(fs, old, new) ==
    IF SjfsOpen(fs, old) = NoFile THEN fs
    ELSE [fs EXCEPT !.entries[SjfsOpen(fs, old)].path = new]
=============================================================================
