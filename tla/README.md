# Verification of e2fsgrok

e2fsgrok reads damaged ext2/ext3 images: it finds directories in them, lists,
searches and copies out what is left, and lets a person repair single fields.
This directory holds TLA+ models of the parts of it that decide *what is read
and written*, the TLC runs that check them, and proofs, checked by TLAPS, of
what they have to do on every image.

## The system

One Python program, started once per command (`src/cli.py` prepares a virtual
environment, `src/pyutil/main.py` holds the commands), on one image file.

| component | state it keeps | operations | hard behaviour | what makes it right |
|---|---|---|---|---|
| block map of an inode, `inode.py:155-218` | the position of four nested generators, a count | `each_block` | damaged, null and cyclic pointers; a bound that counts something else; a -1 handed up through generators | blocks of the file system only, in file order, all of them, and an end |
| `cp`, `main.py:652-690` | destination, status file | copy, resume | killed between or in the middle of any two writes; runs side by side; status outlives the copy | a finished copy is whole; the status claims no more than is there, as long as no two runs mixed their numbers in it |
| directory block, `directory.py:32-131`, and `change_dir_entry`, `main.py:625-648` | offsets visited, errors found | `validate`, iterate, look up, edit | arbitrary `rec_len`/`name_len`, the end of the image, overlapping entries | an accepted block is tiled by its entries; an edit changes one inode |
| block groups, `block_group.py`, `superblock.py:237-334` | none (computed), the descriptors seen | places of bitmaps, tables, inodes; the walk over copies of descriptors | off-by-one in ids, floating point in `is_super`, lost superblocks | places do not overlap; each content counted once per copy |
| `analyze`, `build_file_list`, `grep`, `main.py:259-382, 386-415` | three kinds of checkpoint file, a buffered bit map, a list | scan a group, checkpoint, report, list, search what is not marked | killed or interrupted between two files, buffered bits, files of older versions, a search beside an analysis that replaces its file | what is kept of a group is exactly its directories; a run loses one group at most; no block of data is passed over |
| shell state, `main.py:12-63, 192-255, 726-749` | `local/curpath.pickle` | `cd`, `ls`, `name_or_inode`, `cur_path` | cycles in the tree, an unreadable working directory | walks end; a name that can be typed finds its entry |
| edits and cached searches, `main.py:496-648, 765-777` | image stream buffer, kept results | `change_block`, `change_dir_entry`, `search`, `isearch` | writes that are still in a buffer, two sessions with a buffer each, negative indices, entries edited while they are searched | an edit that was reported stays, nothing else changes, and a result was there |
| lines of a file, `inode.py:222-247` | rest of the last line, size left | `each_line`, `cat` | size counted twice | the bytes of the file, in lines |
| bitmaps, `bitmap.py` | the stream, the byte of an iterator | set, iterate, count | a byte kept while the file changes | no block of data counts as marked |
| struct fields, `struct.py` | cache of fields | `read`, `__getitem__` | reads past the image | fails, never short data |
| bootstrap, `cli.py` | the virtual environments, the lock file, `PATH` | create, install, lock, move, start again | killed half way, an installation that fails, two starts at once | an environment in use is complete, and a start ends |
| one-off reports (`dotfiles`, `superblocks`, `blk_data`, ...) | none | print | - | - |

The components meet in two ways.  They call each other: `ls`, `cat`, `cp` and
name lookup consume `each_block`, which reads its inode from where the block
group says it is; `analyze`, `ls` and lookup call `DirectoryBlk.validate`.  And
they share files: the image (read by all, written by the edits), `local/`
(status files, working directory, caches) and the files of `analyze`, which
`build_file_list` and `grep` read.

There are no threads.  What is concurrent is two commands of one user, and what
fails is a command that is killed, interrupted, or stopped by an exception on a
damaged image.  That is why processes that may stop between any two steps are
part of the models of `cp`, `analyze` and `grep`, the edits, the shell and the
bootstrap, and arbitrary content of the image is part of the others.

## The modules

| module | models | checked by | proved in |
|---|---|---|---|
| `EachBlock` | `INode.each_block` | `MCEachBlock` | `LayoutProofs` |
| `CopyPromise` | what "copy a file" promises | as a property of `CopyFile` | refinement in `CopyFileProofs` |
| `CopyFile` | `cp` | `MCCopyFile` | `CopyFileProofs` |
| `DirBlock` | one directory block, `change_dir_entry` | itself | `DirBlockProofs` |
| `Groups` | the layout of block groups, `all_block_descriptors` | `MCGroups` | `LayoutProofs` |
| `Analyze` | `analyze`, `build_file_list` and their files | `MCAnalyze`, and with `Grep` | `AnalyzeProofs` |
| `Grep` | `Analyze` with a `grep` beside it, and `bitmap.py` as `grep` uses it | `MCGrep` | `AnalyzeProofs` |
| `EachLine` | `INode.each_line` | `MCEachLine` | `EachLineProofs` |
| `Shell` | the working directory: `shell`, `cd`, `ls`, `name_or_inode`, `cur_path` | `MCShell` | `ShellProofs` |
| `EditPromise` | what the commands that edit promise | as a property of `Edits` | refinement in `EditProofs` |
| `Edits` | sessions that edit and search: `change_block`, `change_dir_entry`, `search`, `isearch`, the stream | `MCEdits` | `EditProofs` |
| `Bootstrap` | `cli.py` | `MCBootstrap` | `BootstrapProofs` |

Operators named like `AtEndLate` and marked "a slip" are plausible mistakes in
the definition that follows them; no behaviour uses them.  Each stands for a
bug that one property has to notice when it is put in the place of that
definition.

**EachBlock.**  One step is one pointer looked at.  The suspended generators
`_i0`, `_i1`, `_i2` are a stack of frames (`stk`), `idx` the closure variable,
`out` what was yielded.  `Leaf` and `Inner` differ as the code does: the `-1`
that `_i0` yields stops the outermost loop, a generator above it only returns.
The words of every block, the block count and `err_ok` are the constant `Files`;
nothing restricts them.

**CopyFile.**  One step is one system effect of `cp`: reading the status file,
`truncate`, a `dd` (which may be cut short), emptying the status file, writing
it.  The status file is the digits in it: opening it for writing empties it, and
closing it puts a number at its beginning, over whatever another run that had
opened it too has written since (`Overlaid`), so that 8 over 16 leaves 86.
`Text` and `Number` are `str` and `int`.  Three histories that no action reads go
with it: `mixed` says that the status goes back to such a mix, `misled` which runs
went on from one, `finished` the destinations that a run finished which did not.
`yields` is what `each_block` hands over, so the two modules meet in
`Sound`, which states for a file what `EachBlock!DenseIsComplete` finds.

**DirBlock.**  The block is chosen lazily: what an entry holds is picked when it
is first read (`HeadersAt`) and remembered (`hdr`), so every content of a block
is covered, overlapping entries as well.  `Fails` is `read` at the end of the
image.  `validate`, the lookup over its entries, the iteration over them
and the write of an inode number are the actions.

**Groups.**  Operators for the arithmetic of `block_group.py` and
`superblock.py`, and the walk of `all_block_descriptors` over an image whose
superblocks may be lost and whose descriptors may read as anything.  `LogMisses`
names the powers whose floating point logarithm is not an integer.

**Analyze.**  One step is one block scanned, one file opened (and thereby
emptied) or one file closed.  `valid` is the bit map as the run sees it, `map`
the file; the buffer is written by `Flush` at any time, by the end of the scan,
and, on an exception or interrupt, by leaving the `with` statement; `Kill` loses
it.  The marking of blocks of files (`main.py:314-319`) cannot be reached,
because `iblks.allow0 = False` raises for every inode (`Raises`), and is not in
the model.

**Grep.**  It EXTENDS `Analyze` and adds a second process: one step is one byte
counted (`CountByte`), one bit looked at (`EachBit`, of which every eighth reads
a byte, as `BitmapIter` does) or one effect on the file of the result.  `open`
is what is in the file it has open: `Follow` keeps it equal to
`analysis_blocks.data` until `analyze` removes that, and lets it be afterwards,
as a file system does.  `window` is the read buffer of the stream, of `Ahead`
bytes.  What `dd | strings | grep` finds in a block is left out: `found` is never
filled, and all that depends on a match is a line on the screen.

**EachLine.**  One step is one round of the loop: a line or a piece is yielded,
a block is read, or the generator ends.  A byte is its position in the blocks
that `each_block` yields, and `bytes` all that were read, of which `given` were
yielded; the code's `data` is the rest.  A call's `blks` and `ends` are what
`each_block` does for the file (how many blocks, and whether it then raises), and
nothing relates them to `size`, which is the argument of `cat` or the inode's.
Ids that `each_block` yields are on the image (`EachBlock!YieldsAreData`), so a
read fails only for a negative size.

**Shell.**  A process is the shell or one command.  One step is one round of
`cur_path` (`Up`, `Arrive`, `Die`), one block or entry of `ls`, or one system
effect on `local/curpath.pickle`: `cd` reads it and looks the word up, `Open`
empties it, `Write` fills it.  `saved` is that file, shared by all processes;
`stk` the calls of `branch`.  The prompt also shows the number that it read just
before `cur_path` reads it again; nothing depends on that first number and it is
left out.  Directories are data: blocks, whether `validate` accepts them, what
it and the iterator find there (the same in an accepted block,
`DirBlock!IterAgrees`), and whether reading on raises.  Commands that leave this
state alone are `Eof`, as far as this module can see.  `Lower` and `Number` are
`str.lower` and `coerce_int`.  A name of an entry is what `name_utf8` returns, a
string or, if the name is not UTF-8, bytes; `Shown` is what the prompt makes of it
(`b'..'` of bytes, another name), what is typed is a string, and bytes never equal
one (`Matches`).  A number that is written over a longer one, by a shell that had
opened the file as well, is still read as itself, because a pickle has its end in
it; `Write` therefore replaces what is there.

**Edits.**  A session is one run of the program, for one command or a shell.  Its
stream is modelled by what Python's `io` does to the words of the image: `Fetch`
reads a word, through a buffer that is refilled with `Ahead` words when it is not
in it, `Put` writes one into the buffer, and what is to be written goes out when
the position leaves the buffer, when the stream is closed, or at any time
(`Flush`); `Hull` is what goes out with it, everything from the first to the last
word that was changed.  A session that was opened to be read never writes, though
it asks about an edit all the same.  `change_block` shows the word `Shown` and
writes the word `Offset`, which a negative index tells apart.  `named`,
`misplaced`, `past` and `alone` are histories that the properties need; no action
reads them.  A search keeps its result in `cache`; when the directory of the
results is missing it cannot (`OpenMatches`).  Where the entries of a block are
is data, `change_dir_entry` changes their inode only (`DirBlock!EditIsLocal`); a
search by name finds what one by inode finds with other `Hits`.

**Bootstrap.**  A process is a start of `cli.py`, with the start it turns into
by `exec`; one step is one call of another program, one file opened or written,
or one directory made, filled, emptied or moved.  `dirs` says how far each
environment has got, `path` which of them were put in `PATH`: `Python` is the
first that works, or the host's.  That pip installs into the environment whose
python runs it, that `--require-virtualenv` refuses the host's, and that a `PATH`
can be too long (`MaxPath`) is what the code gets to see of them.  `hash` gives
`None` for a file that is not there and on a host with neither `openssl` nor
`md5` (`Hosts`).  Two starts that both have opened the lock file mix their lists
in it, as two runs of `cp` their numbers; here a mix is a value of its own
(`Overlaid`), and what pip makes of one is left open (`Installed`).

## What the runs show

| run | bounds | shows |
|---|---|---|
| `each_block` | 2 direct pointers, 2 per block, 28 blocks; dense files of every length 0..16, damaged maps over the first blocks, cycles | `DenseIsComplete`, `YieldsAreData`, `Bounded`, `InFileOrder`, `Terminates` |
| `each_block_sparse` | holes anywhere in the first 6 blocks | violation: a sparse file loses its last blocks |
| `cp` | 2 runs, 1 destination, files of up to 6 blocks of 2 bytes, a save every 2 blocks, numbers to base 3 | `FinishedIsComplete`, refinement of `CopyPromise` (`KeepsPromise`), `RunEnds` |
| `cp_dests` | 1 run at a time, 2 destinations | violation: the second copy is reported finished with a gap |
| `dir_block` | a block of 16 bytes, `rec_len` in 0,4,..16, `name_len` in 0,4,8 | `AcceptedIsTiled`, `IterAgrees`, `ScanFailsOnHeader`, `EditIsLocal`, `WalksEnd` |
| `groups` | 3 groups with every loss of superblocks and every descriptor, 5 groups, 2 groups without sparse superblocks | `InodesApart`, `DescriptorsApart`, `AllCounted` |
| `analyze` | 2 groups in 6 blocks, the last cut short, 3 images; 2 commands of `analyze` or `build_file_list`, one kill, one interrupt; files of an older version or none; beside them one `grep`, with bytes of 3 bits, read one at a time | `ResultsAreExact`, `OneLostEach`, `MarksAreKept`, `GrepMissesNoData`, `ProgressIsDefined`, `BothEnd` |
| `analyze_stale` | 2 groups in 8 blocks, 3 commands, no `grep` | violation: a report of a group nobody searched |
| `each_line` | blocks of 3 bytes, lines of 2 and 4, up to 3 blocks with newlines anywhere, sizes 0..10 | `FileComesFirst`, `NothingIsLost`, `NeverFarBeyond`, `FittingFilesAreRead`, `Terminates` |
| `shell` | 2 processes, 5 inodes, 6 images: a sound tree with a deleted entry, one with a directory that is not named in UTF-8 and a file named like what the prompt shows of it, a directory that lost its mode and contains itself, a cycle of `..`, bad blocks and read errors, names that differ in case; a recursion limit of 3, 3 names in a path | `TypeOK`, `PathLeadsBack`, `ShellLives`, `CommandsEnd` |
| `edits` | 2 sessions, open twice in all, with 2 edits and one kill; 5 words, 3 read at once; an inode with one pointer, edited with the index 0, -1 and 1; directories of 2 entries and of 1 | `OwnEditsAreSeen`, `ShownIsWritten`, `SearchIsExplained`, refinement of `EditPromise` (`KeepsPromise`) |
| `bootstrap` | 2 terminals, 3 starts, one kill, 2 calls that fail; with and without a lock file, a python, a program for the hash; 2 environments fit in `PATH` | `TypeOK`, `VenvsAreWhole`, `StartsRun`, `StaysSettled`, `StartsEnd` |

The type invariant of every module is proved; those of `Shell` and `Bootstrap`
are checked by their runs as well.

**Why the bounds are enough.**  In `each_block` every kind of generator is
entered, left and re-entered, the walk can end at every one of them, and a file
can end at and on either side of every boundary; larger fan-outs repeat these.
In `cp` there is a save before, at and after the place where a run can stop, and
one run can overtake the other.  The numbers saved are 0, 2 and 4, which to base 3
are 0, 2 and 11: they differ in length as 8 and 16 do, 2 over 11 leaves 21, which
is 7, and a run that goes on from there skips the whole file.  A block of 16 bytes holds two headers exactly,
and an entry can end before, at and beyond the end.  In `groups` a place can be
the first and the last of its table (one table is exactly full) and of its
group.  In `analyze` a group has metadata, ordinary blocks and directories, a
command can stop in each of the steps of either group, and two commands are
one that is cut short and one that goes on from there or begins again; bytes of 3
bits do not end where groups do, and with one byte read at a time `grep` sees
every state of the file that there can be (a longer buffer sees older ones, which
the theorem covers).  In `each_line` a
line is shorter and longer than a block and can end anywhere in three.  In
`shell` the deepest directory is two names down, `MaxUp` (3) is more than that
and cuts only cycles short, and two processes are enough to read the file
between the two steps that write it.  In `edits` the buffer holds some of the
words and not all, an edit falls inside and outside it and between two others,
and a second session reads, searches or writes what the first has not written
back.  In `bootstrap` three starts are one that fails or is killed, one that
meets what it left, and one beside them.  The theorems below do not depend on
these numbers.

**Fairness.**  `FairSpec` assumes weak fairness of the step of one process: a
command that is not killed goes on, and a generator is asked for its next value.
`GrepSpec` assumes it of either process by itself, so that neither can keep the
other from its steps for ever.
Nothing is assumed of the user, who need not start, type or confirm anything, nor
of kills.  `Groups` and `Edits` have no liveness property and no fairness: the one
is walked to its end by construction, in the other every command waits for a
user.  `Analyze`, `Grep`, `Edits` and `Bootstrap` may stop: when the bound of
commands, sessions or starts is used up.

## Where the code and its documentation disagree

Three of these are runs, at the smallest instance that shows them:

- `each_block` stops after `block_count` pointers, holes included, while the
  field counts the blocks on disk (`inode.py:86`, `:180`): `each_block_sparse`.
- The status file is named by the inode only (`main.py:661`): `cp_dests`.
- `analyze` saves the count of groups before the result of the last one
  (`main.py:334`): `analyze_stale`.

Others were met while modelling.  They are in the models, as what the code does,
without a run of their own.

*Blocks and groups.*  Null indirect roots are followed into block 0
(`inode.py:210`), so a dense file that ends where an indirect tree would begin is
followed by words of block 0.  `is_super` takes the integer part of a floating
point logarithm, `log(125, 5)` is 3.0000000000000004 and `log(243, 3)`
4.999999999999999, so groups 125 and 243 are not known to have a superblock
(`block_group.py:18`; `README.md:152` records what the tool printed for group
243, where the descriptor says 0x798401 and the tool 0x798000).  The last inode is
refused (`superblock.py:319`: `id >= inode_count`, where ids begin with 1).  The
copies that `descriptors` prints include the descriptor itself (`main.py:92` says
they are in other groups).

*Files.*  `cat` prints up to a line more than the file, because `each_line`
bounds a read by what was not yielded (`inode.py:236`; `NeverFarBeyond` is the
most it can be), and `cat --size` may end in an error when a newline follows the
size it asks for (`FittingFilesAreRead` has the premise `Fits`).  `cp` places the
blocks after a hole one block early, because `each_block` drops holes although
`main.py:680` expects them.  Two runs of `cp` of one inode that have both opened the
status file before either writes leave a mix of two numbers when the shorter one
comes last (`main.py:689-690`; 8 over 16 is 86), and a run that goes on from that
skips blocks that nobody copied and returns without an error, although
`main.py:653` says that it copies the file.  TLC finds this on the instance of
the run `cp` when the copies of misled runs are counted as finished, too.  `cp` asks `dd` for a negative count when `each_block`
yields more than the file (`CountIsLegal` is stated for sound files).

*The shell.*  A lookup returns entries with inode 0, which `directory.py:96` calls
unused.  `cd` to a file, or to a number that is no inode, is saved, and from then
on no prompt can be computed: the shell ends (`main.py:737` is outside the
`try`), every later one does, and because a name is looked up before it is taken
for a number (`main.py:57`), in a directory whose first block is bad `cd 2` fails
as well, so that only removing `local/curpath.pickle` helps (`ShellLives` has the
premise `OnlyDirs`).  `cd` with an empty word compares an integer with a name and
fails.  `ls --depth` goes into files and leaves directories out (`main.py:247`,
although `main.py:199` describes layers of a directory), and its default is 1, not
the 0 of `main.py:198`.  Two shells share one working directory, so a command may
run elsewhere than its prompt says.  A directory whose name is not UTF-8 is shown
as `/b'..'`, because `name_utf8` returns bytes for it (`directory.py:107-112`,
`main.py:47`), and no word that can be typed is its name (`main.py:59`); what is
shown may even be the name of another entry.  Such a directory is reached by its
number only.

*analyze and grep.*  `analyze` ends at the first directory in use (`main.py:306`:
the iterator of a sequence takes no attribute).  A list of files that was cut
short is taken for done and never made again (`main.py:389`).  `grep` never fills
`found` (`main.py:359-377`), so it keeps an empty result, and a second `grep` of
the pattern shows nothing.  `GrepMissesNoData` has a premise, `ofThis`: before
`analyze` has saved its first number of groups the file may be one that an
earlier version left, whose marks are taken as they are.

*Edits and searches.*  The result of a search is kept and never made again, also
after `change_dir_entry` changed what it depends on (`main.py:550`), and is lost
when `local/search` or `local/isearch` does not exist, because nothing makes
them (`main.py:525`, `:563`).  A negative index of `change_block` shows one word
and writes another: one of the inode's other fields or, from -11 on, of the inode
before it (`main.py:595`).  `change_blkcount` always raises
`UnboundLocalError` (`main.py:612`).  Without `--write` an edit is asked for and
then fails (`main.py:598`).  `KeepsPromise` and `OwnEditsAreSeen` have the premise
`alone`: a second session that is open to write may write back what the first one
changed, and does in this model without it.

*The bootstrap.*  `abort` is called with the message alone (`cli.py:54`, `:58`),
which it takes for the environment to remove: the incomplete one stays, and the
next start uses it.  A start that is killed while `venv` runs leaves one without
a python, and the following starts execute the host's `python`, which starts the
program again, until `PATH` is too long (`StartsEnd` relies on that end).  A kill
between opening and writing the lock leaves an empty one, which counts
(`cli.py:52`).  `shutil.move` puts an environment into a directory that has the
name already (`cli.py:63`).  Two first starts at once can make one of them freeze
the packages of the host's python into the lock, or leave a mix of two lists there
(`cli.py:59`).  `VenvsAreWhole` and `StartsRun`
have the premise `calm` for these reasons: starts one after the other, none
killed, no installation failed.  `StaysSettled` has no such premise.

## What is proved

TLAPS checks these for all values of the constants, from the named assumptions
only.

- **LayoutProofs**, for `EachBlock`.  `TypeCorrect`, `YieldsCorrect`,
  `BoundedCorrect`: for any number of pointers and any content of the image, the
  ids yielded are data blocks, there are at most `block_count`, and the
  generators nest at most three deep.  `IInv` is the conjunction; the depth of
  frame *k* plus *k* never exceeds 3 because each frame starts only shallower
  ones.
- **LayoutProofs**, the order of the blocks.  `OrderCorrect` and `DenseCorrect`: what
  the generators yield is compared with what ext2 says the *n*-th block of a file
  is (`Logical`, by `\div` and `%`, with no stack).  The slots of `inode.block` and
  the suspended generators say where in the file the walk is (`Position`), and
  each generator is to yield exactly the part of the file that begins where it was
  started (`Covers`).  `OrderInv`: as long as no tree with a null root was entered,
  the blocks before `Position` were yielded, in order, and no others, or the count
  is reached and nothing more is yielded.  `DenseInv`: in a sound file without holes
  the count *is* the position, so it cannot be reached before the last block, and
  no pointer that the walk meets before it is null or refused.  That a pointer of a
  deeper generator leads to its part of the file is arithmetic (`DivModOf`,
  `BelowPointer`, `Bases`).
- **LayoutProofs**, for `Groups`.  `InodesCorrect`, `DescriptorsCorrect`: for every
  superblock whose groups have room for their metadata (`Roomy`, the premise of
  both properties) no two inodes share a byte, none is outside its table, and no
  descriptor shares one with the bitmaps or table of any group.
  They are arithmetic, not induction: an id splits into group and index
  (`IdSplits`), an index is inside the table (`InTheTable`), and tables of
  different groups are apart (`TablesApart`).  `DescTypeCorrect` and `CountCorrect`:
  on every image the walk over the descriptors counts each content as often as it
  is read; `DescInv` adds that a walk that reads descriptors is in a group that has
  them.  Which groups are super groups is never opened, so the theorems hold
  whatever the logarithm returns.
- **CopyFileProofs.**  `TypeCorrect` without assumptions.  Under `OneSoundCopy`
  (one destination; every file's blocks are all yielded, with nothing after
  them): `StatusCorrect`, `FinishedCorrect`, `CountCorrect`, and `Refinement`,
  that `CopyFile` implements `CopyPromise`, for any number of runs side by side.
  `IInv` adds what a run has reason to go by (`Behind`): that everything up to its
  `starti` and before its `i` is in place, whoever put it there; and that its
  `size` is what is left from `i` on (`Counts`).  Without it a status that was sound
  when it was read says nothing when it is used.  The theorems except the runs that
  are misled, and the status that goes back to a mix: of those nothing of the
  kind holds.  That the exception is no wider than it has to be is `NoneIsMisled`:
  where runs follow one another (`OneByOne`), killed anywhere, no number is ever
  mixed (`SavesAlone`), because a run writes into the file that it emptied itself.
  Of `Text` the proofs use that `int(str(i))` is `i` (`TextAssumption`).
- **DirBlockProofs.**  `TypeCorrect`, `AcceptedCorrect`, `IterCorrect`,
  `ScanCorrect`, `EditCorrect`: for every block size and every set of field
  values.  `IInv` adds that each entry visited leads to the next (`Chained`) and,
  as long as there is no error, fits (`Fitting`).
- **AnalyzeProofs**, for `Analyze`.  `TypeCorrect`, `ResultsCorrect`, `LostCorrect`,
  `MarksCorrect`, `FoldersCorrect`: for every layout of groups, every image and any number of runs,
  kills and interrupts.  The properties say nothing of a run under way, so
  `IInv` adds what one carries through the image: what it found and marked up to
  the block it is at (`FoundSoFar`, `MarkedSoFar`), that the bits it reads are
  whole and clean (`MapIsReady`), and that the groups it has behind it and that
  have no result were lost by runs before it (`LostSoFar`), so that its own loss
  is the one group between the two files.  That a block is looked at in exactly
  one group is arithmetic (`GroupOfBlock`, `ScanBegins`, `ScanEnds`).
- **AnalyzeProofs**, for `Grep`.  `GrepTypeCorrect`, `GrepCorrect`: with bytes of any
  width and any length of the buffer, beside any number of runs of `analyze`.
  `GrepInv` is `IInv` of `Analyze`, which a step of `grep` leaves alone, and
  `GrepIsClean`: once `analyze` had saved a number of groups, no data block is
  marked in the file that is open, though it be removed, nor in the buffer, nor
  in the byte that is looked at, and the data blocks behind were searched.
  `ProgressCorrect`: `grep` counts the blocks to search and then searches, while
  `analyze` marks blocks in between, so that the two numbers are not of one file.
  `ProgressInv` adds that the bits of a file only grow until it is replaced
  (`MarksGrow`), and that there is a set of as many blocks as were counted which
  has every block that was or can still be searched (`ToSearch`).
- **EachLineProofs.**  `FileCorrect`, `LossCorrect`, `ExcessCorrect`,
  `FitCorrect`, `LinesCorrect`: for every size of block, line and file, and
  newlines anywhere.  `IInv` adds `Accounted`: `size` is the file's less what was
  yielded, and as long as fewer bytes than the file's were read, they were read
  in whole blocks.  So a read in part is the last that touches the file, and a
  negative size means that every block of a file that fits was read.
- **ShellProofs.**  `LiveCorrect` and `DepthCorrect`: for any number of processes,
  any images, names and words.  For the first, `LiveInv` follows the inode number
  through all places where it is kept: the file, the variable of a `cd` under way,
  the walk of a prompt; each holds a directory, and from a directory of a sound
  image the walk goes to directories (`DirsSurvive`), so it never raises.  An
  empty file is the root, which is why a kill between `Open` and `Write` is
  harmless.  For the second, `DepthInv` adds that a process in `ls` has a call.
  `TypeCorrect` and `PathCorrect` open what lookups compute: a lookup finds the
  first entry of the name in the first block that has one (`FirstPlace`), in a
  sound image that is the only one (`SoundEntries`), so the name of a directory,
  typed in its parent, leads to it (`NameLeads`).  Only a name that is a string is
  shown as it is, and can be typed: `PathLeadsBack` has the premise `Legible`, sound
  images whose directories are named in UTF-8 (files need not be), and does not
  hold without it, as the image `illegible` of the run shows when it is dropped.  `PathInv` says of a prompt under
  way that the names it has collected lead from the directory it is at to the one
  it began with, whatever the shells beside it save meanwhile (`LeadsFurther`: one
  `..` more is one name more at the front).
- **EditProofs.**  `TypeCorrect`, `OwnCorrect`, `PromiseCorrect`, `ShownCorrect`,
  `ExplainedCorrect`: for any number of sessions, words, edits and directories,
  and any length of the buffer.  The refinement needs `StreamInv`: at most one
  session writes (`OneWriter`), and what it holds and did not change is what the
  image has (`BufferAgrees`), so that writing back a whole buffer changes nothing
  else.  With many writers that fails, and `ShownCorrect` rests on
  `CopiesExplained` instead: every copy of a word, in any buffer, is the one of
  the image at first or was confirmed.  For searches, `SearchInv` says that every
  copy is in the history of its word (`CopiesSeen`), and explains the entries
  behind the one that is looked at (`SearchedSoFar`).
- **BootstrapProofs.**  `TypeCorrect`, `SettledCorrect`, `WholeCorrect`,
  `RunsCorrect`: for any number of terminals and starts, every host and every
  length of `PATH`.  Once the lock and its environment are there and every start
  under way goes there (`Settled`), that stays so, whichever starts run side by
  side and are killed anywhere.  It rests on `StartInv`: until its environment has
  another name, a start has it first in `PATH` (`InPath`), so that the python it
  executes is that environment's; and only a start that saw no lock file writes one
  (`NoLockSeen`).  The other two have the premise `calm`; `CalmInv`
  says that one start at a time is under way and what it has made of its environment
  at each point of it (`Made`), everything else being whole or not there (`Tidy`).

`StatusIsSound`, `CountIsLegal`, `FoldersMeanList`, `PiecesAreLines` and
`LsWithinDepth` are stated as theorems only: the first two carry the proofs about
`cp`, the others are small properties that hold for every value of the constants.

Only model-checked is the liveness (`Terminates`, `RunEnds`, `WalksEnd`,
`CommandsEnd`, `BothEnd`, `StartsEnd`), because the prover does not handle
fairness.  Every other property of the runs that pass is a theorem.

## Not modelled

- The printing of structs and reports, the text of flags and enumerations: they
  keep no state and decide nothing.
- The one-off commands (`dotfiles`, `rootfiles`, `superblocks`, `descriptors`,
  `blkgrp`, `root_inodes`, `blk_data`, `blkls`): each prints once what the other
  components return.  The walk over the copies of the descriptors, which
  `descriptors` prints, is in `Groups`.
- `BitmapMem`, `DirIter` and the clearing of a bit: nothing constructs or calls
  them.  Whether an inode or a block is marked as free (`is_free`) is printed and
  decides nothing.
- The construction of the classes of `struct.py`: it happens once, when the
  modules are imported.
- The marking of blocks of files by `analyze` (`main.py:314-319`), which no input
  reaches.
- How `local/pruned.pickle`, which the searches read, comes about: nothing in
  the repository writes it.
