# Verification of motion-player-project

motion-player-project is the firmware of a music, picture and Motion-JPEG
player: an STM32F4 without an operating system, with an SD card, a touch panel,
a serial console and two DAC channels. Its difficulty is not in its algorithms
but in its control: one main loop, half a dozen interrupt handlers of four
priorities, and a few hundred global variables that all of them read and write.

This directory holds TLA+ models of that control, the TLC configurations that
check them on small instances, and TLAPS proofs of what matters most for every
instance. Every definition is a translation of the source at the lines that
`PROJECT.json` gives for it under `map`.

## Contents

1. The system
2. Modules
3. What each run checks
4. Bounds, and why they are enough
5. Fairness, and why the code justifies it
6. What is proved
7. Assumptions
8. Where the code departs from what it says
9. What is left out
10. The plan

To check everything by hand:

    tlc -config MCBrowserTouch.cfg MCBrowserTouch     (and so on for each cfg)
    tlapm BrowserProofs.tla                           (and the other *Proofs)

## 1. The system

### Who runs

| runs | priority (preempt) | what it does |
|------|------|------|
| main loop (`main.c:240-460`) | lowest | starts the players, polls `stop_mode`, `usb_msc_enable`, `waitExitKey` |
| TIM8, once a second (`main.c:40`) | 3 | dims the light, decides to sleep |
| EXTI9_5 (`sd.c:25`) | 3 | the card is pulled or inserted: resets the program |
| TIM2 (`xmodem.c:12`) | 2 | counts XMODEM's time-outs |
| EXTI4, TIM5 (`xpt2046.c`) | 0 | the pen comes down; its position, as long as it is down |
| TIM9 (`xpt2046.c`) | 0 | notices that the pen has been lifted |
| USART3 (`usart.c:18`) | 0 | a key of the serial console |
| DMA1 stream 1 (`sound.c`, `mjpeg.c`) | 0 | half of the sound buffer has been played |
| TIM1/TIM10 (`sound.c`), SDIO, DMA2 stream 3 (`sd.c`) | 0 | the spectrum's ticks; the card's transfers |

Handlers of one priority do not interrupt each other. Those of priority 0
interrupt everything else, and they do real work there: opening a directory,
reading the card, drawing the list, even sending the screen over the serial
line. There are no locks. What the handlers and the main program share they
share through plain variables, some of them bits of one byte.

### Components

**List and cursor** (`lcd.c`, `lcd.h`). State: `cursor.pos`, `cursor.pageIdx`,
`cursor.pages`, `fat.fileCnt`, and of the stroke under way the first and the
current line. Operations: cursor up and down, a touched line, the release, Enter.
Correct when the highlighted item is always an item of the list on the screen.

**Input handlers** (`xpt2046.c`, `usart.c`). State: the touch function, whether
the list accepts touches (`touch.repeat`), whether a position came in this tick
(`touch.update`). They call the list's operations, or those of a player, or only
set `waitExitKey`. Correct when no input opens a list under a player that is
using it.

**Main loop** (`main.c`). State: `waitExitKey`, `idEntry`, and the program
counter. It is told by the handlers which file to play, and runs the loop that
goes on to the next file.

**Directories** (`fat.c`). State: the current directory, `dirLevel`, the stack of
cursors, the stack of names for the title. Operation: `changeDir`. Correct when
".." goes back to the item it came through and the title names the list.

**Settings** (`settings.c`, `settings.h`, `lcd.c`). Constant tables of lists, a
stack of positions, sizes and titles. Same correctness as the directories. The
chosen values are kept in a sector of the processor's flash.

**Settings storage** (`settings.c`, `dojpeg.c`). State: one sector of the flash
(the settings, and the heads of two pictures), the settings in RAM, and the
buffers of the two programs that rewrite the sector: `SETTINGS_Save`, inside the
handler of a key or of the pen, and the picture viewer, which copies a picture
behind the lists or behind the music. Correct when a start finds what was saved,
and neither writer loses what the other stored.

**Directory lists** (`fat.c`). State: the places of the entries to be shown
(`pfileList`), the counters and the linked list of the sort, and the cache of the
cluster walked to last (`fat.cache`). Correct when every entry is listed once, in
order, and found again on the card.

**Files** (`fat.c`). State of an open file: position, cluster, sector, and the
gaps of its cluster chain, found once when it is opened. Operations: open, close,
seek, read. Correct when a read gives the bytes of the file.

**Music loop** (`main.c`, `sound.c`). State: the loop mode, the shuffle table and
its flags, what the last player returned. Correct when it stays on the list,
shuffles without repetition and ends with the right item highlighted.

**Picture viewer and photo frame** (`main.c`, `dojpeg.c`). State: which arrows the
picture has, whether a frame runs, the user's time to sleep, set aside in a local
variable. Correct when it decodes pictures only, shows all of them, and gives the
time back.

**Back light and sleep** (`main.c`, `xpt2046.c`, `lcd.c`). State: two 16 bit counts
of seconds, three flags in one byte, the back light, the pen's interrupt mask.
Correct when the unit sleeps only after the chosen time, does sleep then, and can
be woken.

**Screen dump** (`xmodem.c`). A sender of the XMODEM protocol, run inside the
console's handler. Correct when the receiver gets the picture, whatever the line
loses.

**Movies** (`mjpeg.c`, `sound.c`). State: row, chunk and sample of the frames and
of the sound, two counters of chunks, what the sound's handler has read of its
chunk, and what the pen has done in the pause. Correct when frames and sound are
read from where their counters say and a seek brings both to the same chunk.

**Other sound and decoders** (`sound.c`, `mp3.c`, `aac.c`, `fx.c`, `fft.c`). A
double buffer refilled from the DMA handler.

**SD card, USB, fonts, drawing, memory pool, start-up**. See section 9.

### How they meet

    console, pen ──> list & cursor ──> directories / settings ──> card
         │                 │ Enter on a file: idEntry, waitExitKey
         │                 v
         │            main loop ──> music loop / picture viewer / font
         │  'e', keys:     │  │          │ loop icon, arrows, play
         └─ waitExitKey ───┘  └── stop_mode <── TIM8 (sleep)
         'p': screen dump (inside the handler)

### What is hard

* a handler changes the list between two steps of the loop that uses it;
* the touch that starts a player is still being timed when the player runs;
* `time.flags` is read, changed and written by three priorities;
* TIM8 decides in one instruction and acts in a later one, and the pen comes in
  between;
* stacks of parents have to follow every way down and every way back;
* a file's gaps are found once and then trusted by every seek;
* two programs rewrite one sector of the flash, which can only be erased as a
  whole, and the power may go in between;
* frames and sound are counted in two places, by the main loop and the handler,
  and a seek sets both by hand;
* a list is sorted by exchanging entries in place, and looked at while a walk for
  another entry is under way;
* acknowledgements of XMODEM carry no number;
* counters of 8 and 16 bits begin again.

`PROJECT.json` lists these under `hazards`, each at its line, with the property
that would catch it going wrong or a note why none does.

## 2. Modules

One module models one component, with the code's names where TLA+ allows them. A
handler that nothing can interrupt is one action, with every call it makes; code
that can be interrupted is one action per stretch between two points where an
interrupt matters. What is drawn, printed or computed on samples is left out.

| module | extends | models |
|------|------|------|
| `Cursor` | | `cursor`, `LCDCursorUp`, `LCDCursorDown`, `LCDTouchPoint` |
| `DirNav` | `Cursor` | `changeDir`, its two stacks, the counts `makeFileList` leaves |
| `SettingsMenu` | `DirNav` | the settings branch of `LCDCursorEnter`, `settings_stack` |
| `SettingsTable` | | the program's own settings lists, as data |
| `Browser` | `SettingsMenu` | the handlers of console, pen and TIM9, and the main loop around them |
| `PathNav` | | abstract: a path in a tree of lists |
| `BrowserNav` | `Browser` | the refinement mapping from `Browser` to `PathNav` |
| `Playlist` | | `PlayMusic` and the music loop of `main.c` |
| `PhotoFrame` | | `dojpeg` and the picture loop of `main.c` |
| `FatFile` | | `my_fopen`, `my_fclose`, `my_fseek`, `my_fread`, `getNClusterCache` |
| `Sleep` | | TIM8, the pen's interrupt mask, the stop mode, the players' writes to `time.flags` |
| `Xmodem` | | `xput`, with a receiver and a line as its environment |
| `SettingsStore` | | `SETTINGS_Init`, `SETTINGS_Save`, the copy of a picture, the flash and its loss of power |
| `MovieSync` | | `PlayMotionJpeg`, `mjpegPause`, `mjpegTouch`, `DAC_Buffer_Process_Stereo_S16bit` |
| `DirList` | | `makeFileList`, `sortListEntryPoint`, `getListEntryPoint`, `setLFNname`'s way to the parts |
| `BrowserProofs`, `PlaylistProofs`, `PhotoFrameProofs`, `SleepProofs`, `XmodemProofs`, `SettingsStoreProofs`, `MovieSyncProofs`, `FatProofs` (`DirList` and `FatFile`) | the model | theorems |
| `MC...` | the model | the instance a run checks |

### State and actions against the code

**Browser.** A directory is named by the item numbers that lead to it from the
root; a settings list by its name in `settings.c`. `main` is the program counter
of the main loop: `"loop"` (`main.c:240`), `"player"` (a player runs), `"between"`
(a player has returned, the loop around it still goes on), `"font"` and `"listed"`
(the font branch, before and after the list is printed), `"usb"`. A pen that stays
down keeps the processor in TIM5's handler, so nothing but `PenSample` and `PenUp`
happens until it is lifted; the 50 ms of debouncing are part of `PenDown`. Each
handler's `Enter` has the three outcomes of `LCDCursorEnter`: a settings entry, a
directory, a file. Where the code would read an item behind the end of the list,
or write behind the name stack, the model has no step.

The player that Browser calls is a black box: it returns, it may have made a
shuffle table, and the loop goes on with an item of the list or one step off it.
`Playlist` and `PhotoFrame` show that this is what the two loops do, with one
exception that Browser leaves out: in shuffle mode a broken movie sends the cursor
to what an unused entry of the table holds.

**PathNav** says what the browser promises, without stacks: the screen shows a
list and highlights an item; every list on the way remembers which of its items
was opened; going back shows the parent with that item highlighted. `BrowserNav`
reads the path off both stacks (`DirPath`, `SettingsPath`); a settings list is named
by the entries that lead to it, and `Ways` finds the list behind such a path in the
tables.

**Playlist.** `main` is `"call"` before `PlayMusic`, `"player"` in it, `"returned"`
after it; the loop's round (`main.c:296-341`) is one action with five cases, by
what the player returned. `rand_table` holds any permutation the rejection loop of
`make_shuffle_table` can end with. Observers (`moves`, `steady`, `plain`, `broken`,
`heard`) record what happened and influence nothing.

**PhotoFrame.** `dojpeg` is split where it waits: decoding, the delay of a frame,
the wait for a touch, and the touch that chooses where to copy the picture.

**FatFile.** A byte is its address on the card, so that what a read leaves in the
caller's buffer shows where it came from. `RoundsBefore` counts the rounds of
`my_fopen`'s scan, each of which ends at a gap or at the end of a FAT block.
`Walk` is the loop of `getNClusterCache`: what is left to go at each gap (`left`), and
the first gap at which it ends (`stop`); the unsigned subtraction it makes behind the
last gap is kept. Its specification is called `FileSpec`, so that it can be
extended next to `DirList`, the other half of `fat.c`.

**Sleep.** `tim8` is the program counter of TIM8's handler, between whose loads
and stores the pen and the console can come. `reg` is the flags byte as the main
program has loaded it; until it stores the byte every handler can come between.
The movie player stops TIM8 and turns the pen's interrupt on and off itself.

**Xmodem.** `SendBlock` is the block from SOH to its check, `WAIT_ACK` the switch
after it, `NextBuffer` the loop of `xput`. The receiver takes what the protocol
says, may ask again at any time (`Impatient`), and may be stopped by its user. The
line loses and garbles what is on it, and the USART's data register holds one
byte. Blocks carry their place in the picture (`id`), which nobody looks at, to
tell what arrived.

**SettingsStore.** The sector is a function from cells (one setting, or the head
of one picture) to the sets of bits that are set in them; programming intersects,
erasing sets all. The code programs one or two bytes at a time
(`settings.c:638-642`, `dojpeg.c:423-427`): `SavePart` and `CopyPart` leave a cell of
several bytes with its last bytes erased (`Rest`), `SaveWrite` and `CopyWrite` finish
it. The model may tear every cell where a byte would, which includes where two
bytes would. `saving`/`si` and `copying`/`ci` are how far each writer has
come; the power may go at any step (`Off`), and `Restart` is `SETTINGS_Init` on
what is left. A save runs inside a handler, so the viewer's copy waits for it, but
it may begin between any two operations of the copy. `want` is what the sector
should hold when nobody writes.

**MovieSync.** `main` says where the main program is: at the head of the loop over
chunks, before a frame is decoded, at three places of the loop that waits for the
frame's time, at two places of the loop of the pause. The handler may come at any
of them when its interrupt is on. `video` and `sound` hold the locals `i`, `j`, the
row of the table, the entries gone by and the two counters; `at` and `off` say
where the file pointers really are, which is what the counters are compared with.
`sought` remembers where a seek has sent both until they are there.

**DirList.** A directory is its entries in the order of its clusters. The scan,
each exchange of the sort, and each step of a walk for an entry are actions; a look
from a handler is one step and may come into a walk of the main program
(`alone` records whether it did).

## 3. What each run checks

| run | states | shows |
|------|------|------|
| `browser_touch` | 1 200 000 | With the panel alone: both stacks are the path, the title names the list, no list is opened under a player, and **the browser implements `PathNav`**. |
| `browser_console` | 650 000 | Panel and console at once, in every step of the players' loops: cursor, counts and shuffle table. |
| `name_stack` | violation | see section 8 |
| `playlist` | 1 300 000 | `EntryOnList`, `ShufflePass`, `RightTrack`; under fairness `EndsByItself`. |
| `photo_frame` | 37 000 | `PictureOnList`, `SleepGivenBack`; under fairness `EveryPictureShown`. |
| `fat_file` | 76 000 | `PositionIsTrue`, `ReadsFile`, over every chain, size, seek and read within the bounds. |
| `fat_small_read` | violation | see section 8 |
| `sleep` | 335 000 | `DimIsKnown`, `Wakeable`, the action property `IdleBefore`; under fairness `SleepsAtLast`. |
| `xmodem` | 33 000 | `InOrder`, `NoneSkipped`; under fairness `EndsWhenClean`. |
| `settings_store` | 1 180 000 | `ValidSettings`, `StoreIsTrue`, the action property `RestartFinds`: after any loss of power a start finds each setting that is checked old, new, default or what an erased one stands for; the calibration, which nothing checks, may have lost its last bytes but has none of another. |
| `movie_sync` | 310 000 | `VideoInPlace`, `SoundInPlace`, `BothLand`; under fairness `EndsByItself`. |
| `dir_list` | 870 000 | `ListedOnce`, `Arranged`, `EntryFound`, over some 860 cards. |

The properties are stated in words above their definitions. Some of them carry
exceptions, and these are worth reading: each is a behaviour the model found, and
the code has.

* `CursorOnItem` excepts a list opened by a key while a player was returning
  (`stray`): the loop then puts the cursor on an item number of a list that is no
  longer on the screen.
* `RightTrack` excepts loops in which the user switched the shuffle on or off, and
  the first item of a shuffle, which is taken for an index of the table when the
  loop ends at once (`main.c:330-332`).
* `ReadsFile` excepts the small read of section 8.
* `DimIsKnown` excepts a flag lost between the load and the store of the main
  program (`lost`); `Wakeable` a touch that came too late (`caught`).
* `VideoInPlace` and `SoundInPlace` except what follows a pause that returned 0
  though the pen had moved the movie (`slipped`); `SoundInPlace` also a handler that
  read on when its chunk was over (`late`) and the sound after its last chunk.
* `EndsByItself` of `MovieSync` excepts a user who keeps his hand in it, a card so
  slow that frames and sound are brought together again for ever, and the walk to a
  chunk 0 (`Lost`), which may not end. The user comes there by pointing at the first
  chunk; without him, a movie does whose frames and sound are two chunks apart while
  one of them is still in its first (`mjpeg.c:1223`).
* `RestartFinds` promises less of the calibration (section 8) than of the others.
* `StoreIsTrue` and `RestartFinds` except a save that comes into a copy of the
  viewer (`met`): each then writes over what the other has just programmed.
* `Arranged` excepts the order by name in directories whose clusters do not follow
  each other, where a long name over the end of a cluster is read wrong.
* `EntryFound` excepts a walk a handler came into (`alone`), and what a list made
  in the middle of a walk leaves in the cache (`mixed`).
* `NoneSkipped` excepts a receiver that asks again while an answer is under way
  (`crossed`); the ACK of a block that came twice is then taken for the next one's.

Each property is also tried against a mutant: a definition next to the original,
with `Mutant:` in its comment, changed as a plausible mistake in that code would
change it. Every property fails on its mutant.

## 4. Bounds, and why they are enough

* **Browser.** `browser_touch`: two lines to a page, lists of 1 to 4 items, so that
  there are one-page, full-page and two-page lists; directories two deep on two
  branches, so that ".." has a root and a directory to go back to; settings lists
  three deep. `NameSlots` stops the model one push after the stack is as deep as
  the tree. `browser_console`: one directory, both devices. That the program's own
  settings tables satisfy the model's assumption on tables is an assumption of
  `SettingsTable`, which TLC evaluates. Larger instances add lists, not kinds of
  steps; the theorems cover all of them.
* **Playlist.** Three items are the fewest for which a shuffle can repeat wrongly
  and not only swap. `TABLE_SIZE` 5 leaves one entry behind the list that belongs
  to no item.
* **PhotoFrame.** Every list of up to four items of three kinds: a picture with and
  without neighbours, unreadable ones in every place.
* **FatFile.** Clusters of two sectors of two bytes, FAT blocks of two entries,
  every chain of at most four of five clusters: no gap, gaps in both directions,
  three gaps; every size within the last cluster; reads up to 10 bytes, longer
  than two clusters with a rest at both ends. An offset in a cluster is in one of
  four places: first or last sector, aligned or not; all occur.
* **Sleep.** `W` 4: the counter wraps after eight seconds, with two to sleep and one
  to dim, so that all of it fits several times between two wraps.
* **Xmodem.** Three buffers of two blocks; `seqno` wraps after four blocks, one
  more than the proof needs; the real limits of the retries are 5
  for the receiver's request, 50 for its answer and 20 for the blocks sent again
  (`xmodem.h:21-30`), here 1, 2 and 3, so that each can run out alone.
* **SettingsStore.** Three bits to a cell, so that two values of a table can have
  bits in common that are none of its values: when a save meets a copy,
  `ValidSettings` rests on the check at the start. One setting of each kind: two
  calibrations, taken as they are, of which the last third can be missing; the time
  to sleep, which the viewer sets aside; the look of the bars, which the player
  changes in RAM only. Three settings and two heads make five cells, enough for a
  loss of power before, in, between and after the cells of either writer. There is
  one picture: that an old one never comes back for a new one, and that a number of
  several bytes that is checked (`baudrate`, `brightness`, `freq`) falls back to its
  default when it is torn, is left to the theorems.
* **MovieSync.** Six chunks, so that a seek finds chunks on both sides of a new row
  and outside the last two, which the code treats apart; frames: two chunks of one
  and four of two, sound: four of one half of the buffer and two of two. `LATE`
  halves (1) may be read when a chunk is over. `Pointed` are the chunks of the
  positions 8 to 319; a position below 8 stands for chunk 2, since chunk 0 leads
  out of the model. The pause is entered again until the sound has been found over
  twice, and not after a pause that left the counters wrong.
* **DirList.** Two entries to a sector and three sectors to a cluster, long names of
  at most two parts: a name can lie in one sector, over the end of a sector, and
  over the end of a cluster. Roots of up to three items, directories of up to four
  in two clusters that do or do not follow each other, and two larger directories
  to go to and fro, of three clusters and of two.

## 5. Fairness, and why the code justifies it

* `Playlist`, `PhotoFrame`: weak fairness of the main program's steps. It is always
  ready to run when no handler does, and handlers end. A file has an end; a paused
  player is resumed or left (`SomePlayerReturns`). Nothing is assumed of keys and
  touches.
* `Sleep`: weak fairness of TIM8 and TIM5, which are clocks; strong fairness of the
  main loop, because TIM8's handler takes it away again and again, but for less
  than a second each time. Players may run for ever.
* `Xmodem`: weak fairness of the sender, which runs; of a receiver that is there,
  and of its time-out. The line owes nothing: a property that needs a good line
  says so (`clean`).
* `MovieSync`: weak fairness of the main program, which runs when no handler does,
  and strong fairness of `NextFrame`: the timer of the frames is a clock, and the
  flag it sets stays set until the loop looks at it, however many corrections the
  loop makes before. Nothing is assumed of the handler or of the user.
* `Browser`, `FatFile`, `SettingsStore` and `DirList` state no liveness.

## 6. What is proved

TLAPS checks these for every value of the constants that satisfies the
assumptions of section 7. In each module an inductive invariant is defined first,
one lemma per group of actions shows that it is kept, and the theorems follow.

* `BrowserProofs` (`IInv`): `CursorStaysOnItem`, `DirStackIsPath`,
  `ListCountStaysCurrent`, `ShuffleTableKeepsList`, `PlayerListIsKept`,
  `SettingsStackIsPath`, `HeaderIsName`, `BrowserTypes`. None of these is
  inductive. The cursor comes back to its list only because every saved cursor was
  on that list when it was saved (`DirInv`, and `SettingsInv`, which says that some
  path through the tables explains the settings stack) and because a list was not
  exchanged under a player, which is a property of touch, timer and main loop
  together (`KeepInv`). The title needs two more: the names on the stack are those
  of the way, with whatever earlier visits left below them (`NameInv`), and the
  settings' way is one through the tables (`WayInv`).
  `ImplementsPathNav` is the refinement, for every card and every settings table,
  without a console (`~Serial`): the console's CURSOR_LEFT takes item 0 from
  wherever the cursor is, and its Enter can open a list under a player (`stray`).
  What is shown is always a list of the tree with as many items as the screen has
  (`ShownInv`): in the settings because a path has one way through the tables
  (`OneWay`) and because no directory is behind item 0 of the root
  (`SettingsApart`). Each `Enter` is then `Open`, `Back` or a stutter, and every
  other step a `Highlight` or a stutter, since a finger does not move the cursor
  while a file is in use (`KeepInv`).
* `PlaylistProofs` (`LoopInv`, `TrackInv`, `PassInv`): `LoopStaysOnList`,
  `LastTrackIsHighlighted`, `EachItemOncePerPass`. The last is the hardest: the
  shuffle walks the table cyclically, so what was heard must be the table's items
  just behind the index, in order; `PassInv` says so for the first, the second and
  every later round.
* `PhotoFrameProofs` (`PictureInv`, `SleepInv`): `OnlyPicturesAreDecoded`,
  `SleepIsGivenBack`.
* `SleepProofs` (`IInv`): `SleepTypes`, `DimLightIsKnown`, `SleeperIsWakeable`,
  `SleepsOnlyWhenIdle`. `PenInv` ties the pen's mask to the
  50 ms of TIM5 and to where TIM8's handler is.
* `XmodemProofs` (`CountInv`, `OrderInv`, `StepInv`): `SenderAndReceiverAgree`,
  `PictureInOrder`, `NoBlockSkipped`. `OrderInv` bounds how far sender and receiver
  are apart: one block either way. So three sequence numbers tell the blocks apart
  (`Which`, from `ModSame`), and the wrap of the byte does no harm.

* `SettingsStoreProofs` (`TypeInv`, `SaveInv`, `CopyInv`, `StoreIsTrue`):
  `SettingsAreValid`, `SectorIsTrue`, `NothingMixed`, `StoreTypes`. The invariant
  says of every cell whether it still holds the old contents, is erased, begun
  (`Begun`), or holds the new ones, by how far the writer has come; the order in
  which the cells, and the bytes of a cell, are written is what makes this
  inductive. A torn number is in no table (`TornIsDefault`); a torn calibration is
  what `NothingMixed` says of it.
* `MovieSyncProofs` (`TouchInv`, `SoughtInv`, `RowInv`, `PlaceInv`, `VideoInv`):
  `SeeksLand`, `SoundIsInPlace`, `VideoIsInPlace`. Between a seek and the next chunk
  every one of the counters is wrong on purpose: two below, one below, or about the
  chunk before, whose row is the one found. `IInv` says by how much, in each state
  of the main program and of the pause. For the frames the walk over the table that
  a seek makes (`prevChunkSamples`) has to equal the sum of `VideoInPlace`, in which
  the chunks of a row count as often as they occur (`WalkIsSamples`).
* `FatProofs`, about `DirList` (`LInv`, `RInv`, `SInv`): `EachEntryListedOnce`,
  `EntryIsFound`, `ListIsArranged`. Each exchange is between two places of the list,
  behind the top and within its group; the linked list of extensions is an order of
  those places, so the group sort loses none. `EntryFound` needs that the cache is
  either about this directory or marked. That the sort sorts (`ListIsArranged`) is
  the longest argument here. While the list is made the cache is true, so the names
  and kinds that are read are those of the entries (`ReadTrue`, `NameTrue`: a part
  of a long name in another sector is found because clusters that follow each other
  on the card do so in the directory). The number of directories is counted rightly
  (`NumberInv`), so that when that many places are filled the rest of the list holds
  files (`RestAreFiles`, by counting), and a collection that has come to its end has
  filled them all (`PlacesAreFull`). A pass of the bubble sort carries the largest
  name it has met (`PassInv`), so that what is behind the area's end is in place;
  when the end meets the beginning the group is in order. The groups are those of
  equal extension because the list of extensions is sorted and a group ends where
  the extension changes (`FilesInv`, `GroupIs`).
* `FatProofs`, about `FatFile` (`FInv`): `FileInvariant`, `PositionStaysTrue`,
  `ReadsStayTrue`, `ReadsFollowEachOther`. The invariant says that an open file is
  at its position (`At`), that the gaps kept for it are all that its chain has, and
  that the last read gave what it should. Three steps lead to it. `my_fopen` finds
  every gap, because it makes at least as many rounds as the file has clusters
  (`ScansEnough`, `FoundAll`). Between two gaps the clusters of the file follow each
  other, and no cluster of one such run is in another since the chain visits none
  twice (`InSegment`), so the walk of `getNClusterCache` from gap to gap comes to
  the cluster the chain says (`ClusterIs`); where it starts behind the last gap the
  unsigned subtraction lets it through (`WalkBehind`). And a read of whole clusters,
  whole sectors and a rest, each begun at its position, gives the next bytes of the
  file (`WholeDid`, at the least cluster where it would not), while the read of two
  sectors does so unless a gap lies between (`TwoSectorsRead`).
  `ReadsFollowEachOther` adds what no run states: a read gives as many bytes as it
  should, so that `ReadsFile` is not about an empty buffer.

Types are proved with `SleepTypes`, `BrowserTypes`, `StoreTypes`,
`XmodemTypes`, `PlaylistTypes` and `PhotoFrameTypes`.

Where a fact is about all rows of a table or all places of a list, and the models
define it by `CHOOSE`, the proofs take the least counterexample instead of an
induction: a set of natural numbers that is not empty has a least element
(`LeastNat`, from `WFMin` and the well-foundedness of `<`). Two recursive functions
that should agree are treated likewise: at the least number where they differ,
their definitions give the same value.

Only model-checked: every liveness property (`EndsByItself` of `Playlist` and of
`MovieSync`, `EveryPictureShown`, `SleepsAtLast`, `EndsWhenClean`), which the
prover cannot do under fairness. Every invariant and every action property that a
passing run checks is also a theorem.

## 7. Assumptions

Each is named in the module that declares the constants, and TLC evaluates it in
the runs.

* `TreeAssumption`: directories are behind items other than item 0; no path is
  longer than the cursor stack (32); no list has more than 256 pages, since
  `changeDir` keeps the page in a byte.
* `MenuAssumption`: every settings list is as long as the entry that leads to it
  says, ".." leads back, and no list is deeper than the stack. True of the
  program's tables (`TableAssumption` of `SettingsTable`).
* `PageAssumption`, `InputAssumption`: there is a line on the page; there may be a
  panel and a console.
* `ListAssumption` (`Playlist`): a list fits the shuffle table of 256 entries. The
  code does not check this: with more than 255 items the rejection loop of
  `make_shuffle_table` writes behind the table or does not end.
* `ListAssumption`, `MaxLenAssumption` (`PhotoFrame`): lists are not empty.
* `DiskAssumption`: a chain visits no cluster twice; a FAT block is no longer than
  a cluster. With clusters of 64 KB `bytesPerCluster`, 16 bits wide, is 0.
* `TimeAssumption`: a time to sleep is 0 or at least two seconds and within the
  counter. The real ones are 0, 15, 30, 45 and 60.
* `XmodemAssumption`: there are at least three sequence numbers.
* `SettingsAssumption`: the default of a setting is in its table, and 0 is a time to
  sleep. `RestAssumption`: the bytes of a cell are written one after the other, and
  a checked number with its last bytes erased is in no table. The settings of
  several bytes are `freq`, `baudrate` and `brightness`, of four each, and the last
  byte of all their values is 0; the others have one byte. The model adds that the
  power goes between two operations of the flash, not within one, that a handler
  comes into the copy only between two of them, and that no key is pressed during
  the calibration at the start.
* `MovieAssumption`: a table of chunks begins with chunk 1 and its rows ascend; what
  is read behind the last row is more than the number of chunks: in the file it is
  the type and the length of the next atom.
* `CardAssumption`: a directory has an empty entry behind its last one; the second
  entry of every directory but the root is ".."; the root is within one cluster.
  `SECTORS` divides into the buffer of four sectors.

## 8. Where the code departs from what it says

Shown by a run each:

* `name_stack`, `fat.c:972`. `changeDir` pushes a name for every subdirectory but
  pops none on the way back to the root. After 64 visits of a first-level directory
  the next push writes behind the stack, though the comment (`fat.c:917`) speaks of
  a nesting of 32 and the depth never exceeds 1.
* `fat_small_read`, `fat.c:895`. `++seekSector > sectorsPerCluster` is never true
  (`>=` would be). A read of at most 512 bytes that starts in the last sector of a
  cluster and ends behind a gap takes the physically next sector. The comment on
  the line says the branch is for that case.

Visible in the models, without a run of their own:

* `xpt2046.c:65`: a touch between TIM8's decision to sleep and its store of
  `stop_mode` turns the pen's interrupt off and starts TIM5, whose clock then stops;
  no touch wakes the unit (`caught` in `Wakeable`). The branch exists to keep the
  pen alive.
* `xmodem.c:121`: the call that computes the CRC is commented out, and with it the
  body of the loop; a receiver that asks with 'C' refuses every block whose CRC is
  not 0 (`ZeroCrc`).
* `xmodem.c:225` ignores what `xmodem_transmit` returns: after the receiver's CAN
  the next buffers are sent all the same (`GiveUp`, `given` in `InOrder`).
* `xmodem.c:33`: TIM2 has a lower priority than the handler that waits for it, so
  no wait of `usart_polling_timeout` times out. Without a receiver, or if the EOT
  or its ACK is lost, the unit hangs in the handler.
* `main.c:66`: the counts of seconds have 16 bits; when they begin again, after nine
  hours, a unit touched a second ago sleeps at once (`Wrapped`).
* `main.c:62-73` reads `time2sleep` three times; choosing "Always ON" in between is
  a time that is over at once.
* A touch between the store of `stop_mode` and the main loop's look at it does not
  call the sleep off (`main.c:245`).
* `dojpeg.c:49-53` sets `time2sleep` to 0 while pictures are shown ("prevent to
  sleep during photo frame process") and puts the old value back at the end. A
  setting saved by key meanwhile stores the 0 with it (`settings.c:636`), and a time
  chosen meanwhile is replaced in RAM, though not in the flash, at the exit.
* A setting chosen by key while the viewer copies a picture (`dojpeg.c:407-437`): the
  copy programs its older settings over those just programmed, and each cell keeps
  the bits both have (`met`).
* `settings.c:638-642`, `dojpeg.c:423-427`: a loss of power within the 40 bytes of the
  calibration leaves the last of them erased, and `SETTINGS_Init`, which checks every
  other setting, takes it as it is (`Found`). Until the user calibrates the panel
  again, touches are placed by it.
* `mjpeg.c:630-670`: when the pause ends before its loop has noticed that the pen
  moved the movie, `mjpegPause` returns 0, and the main loop does not take up the new
  counters ("normal return(not seeked)", 1265 and on): both are off by two for the
  rest of the movie (`slipped`).
* A touch of the close icon between the loop's test of `done` and `id = 0` is
  forgotten (`mjpeg.c:631-647`, `TakePointed`).
* A position within the first chunk is chunk 0, which is before the table; so is the
  correction of a mismatch in it, which comes about without the user. The walk over
  the rows (`mjpeg.c:375-387`) then finds no run with that chunk, goes on behind the
  table, and may not end (`TouchSeek`, `Resynch`, `Lost`).
* `samplesSound` counts samples after a seek and chunks after a row
  (`mjpeg.c:1028`, `515`, `1244`), so a new row of the sound is taken up one chunk
  late after some seeks; the model has this and no property forbids it, since with
  the tables of real movies the row says the same.
* The handler of the sound reads on beyond its chunk when the main loop is late
  (`sound.c:117`, `late`), and `sound_reads` begins again after the file has been
  moved, with the interrupt on (`mjpeg.c:1241-1243`).
* `fat.c:200` reads the sectors before an entry's own as if the directory's clusters
  followed each other, so a long name over the end of a cluster can be read from
  another directory (`Part`, `Followed`).
* `fat.c:394` writes the cache before the walk has arrived, and a list made in the
  middle of the walk leaves it about the old directory (`alone`, `mixed`).
* A movie started with `stop_mode` set has a dead panel, since EXTI4's handler
  returns before it starts TIM5.

## 9. What is left out

* What another list does that a key opens over a running music or picture loop:
  `Browser` has the step and marks it (`stray`); `Playlist` opens files only,
  `PhotoFrame` nothing.
* The second shuffle oddities: shuffling entered in the middle of a list may play
  the item just heard (`sound.c:1275-1284`), and `prevRet` is kept in 8 bits between
  sessions; both are in the model but promised by nothing.
* An 'e' that comes just when a file has been read to its end is taken for the end
  of the file (`sound.c:967`): `PlayerReturns` has both outcomes.
* Lists of more than 2304 items (`fat.c:981`); seeks before the start of a file
  (`mp3.c:298` on files of less than 128 bytes); the upper four bits of FAT32
  entries; copies of an open file, which share its gaps; a card that fails to
  answer.
* Movies: what is read around a chunk 0 or behind the last row of a table; the
  times of the frames, which are only compared; `prevSamplesBuff`, whose 60 entries
  more rows than that overflow (`mjpeg.c:1153`); parsing the atoms of the file.
* Lists: the characters of a name and its length; that a name beginning with 0x05 is
  taken for deleted; `fat.currentDirCluster`, which is not set for the root, so that
  a FAT32 root of more than one cluster ends after the first; clusters of fewer
  sectors than the buffer's four; the look-up by name (`getIdByName`).
* Settings: the id of the selected entry, which follows from its value; the pointer
  of the calibration.
* That a half of the sound buffer is refilled before it is played (`sound.c:149`):
  a matter of the card's time, of which the code takes no notice.
* The card's driver (`sd.c`): it keeps interrupts off for a whole transfer, gives up
  after a count, and returns 0 whatever happened, so its callers cannot tell; the
  models read a card that answers. Pulling the card resets the program.
* The other players' own seeks and fades are arithmetic on samples.
  Decoders, effects, fonts, drawing, USB, start-up: third-party, arithmetic or
  output. The vendored code is more than nine tenths of the repository's lines.

## 10. The plan

Order is by what can go wrong most.

Done: `Browser` with `PathNav`; `Playlist`; `PhotoFrame`; `FatFile`; `Sleep`;
`Xmodem`; `SettingsStore`; `MovieSync`; `DirList`; the proofs of section 6.

What would come next, models:

1. `DacBuffer` (`sound.c`): the two halves of the buffer and the fade at a pause, for
   the WAV, MP3 and AAC players.
2. `SdCard` (`sd.c`): a transfer that fails without its caller being told.
3. Movies as the file has them: a chunk 0 and rows behind the last one.

Proofs:

1. The progress each liveness property rests on, as action properties: what comes
   nearer to its end in every step of the loop (`EndsByItself`, `EveryPictureShown`),
   which needs no fairness.
2. That no loop stops where nobody can go on, which TLC checks as the absence of
   deadlock, as an invariant that names for each state an action whose guard holds.
