---------------------------- MODULE MemoryImage ----------------------------
(***************************************************************************)
(* The memory image cache of cmds.py (Cmd.memory_image, initMemoryImage,   *)
(* refreshMemoryImage and getMemoryImage, lines 77-78 and 119-155), used   *)
(* by "dumpmem" and "searchmem".  The image lives as long as the CLI       *)
(* process; the ROM template "_memdump_template.bin" lives on disk across  *)
(* processes, and the controller's RAM changes all the time.  A process    *)
(* may end between any two steps (Ctrl-C, a crash, or a normal exit when   *)
(* idle), and the next one may be connected to another chip.               *)
(*                                                                         *)
(* A section's content is abstracted to the chip it was read from and, for *)
(* RAM, the version of the controller's RAM it was read at; "aligned" is  *)
(* FALSE for an image built from a truncated template, whose slices no     *)
(* longer sit at their sections' offsets.                                  *)
(***************************************************************************)
EXTENDS Naturals, Sequences

CONSTANTS
    Layout,     \* fw.SECTIONS, each "ROM" or "RAM", in list order
    Chips,      \* the targets a process may be connected to
    MaxEpoch,   \* bound on the versions of the controller's RAM
    Crashes,    \* whether a process may end in the middle of a command
    DiskFull,   \* whether writing the template may fail
    None,       \* Python's None
    Absent      \* no template file on disk

ASSUME ConstAssumption ==
    /\ Layout \in Seq({"ROM", "RAM"}) /\ Len(Layout) > 0
    /\ Chips # {}
    /\ MaxEpoch \in Nat
    /\ Crashes \in BOOLEAN /\ DiskFull \in BOOLEAN

Secs == 1..Len(Layout)

\* What a section of the image holds: whose memory, read at which RAM version.
Content == [chip : Chips, epoch : 0..MaxEpoch]

Image == [content : [Secs -> Content], aligned : BOOLEAN]

\* What the template file holds when it exists.
TemplateFile == [content : [Secs -> Content], torn : BOOLEAN]

\* None and Absent are sentinels, never an image or a file.
ASSUME SentinelAssumption == None \notin Image \cup Content /\ Absent \notin TemplateFile

VARIABLES
    chip,       \* the chip this process is connected to
    ramEpoch,   \* the current version of the controller's RAM
    template,   \* the template file: Absent, or its content and whether it is cut short
    image,      \* Cmd.memory_image: None or an Image
    dumped,     \* initMemoryImage's dumped_sections: what was read so far
    pc,         \* where the CLI thread is in getMemoryImage
    sec,        \* the section the for loop is at
    callEpoch,  \* the RAM version when getMemoryImage was called
    callFresh   \* whether the call reads RAM afresh (refresh, or no image yet)

vars == <<chip, ramEpoch, template, image, dumped, pc, sec, callEpoch, callFresh>>

Init ==
    /\ chip \in Chips
    /\ ramEpoch = 0
    /\ template = Absent
    /\ image = None
    /\ dumped = [s \in Secs |-> None]
    /\ pc = "idle"
    /\ sec = 1
    /\ callEpoch = 0
    /\ callFresh = FALSE

\* What readMem returns for section s now.
ReadSection(s) == [chip |-> chip, epoch |-> IF Layout[s] = "ROM" THEN 0 ELSE ramEpoch]

\* The for loop moves to the next section, or is done and goes on at done.
LoopOn(done) ==
    IF sec = Len(Layout) THEN pc' = done /\ sec' = sec
                         ELSE pc' = pc /\ sec' = sec + 1

\* readMem fails (the spec's IOErrorPartial): the exception leaves the command.
ReadFails ==
    /\ pc' = "idle"
    /\ UNCHANGED <<chip, ramEpoch, template, image, dumped, sec, callEpoch, callFresh>>

-----------------------------------------------------------------------------
\* Mutant: getMemoryImage without its "Cmd.memory_image == None" test, so
\* every call builds the image again.
GetMemoryImageAlwaysInit(refresh) ==
    /\ pc = "idle"
    /\ callEpoch' = ramEpoch
    /\ callFresh' = TRUE
    /\ pc' = IF template = Absent THEN "init_read" ELSE "init_load"
    /\ sec' = 1
    /\ dumped' = [s \in Secs |-> None]
    /\ UNCHANGED <<chip, ramEpoch, template, image>>

\* getMemoryImage(refresh), called by dumpmem (refresh = not --norefresh) or
\* searchmem (refresh = --refresh): build the image if there is none
\* (initMemoryImage, which first asks whether the template exists), else
\* refresh it if asked, else return it.
GetMemoryImage(refresh) ==
    /\ pc = "idle"
    /\ callEpoch' = ramEpoch
    /\ callFresh' = (image = None \/ refresh)
    /\ pc' = IF image # None THEN (IF refresh THEN "refresh" ELSE "ret")
             ELSE IF template = Absent THEN "init_read" ELSE "init_load"
    /\ sec' = 1
    /\ dumped' = [s \in Secs |-> None]
    /\ UNCHANGED <<chip, ramEpoch, template, image>>

\* for section in SECTIONS: dumped_sections[start] = self.readMem(start, size)
InitReadSection ==
    /\ pc = "init_read"
    /\ \/ /\ dumped' = [dumped EXCEPT ![sec] = ReadSection(sec)]
          /\ LoopOn("fit")
          /\ UNCHANGED <<chip, ramEpoch, template, image, callEpoch, callFresh>>
       \/ ReadFails

\* Cmd.memory_image = fit(dumped_sections, filler='\x00')
InitFit ==
    /\ pc = "fit"
    /\ image' = [content |-> dumped, aligned |-> TRUE]
    /\ pc' = "open"
    /\ UNCHANGED <<chip, ramEpoch, template, dumped, sec, callEpoch, callFresh>>

\* f = open(template, 'wb') truncates the file: it exists, and is empty.
TemplateOpen ==
    /\ pc = "open"
    /\ template' = [content |-> image.content, torn |-> TRUE]
    /\ pc' = "write"
    /\ UNCHANGED <<chip, ramEpoch, image, dumped, sec, callEpoch, callFresh>>

\* f.write(Cmd.memory_image); f.close().  A failing write (a full disk)
\* raises IOError out of the command and leaves the file cut short.
TemplateWrite ==
    /\ pc = "write"
    /\ \/ /\ template' = [template EXCEPT !.torn = FALSE]
          /\ pc' = "ret"
       \/ /\ DiskFull
          /\ pc' = "idle"
          /\ UNCHANGED template
    /\ UNCHANGED <<chip, ramEpoch, image, dumped, sec, callEpoch, callFresh>>

\* Mutant: the template branch without its refreshMemoryImage() call.
InitLoadNoRefresh ==
    /\ pc = "init_load"
    /\ image' = [content |-> template.content, aligned |-> ~template.torn]
    /\ pc' = "ret"
    /\ UNCHANGED <<chip, ramEpoch, template, dumped, sec, callEpoch, callFresh>>

\* Cmd.memory_image = read(template); self.refreshMemoryImage().  Nothing
\* checks that the file is complete or was made for this chip.
InitLoad ==
    /\ pc = "init_load"
    /\ image' = [content |-> template.content, aligned |-> ~template.torn]
    /\ pc' = "refresh"
    /\ sec' = 1
    /\ UNCHANGED <<chip, ramEpoch, template, dumped, callEpoch, callFresh>>

\* for section in SECTIONS: if not section.is_rom: splice
\* memory_image[0:start] + readMem(start, size) + memory_image[end:].
\* Spliced into an image cut short, the slice lands at the wrong offset.
RefreshSection ==
    /\ pc = "refresh"
    /\ \/ /\ image' = IF Layout[sec] = "RAM"
                      THEN [image EXCEPT !.content[sec] = ReadSection(sec)]
                      ELSE image
          /\ LoopOn("ret")
          /\ UNCHANGED <<chip, ramEpoch, template, dumped, callEpoch, callFresh>>
       \/ /\ Layout[sec] = "RAM"
          /\ ReadFails

\* return Cmd.memory_image: the command writes it to a file or searches it.
Return ==
    /\ pc = "ret"
    /\ pc' = "idle"
    /\ UNCHANGED <<chip, ramEpoch, template, image, dumped, sec, callEpoch, callFresh>>

-----------------------------------------------------------------------------
(* The environment.                                                         *)

\* The firmware changes its RAM.
RamChanges ==
    /\ ramEpoch < MaxEpoch
    /\ ramEpoch' = ramEpoch + 1
    /\ UNCHANGED <<chip, template, image, dumped, pc, sec, callEpoch, callFresh>>

\* The CLI process ends (when idle, or anywhere if Crashes) and a new one
\* starts, connected to any chip: the class attribute memory_image is gone,
\* the template file stays as it is.
Restart ==
    /\ pc = "idle" \/ Crashes
    /\ chip' \in Chips
    /\ image' = None
    /\ pc' = "idle"
    /\ UNCHANGED <<ramEpoch, template, dumped, sec, callEpoch, callFresh>>

Next ==
    \/ \E refresh \in BOOLEAN : GetMemoryImage(refresh)
    \/ InitReadSection \/ InitFit \/ TemplateOpen \/ TemplateWrite
    \/ InitLoad \/ RefreshSection \/ Return
    \/ RamChanges \/ Restart

Spec == Init /\ [][Next]_vars

-----------------------------------------------------------------------------
(* Properties, stated at the moment getMemoryImage returns.                *)

\* The image getMemoryImage returns is the memory of the chip this process
\* is connected to, every section at its own offset (spec.md 6: the
\* template is keyed by target identity).
ImageOfTarget ==
    pc = "ret" =>
        /\ image.aligned
        /\ \A s \in Secs : image.content[s].chip = chip

\* A call that asks for a refresh, or builds the image, returns RAM read
\* during that call: refreshMemoryImage runs after the template is loaded,
\* whose RAM content is as old as the template.
FreshWhenAsked ==
    pc = "ret" /\ callFresh =>
        \A s \in Secs : Layout[s] = "RAM" => image.content[s].epoch >= callEpoch

\* Within one process, Cmd.memory_image never goes back to older RAM:
\* getMemoryImage reads the template only while there is no image (line
\* 150), and refreshMemoryImage splices in RAM read now (lines 139-145),
\* so even a refresh that a failing readMem cut short leaves every RAM
\* section at least as new as before.  A later call without refresh
\* never shows older memory than an earlier one did.
ImageNeverOlder ==
    [][image # None /\ image' # None =>
          \A s \in Secs : Layout[s] = "RAM" =>
              image'.content[s].epoch >= image.content[s].epoch]_vars

=============================================================================
