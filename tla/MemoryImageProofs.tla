------------------------- MODULE MemoryImageProofs -------------------------
(***************************************************************************)
(* Proof that getMemoryImage returns freshly read RAM whenever it builds   *)
(* or refreshes the image (FreshWhenAsked), for every section layout, set  *)
(* of chips and bound on the RAM versions, with crashes and failing        *)
(* template writes.                                                        *)
(***************************************************************************)
EXTENDS MemoryImage, TLAPS

Labels == {"idle", "init_read", "fit", "open", "write", "init_load", "refresh", "ret"}

TypeOK ==
    /\ chip \in Chips
    /\ ramEpoch \in 0..MaxEpoch
    /\ callEpoch \in 0..MaxEpoch
    /\ callFresh \in BOOLEAN
    /\ pc \in Labels
    /\ sec \in Secs
    /\ dumped \in [Secs -> Content \cup {None}]
    /\ image \in Image \cup {None}
    /\ template \in TemplateFile \cup {Absent}

\* Which sections a call has already read, by where it is.
ReadSoFar(s) ==
    \/ pc \in {"fit", "open", "write", "ret"}
    \/ pc \in {"init_read", "refresh"} /\ s < sec

\* The RAM sections read so far during a fresh call are no older than the call.
IInv ==
    /\ TypeOK
    /\ callEpoch <= ramEpoch
    /\ pc \in {"open", "write", "refresh", "ret"} => image \in Image
    /\ pc \in {"init_load", "write"} => template # Absent
    /\ pc \in {"init_read", "fit"} =>
           \A s \in Secs : s < sec \/ pc = "fit" => dumped[s] \in Content
    /\ callFresh =>
           /\ \A s \in Secs :
                  Layout[s] = "RAM" /\ ReadSoFar(s) /\ pc \in {"init_read", "fit"}
                      => dumped[s].epoch >= callEpoch
           /\ \A s \in Secs :
                  Layout[s] = "RAM" /\ ReadSoFar(s) /\ pc \in {"open", "write", "refresh", "ret"}
                      => image.content[s].epoch >= callEpoch

-----------------------------------------------------------------------------

LEMMA LayoutFacts ==
    /\ Len(Layout) \in Nat \ {0}
    /\ \A s \in Secs : Layout[s] \in {"ROM", "RAM"}
    /\ MaxEpoch \in Nat
  BY ConstAssumption DEF Secs

\* The invariant holds initially.
LEMMA InitIInv == Init => IInv
  <1> SUFFICES ASSUME Init PROVE IInv
    OBVIOUS
  <1>1. TypeOK
    <2>1. dumped \in [Secs -> Content \cup {None}]
      BY DEF Init
    <2>2. sec \in Secs /\ callEpoch \in 0..MaxEpoch /\ ramEpoch \in 0..MaxEpoch
      BY LayoutFacts DEF Init, Secs
    <2>3. QED
      BY <2>1, <2>2 DEF Init, TypeOK, Labels
  <1>2. QED
    BY <1>1, LayoutFacts DEF Init, IInv, ReadSoFar

\* What readMem returns is of the content type, and RAM is read as it is now.
LEMMA ReadSectionFacts ==
    ASSUME TypeOK, NEW s \in Secs
    PROVE  /\ ReadSection(s) \in Content
           /\ Layout[s] = "RAM" => ReadSection(s).epoch = ramEpoch
  BY LayoutFacts DEF TypeOK, ReadSection, Content

\* Where a step of a for loop leaves the loop index and pc.
LEMMA LoopOnFacts ==
    ASSUME NEW done \in Labels, sec \in Secs, pc \in Labels, LoopOn(done)
    PROVE  /\ sec' \in Secs /\ pc' \in Labels
           /\ \/ pc' = done /\ sec = Len(Layout) /\ sec' = sec
              \/ pc' = pc /\ sec' = sec + 1
  BY LayoutFacts DEF LoopOn, Secs

\* getMemoryImage starts a call: nothing has been read in it yet.
LEMMA GetMemoryImageIInv ==
    ASSUME IInv, NEW refresh \in BOOLEAN, GetMemoryImage(refresh)
    PROVE  IInv'
  <1>1. TypeOK'
    BY LayoutFacts DEF IInv, TypeOK, GetMemoryImage, Labels, Secs
  <1>2. QED
    BY <1>1, LayoutFacts DEF IInv, TypeOK, GetMemoryImage, ReadSoFar, Secs

\* Each read of initMemoryImage's loop is as new as the RAM.
LEMMA InitReadSectionIInv ==
    ASSUME IInv, InitReadSection
    PROVE  IInv'
  <1>1. CASE ReadFails
    BY <1>1 DEF IInv, TypeOK, ReadFails, ReadSoFar, Labels
  <1>2. CASE /\ dumped' = [dumped EXCEPT ![sec] = ReadSection(sec)]
             /\ LoopOn("fit")
             /\ UNCHANGED <<chip, ramEpoch, template, image, callEpoch, callFresh>>
    <2>1. /\ ReadSection(sec) \in Content
          /\ Layout[sec] = "RAM" => ReadSection(sec).epoch >= callEpoch
      BY ReadSectionFacts, LayoutFacts DEF IInv, TypeOK
    <2>2. TypeOK'
      BY <1>2, <2>1, LayoutFacts DEF IInv, TypeOK, InitReadSection, LoopOn, Labels, Secs
    <2>3. QED
      BY <1>2, <2>1, <2>2, ReadSectionFacts, LayoutFacts
         DEF IInv, TypeOK, InitReadSection, LoopOn, ReadSoFar, Secs
  <1>3. QED
    BY <1>1, <1>2 DEF InitReadSection

\* fit(dumped_sections) makes the image of everything read in the loop.
LEMMA InitFitIInv ==
    ASSUME IInv, InitFit
    PROVE  IInv'
  <1>1. dumped \in [Secs -> Content]
    BY DEF IInv, TypeOK, InitFit
  <1>2. TypeOK'
    BY <1>1 DEF IInv, TypeOK, InitFit, Image, Labels
  <1>3. QED
    BY <1>1, <1>2 DEF IInv, TypeOK, InitFit, Image, ReadSoFar

\* Opening the template file changes only the file.
LEMMA TemplateOpenIInv ==
    ASSUME IInv, TemplateOpen
    PROVE  IInv'
  <1>1. TypeOK'
    BY DEF IInv, TypeOK, TemplateFile, TemplateOpen, Image, Labels
  <1>2. template' \in TemplateFile
    BY DEF IInv, TemplateOpen, TemplateFile, Image
  <1>3. template' # Absent
    BY <1>2, SentinelAssumption
  <1>4. QED
    BY <1>1, <1>3 DEF IInv, TypeOK, TemplateOpen, ReadSoFar

\* Writing the template, or failing to, changes only the file and pc.
LEMMA TemplateWriteIInv ==
    ASSUME IInv, TemplateWrite
    PROVE  IInv'
  <1>1. TypeOK'
    BY DEF IInv, TypeOK, TemplateFile, TemplateWrite, Labels
  <1>2. QED
    BY <1>1 DEF IInv, TypeOK, TemplateFile, TemplateWrite, ReadSoFar

\* Loading the template starts the refresh loop at its first section.
LEMMA InitLoadIInv ==
    ASSUME IInv, InitLoad
    PROVE  IInv'
  <1>1. image' \in Image
    BY DEF IInv, TypeOK, TemplateFile, InitLoad, Image
  <1>2. TypeOK'
    BY <1>1, LayoutFacts DEF IInv, TypeOK, TemplateFile, InitLoad, Labels, Secs
  <1>3. QED
    BY <1>1, <1>2 DEF IInv, TypeOK, TemplateFile, InitLoad, ReadSoFar, Secs

\* Each splice of the refresh loop puts RAM as it is now into the image.
LEMMA RefreshSectionIInv ==
    ASSUME IInv, RefreshSection
    PROVE  IInv'
  <1>1. CASE /\ Layout[sec] = "RAM"
             /\ ReadFails
    BY <1>1 DEF IInv, TypeOK, ReadFails, ReadSoFar, Labels
  <1>2. CASE /\ image' = IF Layout[sec] = "RAM"
                         THEN [image EXCEPT !.content[sec] = ReadSection(sec)]
                         ELSE image
             /\ LoopOn("ret")
             /\ UNCHANGED <<chip, ramEpoch, template, dumped, callEpoch, callFresh>>
    <2>1. /\ ReadSection(sec) \in Content
          /\ Layout[sec] = "RAM" => ReadSection(sec).epoch >= callEpoch
      BY ReadSectionFacts, LayoutFacts DEF IInv, TypeOK
    <2>2. image \in Image /\ pc = "refresh"
      BY DEF IInv, RefreshSection
    <2>3. image' \in Image
      BY <1>2, <2>1, <2>2 DEF Image
    <2>4. \A s \in Secs : s # sec => image'.content[s] = image.content[s]
      BY <1>2, <2>2 DEF Image
    <2>5. Layout[sec] = "RAM" => image'.content[sec].epoch >= callEpoch
      BY <1>2, <2>1, <2>2 DEF Image, TypeOK, IInv
    <2>6. /\ sec' \in Secs /\ pc' \in Labels
          /\ \/ pc' = "ret" /\ sec = Len(Layout) /\ sec' = sec
             \/ pc' = "refresh" /\ sec' = sec + 1
      BY <1>2, <2>2, LoopOnFacts DEF IInv, TypeOK, Labels
    <2>7. TypeOK'
      BY <1>2, <2>3, <2>6 DEF IInv, TypeOK
    <2>8. ASSUME NEW s \in Secs, Layout[s] = "RAM", ReadSoFar(s)', callFresh
          PROVE  image'.content[s].epoch >= callEpoch
      <3>1. CASE s = sec
        BY <3>1, <2>5, <2>8
      <3>2. CASE s # sec
        <4>1. s < sec
          BY <2>6, <2>8, <3>2, LayoutFacts DEF IInv, TypeOK, ReadSoFar, Secs
        <4>2. image.content[s].epoch >= callEpoch
          BY <4>1, <2>2, <2>8 DEF IInv, ReadSoFar
        <4>3. QED
          BY <4>2, <3>2, <2>4
      <3>3. QED
        BY <3>1, <3>2
    <2>9. QED
      BY <1>2, <2>2, <2>3, <2>6, <2>7, <2>8 DEF IInv
  <1>3. QED
    BY <1>1, <1>2 DEF RefreshSection

\* Returning, the RAM changing, and a process restart keep the invariant:
\* the RAM only gets newer, and a restart leaves the CLI thread idle.
LEMMA EnvIInv ==
    ASSUME IInv, Return \/ RamChanges \/ Restart
    PROVE  IInv'
  <1>1. CASE Return
    BY <1>1 DEF IInv, TypeOK, Return, ReadSoFar, Labels
  <1>2. CASE RamChanges
    <2>1. TypeOK'
      BY <1>2, LayoutFacts DEF IInv, TypeOK, RamChanges
    <2>2. QED
      BY <1>2, <2>1, LayoutFacts DEF IInv, TypeOK, RamChanges, ReadSoFar
  <1>3. CASE Restart
    BY <1>3 DEF IInv, TypeOK, Restart, ReadSoFar, Labels
  <1>4. QED
    BY <1>1, <1>2, <1>3

\* The invariant is inductive.
LEMMA NextIInv == IInv /\ [Next]_vars => IInv'
  <1> SUFFICES ASSUME IInv, [Next]_vars PROVE IInv'
    OBVIOUS
  <1>1. CASE \E refresh \in BOOLEAN : GetMemoryImage(refresh)
    BY <1>1, GetMemoryImageIInv
  <1>2. CASE InitReadSection
    BY <1>2, InitReadSectionIInv
  <1>3. CASE InitFit
    BY <1>3, InitFitIInv
  <1>4. CASE TemplateOpen
    BY <1>4, TemplateOpenIInv
  <1>5. CASE TemplateWrite
    BY <1>5, TemplateWriteIInv
  <1>6. CASE InitLoad
    BY <1>6, InitLoadIInv
  <1>7. CASE RefreshSection
    BY <1>7, RefreshSectionIInv
  <1>8. CASE Return \/ RamChanges \/ Restart
    BY <1>8, EnvIInv
  <1>9. CASE UNCHANGED vars
    BY <1>9 DEF IInv, TypeOK, ReadSoFar, vars
  <1>10. QED
    BY <1>1, <1>2, <1>3, <1>4, <1>5, <1>6, <1>7, <1>8, <1>9 DEF Next

\* Whenever getMemoryImage returns from a call that builds the image or is
\* asked to refresh it, every RAM section was read during that call: after
\* loading the template, after a crash or a failed write, whatever the
\* layout and the chips (the property FreshWhenAsked of run image_fresh).
THEOREM FreshWhenAskedHolds == Spec => []FreshWhenAsked
  <1>1. IInv => FreshWhenAsked
    BY DEF IInv, FreshWhenAsked, ReadSoFar
  <1>2. QED
    BY <1>1, InitIInv, NextIInv, PTL DEF Spec

-----------------------------------------------------------------------------
(* Within one process the image never goes back to older RAM.             *)

\* No content the process holds is newer than the RAM, and the template is
\* loaded, and fit builds the image, only while there is no image yet.
AgeInv ==
    /\ pc \in {"init_read", "fit", "init_load"} => image = None
    /\ \A s \in Secs : dumped[s] \in Content => dumped[s].epoch <= ramEpoch
    /\ image # None => \A s \in Secs : image.content[s].epoch <= ramEpoch
    /\ template # Absent => \A s \in Secs : template.content[s].epoch <= ramEpoch

\* readMem's content is never newer than the RAM it is read from.
LEMMA ReadSectionAge ==
    ASSUME TypeOK, NEW s \in Secs
    PROVE  ReadSection(s).epoch <= ramEpoch
  BY LayoutFacts DEF TypeOK, ReadSection

LEMMA InitAgeInv == Init => AgeInv
  BY SentinelAssumption DEF Init, AgeInv

\* getMemoryImage goes to initMemoryImage only when there is no image.
LEMMA GetMemoryImageAge ==
    ASSUME IInv, AgeInv, NEW refresh \in BOOLEAN, GetMemoryImage(refresh)
    PROVE  AgeInv'
  <1>1. pc' \in {"init_read", "fit", "init_load"} => image = None
    BY DEF GetMemoryImage
  <1>2. QED
    BY <1>1, SentinelAssumption DEF AgeInv, GetMemoryImage

\* The loop of initMemoryImage reads while there is no image.
LEMMA InitReadSectionAge ==
    ASSUME IInv, AgeInv, InitReadSection
    PROVE  AgeInv'
  <1>1. CASE ReadFails
    BY <1>1 DEF AgeInv, ReadFails
  <1>2. CASE /\ dumped' = [dumped EXCEPT ![sec] = ReadSection(sec)]
             /\ LoopOn("fit")
             /\ UNCHANGED <<chip, ramEpoch, template, image, callEpoch, callFresh>>
    <2>1. ReadSection(sec).epoch <= ramEpoch /\ sec \in Secs
      BY ReadSectionAge DEF IInv, TypeOK
    <2>2. pc = "init_read" /\ pc' \in {"init_read", "fit"}
      BY <1>2 DEF InitReadSection, LoopOn
    <2>3. \A s \in Secs : dumped'[s] \in Content => dumped'[s].epoch <= ramEpoch'
      BY <1>2, <2>1 DEF AgeInv, IInv, TypeOK
    <2>4. QED
      BY <1>2, <2>2, <2>3 DEF AgeInv
  <1>3. QED
    BY <1>1, <1>2 DEF InitReadSection

\* fit makes the image of what the loop read.
LEMMA InitFitAge ==
    ASSUME IInv, AgeInv, InitFit
    PROVE  AgeInv'
  <1>1. dumped \in [Secs -> Content]
    BY DEF IInv, TypeOK, InitFit
  <1>2. \A s \in Secs : dumped[s].epoch <= ramEpoch
    BY <1>1 DEF AgeInv
  <1>3. QED
    BY <1>2 DEF AgeInv, InitFit

\* The template gets the content of the image.
LEMMA TemplateOpenAge ==
    ASSUME IInv, AgeInv, TemplateOpen
    PROVE  AgeInv'
  <1>1. image \in Image
    BY DEF IInv, TemplateOpen
  <1>2. image # None
    BY <1>1, SentinelAssumption
  <1>3. QED
    BY <1>2 DEF AgeInv, TemplateOpen

\* Closing, or failing to write, keeps the template's content.
LEMMA TemplateWriteAge ==
    ASSUME IInv, AgeInv, TemplateWrite
    PROVE  AgeInv'
  <1>1. template \in TemplateFile
    BY DEF IInv, TypeOK, TemplateWrite
  <1>2. template # Absent
    BY <1>1, SentinelAssumption
  <1>3. QED
    BY <1>1, <1>2 DEF AgeInv, TemplateWrite, TemplateFile

\* The image loaded from the template is no newer than the template.
LEMMA InitLoadAge ==
    ASSUME IInv, AgeInv, InitLoad
    PROVE  AgeInv'
  <1>1. template \in TemplateFile /\ template # Absent
    BY DEF IInv, TypeOK, InitLoad
  <1>2. image' \in Image
    BY <1>1 DEF InitLoad, Image, TemplateFile
  <1>3. image' # None
    BY <1>2, SentinelAssumption
  <1>4. QED
    BY <1>1, <1>3 DEF AgeInv, InitLoad

\* A splice of the refresh loop puts in RAM as it is now.
LEMMA RefreshSectionAge ==
    ASSUME IInv, AgeInv, RefreshSection
    PROVE  AgeInv'
  <1>1. CASE /\ Layout[sec] = "RAM"
             /\ ReadFails
    BY <1>1 DEF AgeInv, ReadFails
  <1>2. CASE /\ image' = IF Layout[sec] = "RAM"
                         THEN [image EXCEPT !.content[sec] = ReadSection(sec)]
                         ELSE image
             /\ LoopOn("ret")
             /\ UNCHANGED <<chip, ramEpoch, template, dumped, callEpoch, callFresh>>
    <2>1. image \in Image /\ image # None /\ pc = "refresh"
      BY SentinelAssumption DEF IInv, RefreshSection
    <2>2. ReadSection(sec).epoch <= ramEpoch /\ sec \in Secs
      BY ReadSectionAge DEF IInv, TypeOK
    <2>3. ReadSection(sec) \in Content
      BY <2>2, ReadSectionFacts DEF IInv
    <2>6. image' \in Image
      BY <1>2, <2>1, <2>3 DEF Image
    <2>7. \A s \in Secs : image'.content[s] = IF s = sec /\ Layout[sec] = "RAM"
                                              THEN ReadSection(sec) ELSE image.content[s]
      BY <1>2, <2>1, <2>2 DEF Image
    <2>8. image' # None /\ \A s \in Secs : image'.content[s].epoch <= ramEpoch'
      BY <1>2, <2>1, <2>2, <2>6, <2>7, SentinelAssumption DEF AgeInv
    <2>4. pc' \in {"refresh", "ret"}
      BY <1>2, <2>1 DEF LoopOn
    <2>5. QED
      BY <1>2, <2>8, <2>4 DEF AgeInv
  <1>3. QED
    BY <1>1, <1>2 DEF RefreshSection

\* Returning and a restart leave the contents; new RAM is newer than all.
LEMMA EnvAge ==
    ASSUME IInv, AgeInv, Return \/ RamChanges \/ Restart
    PROVE  AgeInv'
  <1>1. CASE Return
    BY <1>1 DEF AgeInv, Return
  <1>2. CASE RamChanges
    <2>1. /\ image # None => image \in Image
          /\ template # Absent => template \in TemplateFile
          /\ ramEpoch \in Nat
      BY LayoutFacts DEF IInv, TypeOK
    <2>2. QED
      BY <1>2, <2>1 DEF AgeInv, RamChanges, Image, TemplateFile, Content
  <1>3. CASE Restart
    BY <1>3 DEF AgeInv, Restart
  <1>4. QED
    BY <1>1, <1>2, <1>3

LEMMA NextAgeInv == IInv /\ AgeInv /\ [Next]_vars => AgeInv'
  <1> SUFFICES ASSUME IInv, AgeInv, [Next]_vars PROVE AgeInv'
    OBVIOUS
  <1>1. CASE \E refresh \in BOOLEAN : GetMemoryImage(refresh)
    BY <1>1, GetMemoryImageAge
  <1>2. CASE InitReadSection
    BY <1>2, InitReadSectionAge
  <1>3. CASE InitFit
    BY <1>3, InitFitAge
  <1>4. CASE TemplateOpen
    BY <1>4, TemplateOpenAge
  <1>5. CASE TemplateWrite
    BY <1>5, TemplateWriteAge
  <1>6. CASE InitLoad
    BY <1>6, InitLoadAge
  <1>7. CASE RefreshSection
    BY <1>7, RefreshSectionAge
  <1>8. CASE Return \/ RamChanges \/ Restart
    BY <1>8, EnvAge
  <1>9. CASE UNCHANGED vars
    BY <1>9 DEF AgeInv, vars
  <1>10. QED
    BY <1>1, <1>2, <1>3, <1>4, <1>5, <1>6, <1>7, <1>8, <1>9 DEF Next

\* One step never makes a RAM section of an existing image older.
LEMMA StepNeverOlder ==
    ASSUME IInv, AgeInv, [Next]_vars, image # None, image' # None,
           NEW s \in Secs, Layout[s] = "RAM"
    PROVE  image'.content[s].epoch >= image.content[s].epoch
  <1>1. image \in Image
    BY SentinelAssumption DEF IInv, TypeOK
  <1>2. image.content[s].epoch \in Nat
    BY <1>1 DEF Image, Content
  <1>3. CASE image' = image
    BY <1>2, <1>3
  <1>4. CASE RefreshSection
    <2>1. sec \in Secs
      BY DEF IInv, TypeOK
    <2>2. CASE Layout[sec] = "RAM" /\ ReadFails
      BY <1>2, <2>2 DEF ReadFails
    <2>3. CASE /\ image' = IF Layout[sec] = "RAM"
                           THEN [image EXCEPT !.content[sec] = ReadSection(sec)]
                           ELSE image
               /\ LoopOn("ret")
               /\ UNCHANGED <<chip, ramEpoch, template, dumped, callEpoch, callFresh>>
      <3>1. image'.content[s] = IF s = sec THEN ReadSection(sec) ELSE image.content[s]
        BY <1>1, <2>1, <2>3 DEF Image
      <3>2. s = sec => ReadSection(sec).epoch = ramEpoch
        BY <2>1, ReadSectionFacts DEF IInv
      <3>3. image.content[s].epoch <= ramEpoch
        BY DEF AgeInv
      <3>4. QED
        BY <1>2, <3>1, <3>2, <3>3
    <2>4. QED
      BY <1>4, <2>2, <2>3 DEF RefreshSection
  <1>5. CASE InitFit \/ InitLoad
    BY <1>5 DEF AgeInv, InitFit, InitLoad
  <1>6. CASE Restart
    BY <1>6 DEF Restart
  <1>7. QED
    BY <1>3, <1>4, <1>5, <1>6
       DEF Next, vars, GetMemoryImage, InitReadSection, ReadFails, TemplateOpen,
           TemplateWrite, Return, RamChanges

\* Within one process, a step never puts older RAM into Cmd.memory_image
\* than it held: the template is loaded only while there is no image, and
\* refreshMemoryImage splices in RAM as it is now, even when a failing read
\* cuts it short (the property ImageNeverOlder of run image_fresh).
THEOREM ImageNeverOlderHolds == Spec => ImageNeverOlder
  <1>1. IInv /\ AgeInv /\ [Next]_vars =>
            (image # None /\ image' # None =>
                \A s \in Secs : Layout[s] = "RAM" =>
                    image'.content[s].epoch >= image.content[s].epoch)
    BY StepNeverOlder
  <1>2. Spec => [](IInv /\ AgeInv)
    BY InitIInv, NextIInv, InitAgeInv, NextAgeInv, PTL DEF Spec
  <1>3. QED
    BY <1>1, <1>2, PTL DEF ImageNeverOlder, Spec

=============================================================================
