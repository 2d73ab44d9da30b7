-------------------------- MODULE BuildCacheProofs --------------------------
(***************************************************************************)
(* Proofs about BuildCache and BuildAndLink, for any classes, texts, clock *)
(* and number of edits: the inductive invariants CacheInv and LinkedInv    *)
(* and what follows from them.                                             *)
(***************************************************************************)
EXTENDS BuildAndLink, TLAPS

-----------------------------------------------------------------------------
(* What a build derives from the sources *)

\* Facts about the texts of a state of the sources.
LEMMA TextFacts ==
    ASSUME NEW p \in Sources, NEW c \in Classes
    PROVE  /\ p[c] \in Texts[c] /\ p[c] \in AllTexts /\ p[c].def \in Defs
           /\ p[c].super \in Classes \cup {None}
           /\ p[c].uses \subseteq Classes
           /\ p[c].super # None => p[p[c].super].super = None
<1>1. p[c] \in Texts[c] /\ \A d \in Classes : p[d] \in Texts[d]
  BY DEF Sources
<1>2. p[c] \in AllTexts
  BY <1>1 DEF AllTexts
<1> QED
  BY <1>1, <1>2, CacheAssumption DEF Defs

\* calcHash, dumpActiveClasses and the compiler produce what the files hold.
LEMMA FileTypes ==
    ASSUME NEW p \in Sources, NEW c \in Classes
    PROVE  Hash(p, c) \in Hashes /\ Depends(p, c) \in DependLists /\ Object(p, c) \in Objects
<1>1. \A d \in Classes : Hash(p, d) \in Hashes
  <2> TAKE d \in Classes
  <2>1. p[d].def \in Defs /\ p[d].super \in Classes \cup {None}
    BY TextFacts
  <2>2. CASE p[d].super = None
    BY <2>1, <2>2 DEF Hash, Hashes
  <2>3. CASE p[d].super # None
    <3>1. p[d].super \in Classes
      BY <2>1, <2>3
    <3>2. p[p[d].super].def \in Defs
      BY <3>1, TextFacts
    <3> QED
      BY <2>1, <2>3, <3>1, <3>2 DEF Hash, Hashes
  <2> QED
    BY <2>2, <2>3
<1>2. Depends(p, c) \in DependLists
  BY <1>1, TextFacts DEF Depends, DependLists
<1>3. Needs(p, c) \subseteq Classes
  <2>1. \A d \in Classes : Extended(p, d) \subseteq Classes
    BY TextFacts DEF Extended
  <2> QED
    BY <2>1, TextFacts DEF Needs
<1>4. {<<d, p[d].def, p[d].super>> : d \in Needs(p, c)}
        \in SUBSET (Classes \X Defs \X (Classes \cup {None}))
  <2> SUFFICES ASSUME NEW d \in Needs(p, c)
               PROVE  <<d, p[d].def, p[d].super>> \in Classes \X Defs \X (Classes \cup {None})
    OBVIOUS
  <2> QED
    BY <1>3, TextFacts
<1>5. Object(p, c) \in Objects
  BY <1>4, TextFacts DEF Object, Objects
<1> QED
  BY <1>1, <1>2, <1>5

\* Equal hashes mean equal definitions, equal superclasses and equal
\* definitions of the superclasses.
LEMMA HashInjective ==
    ASSUME NEW p \in Sources, NEW q \in Sources, NEW c \in Classes, Hash(p, c) = Hash(q, c)
    PROVE  /\ p[c].def = q[c].def
           /\ p[c].super = q[c].super
           /\ p[c].super # None => p[p[c].super].def = q[p[c].super].def
<1>1. p[c].def = q[c].def
  BY DEF Hash
<1>2. /\ p[c].super \in Classes \cup {None}
      /\ q[c].super \in Classes \cup {None}
  BY TextFacts
<1>3. (IF p[c].super = None THEN None ELSE <<p[c].super, p[p[c].super].def>>)
        = (IF q[c].super = None THEN None ELSE <<q[c].super, q[q[c].super].def>>)
  BY DEF Hash
<1>4. CASE p[c].super = None
  <2>1. q[c].super = None
    <3> SUFFICES ASSUME q[c].super # None PROVE FALSE
      OBVIOUS
    <3>1. q[c].super \in Classes
      BY <1>2
    <3>2. <<q[c].super, q[q[c].super].def>> # None
      BY <3>1, NoneAssumption
    <3> QED
      BY <1>3, <1>4, <3>2
  <2> QED
    BY <1>1, <1>4, <2>1
<1>5. CASE p[c].super # None
  <2>1. p[c].super \in Classes
    BY <1>2, <1>5
  <2>2. <<p[c].super, p[p[c].super].def>> # None
    BY <2>1, NoneAssumption
  <2>3. <<p[c].super, p[p[c].super].def>> = <<q[c].super, q[q[c].super].def>>
    BY <1>3, <1>5, <2>2
  <2> QED
    BY <1>1, <1>5, <2>3
<1> QED
  BY <1>4, <1>5

\* An object file compiled from q is the one a build of p would write, when
\* the text of c and the hashes of c and of the classes it uses agree.
LEMMA SameObject ==
    ASSUME NEW p \in Sources, NEW q \in Sources, NEW c \in Classes,
           p[c] = q[c], Hash(p, c) = Hash(q, c),
           \A d \in p[c].uses : Hash(p, d) = Hash(q, d)
    PROVE  Object(p, c) = Object(q, c)
<1>1. \A d \in p[c].uses : d \in Classes /\ p[d].def = q[d].def /\ p[d].super = q[d].super
  <2> TAKE d \in p[c].uses
  <2>1. d \in Classes
    BY TextFacts
  <2> QED
    BY <2>1, HashInjective
<1>2. Needs(p, c) = Needs(q, c)
  BY <1>1 DEF Needs, Extended
<1>3. ASSUME NEW b \in Classes, Hash(p, b) = Hash(q, b), NEW d \in Extended(p, b)
      PROVE  p[d].def = q[d].def /\ p[d].super = q[d].super
  <2>1. d = p[b].super /\ d # None /\ d = q[b].super
    BY <1>3, HashInjective DEF Extended
  <2>2. p[d].def = q[d].def
    BY <1>3, <2>1, HashInjective
  <2>3. p[d].super = None /\ q[d].super = None
    <3>1. p[b].super # None => p[p[b].super].super = None
      BY TextFacts
    <3>2. q[b].super # None => q[q[b].super].super = None
      BY TextFacts
    <3> QED
      BY <2>1, <3>1, <3>2
  <2> QED
    BY <2>2, <2>3
<1>4. \A d \in Needs(p, c) : p[d].def = q[d].def /\ p[d].super = q[d].super
  <2> TAKE d \in Needs(p, c)
  <2>1. CASE d \in Extended(p, c)
    BY <1>3, <2>1
  <2>2. CASE d \in p[c].uses
    BY <1>1, <2>2
  <2>3. CASE \E b \in p[c].uses : d \in Extended(p, b)
    <3>1. PICK b \in p[c].uses : d \in Extended(p, b)
      BY <2>3
    <3>2. b \in Classes /\ Hash(p, b) = Hash(q, b)
      BY <1>1
    <3> QED
      BY <1>3, <3>1, <3>2
  <2> QED
    BY <2>1, <2>2, <2>3 DEF Needs
<1>5. {<<d, p[d].def, p[d].super>> : d \in Needs(p, c)}
        = {<<d, q[d].def, q[d].super>> : d \in Needs(q, c)}
  BY <1>2, <1>4
<1> QED
  BY <1>5 DEF Object

\* The converse: equal object files mean equal hashes, of the class and of
\* the classes it uses.
LEMMA SameHashes ==
    ASSUME NEW p \in Sources, NEW q \in Sources, NEW c \in Classes, Object(p, c) = Object(q, c)
    PROVE  /\ p[c] = q[c]
           /\ Hash(p, c) = Hash(q, c)
           /\ \A d \in p[c].uses : Hash(p, d) = Hash(q, d)
<1>1. p[c] = q[c]
  BY DEF Object
<1>2. {<<d, p[d].def, p[d].super>> : d \in Needs(p, c)}
        = {<<d, q[d].def, q[d].super>> : d \in Needs(q, c)}
  BY DEF Object
<1>3. ASSUME NEW d \in Needs(p, c)
      PROVE  p[d].def = q[d].def /\ p[d].super = q[d].super
  <2>1. <<d, p[d].def, p[d].super>> \in {<<b, q[b].def, q[b].super>> : b \in Needs(q, c)}
    BY <1>2
  <2>2. PICK b \in Needs(q, c) : <<d, p[d].def, p[d].super>> = <<b, q[b].def, q[b].super>>
    BY <2>1
  <2> QED
    BY <2>2
<1>4. Hash(p, c) = Hash(q, c)
  <2>1. CASE p[c].super = None
    BY <1>1, <2>1 DEF Hash
  <2>2. CASE p[c].super # None
    <3>1. p[c].super \in Needs(p, c)
      BY <2>2 DEF Needs, Extended
    <3>2. p[p[c].super].def = q[p[c].super].def
      BY <1>3, <3>1
    <3> QED
      BY <1>1, <3>2 DEF Hash
  <2> QED
    BY <2>1, <2>2
<1>5. ASSUME NEW d \in p[c].uses
      PROVE  Hash(p, d) = Hash(q, d)
  <2>1. d \in Needs(p, c)
    BY DEF Needs
  <2>2. p[d].def = q[d].def /\ p[d].super = q[d].super
    BY <1>3, <2>1
  <2>3. CASE p[d].super = None
    BY <2>2, <2>3 DEF Hash
  <2>4. CASE p[d].super # None
    <3>1. p[d].super \in Needs(p, c)
      BY <2>4 DEF Needs, Extended
    <3>2. p[p[d].super].def = q[p[d].super].def
      BY <1>3, <3>1
    <3> QED
      BY <2>2, <3>2 DEF Hash
  <2> QED
    BY <2>3, <2>4
<1> QED
  BY <1>1, <1>4, <1>5

-----------------------------------------------------------------------------
(* The two directions of needCompile2's answer *)

\* A class found current has the right object file.
LEMMA CurrentIsRight ==
    ASSUME CacheInv, phase # "idle", NEW c \in Classes, Current(c), doubt[c] = {}
    PROVE  obj[c] = Object(parsed, c)
<1>1. parsed \in Sources /\ src \in Sources
  BY DEF CacheInv, TypeOK
<1>2. obj[c] # None /\ otime[c] > stime[c]
  BY DEF Current
<1>3. PICK q \in Sources : obj[c] = Object(q, c) /\ hash[c] = Hash(q, c) /\ depend[c] = Depends(q, c)
  BY <1>2 DEF CacheInv, RecordInv, Recorded
<1>4. obj[c].text = src[c]
  BY <1>2 DEF CacheInv, TextInv
<1>5. parsed[c] = src[c]
  <2>1. otime[c] \in Int /\ stime[c] \in Int
    BY DEF CacheInv, TypeOK
  <2> QED
    BY <1>2, <2>1 DEF CacheInv, ParsedInv
<1>6. q[c] = parsed[c]
  BY <1>3, <1>4, <1>5 DEF Object
<1>7. Hash(q, c) = Hash(parsed, c)
  BY <1>3 DEF Current
<1>8. ASSUME NEW d \in q[c].uses
      PROVE  Hash(q, d) = Hash(parsed, d)
  <2>1. <<d, Hash(q, d)>> \in depend[c]
    BY <1>3 DEF Depends
  <2>2. Hash(parsed, <<d, Hash(q, d)>>[1]) = <<d, Hash(q, d)>>[2]
    BY <2>1 DEF Current, HashListOK
  <2> QED
    BY <2>2
<1> QED
  BY <1>1, <1>3, <1>6, <1>7, <1>8, SameObject

\* A class with the right object file is found current.
LEMMA RightIsCurrent ==
    ASSUME CacheInv, NEW c \in Classes, doubt[c] = {}, obj[c] = Object(parsed, c), otime[c] > stime[c]
    PROVE  Current(c)
<1>1. parsed \in Sources
  BY DEF CacheInv, TypeOK
<1>2. obj[c] # None
  BY <1>1, NoneAssumption
<1>3. PICK q \in Sources : obj[c] = Object(q, c) /\ hash[c] = Hash(q, c) /\ depend[c] = Depends(q, c)
  BY <1>2 DEF CacheInv, RecordInv, Recorded
<1>4. /\ Hash(q, c) = Hash(parsed, c)
      /\ \A d \in q[c].uses : Hash(q, d) = Hash(parsed, d)
  <2>1. Object(q, c) = Object(parsed, c)
    BY <1>3
  <2> HIDE <1>3
  <2> QED
    BY <1>1, <2>1, SameHashes
<1>5. hash[c] # None /\ depend[c] # None
  BY <1>3, NoneAssumption
<1>6. \A e \in depend[c] : Hash(parsed, e[1]) = e[2]
  <2> TAKE e \in depend[c]
  <2>1. PICK d \in q[c].uses : e = <<d, Hash(q, d)>>
    BY <1>3 DEF Depends
  <2> QED
    BY <1>4, <2>1
<1> QED
  BY <1>2, <1>3, <1>4, <1>5, <1>6 DEF Current, HashListOK

-----------------------------------------------------------------------------
(* CacheInv is inductive *)

\* The class a build takes next is one of those left to take.
LEMMA FirstIn ==
    ASSUME NEW S, S # {}
    PROVE  First(S) \in S
BY DEF First

\* A fresh checkout: no object files, no hash files, no build.
LEMMA InitCache == Init => CacheInv
<1> SUFFICES ASSUME Init PROVE CacheInv
  OBVIOUS
<1>1. TypeOK
  <2>1. /\ obj \in [Classes -> Objects \cup {None}]
        /\ hash \in [Classes -> Hashes \cup {None}]
        /\ depend \in [Classes -> DependLists \cup {None}]
        /\ tmp \in [Classes -> DependLists \cup {None}]
        /\ doubt \in [Classes -> SUBSET Doubts]
    BY DEF Init
  <2>2. /\ clock \in 1 .. MaxTime /\ edits \in 0 .. MaxEdits
        /\ stime \in [Classes -> 0 .. MaxTime] /\ otime \in [Classes -> 0 .. MaxTime]
    BY CacheAssumption DEF Init
  <2> QED
    BY <2>1, <2>2 DEF Init, TypeOK
<1>2. RecordInv /\ TextInv /\ ParsedInv
  <2>1. phase = "idle" /\ \A c \in Classes : obj[c] = None
    BY DEF Init
  <2> QED
    BY <2>1 DEF RecordInv, TextInv, ParsedInv
<1>3. TimeInv
  <2>1. clock = 1 /\ \A c \in Classes : otime[c] = 0 /\ stime[c] = 0
    BY DEF Init
  <2>2. \A c \in Classes : otime[c] <= clock /\ stime[c] <= clock
    <3> TAKE c \in Classes
    <3>1. otime[c] = 0 /\ stime[c] = 0 /\ clock = 1
      BY <2>1
    <3> QED
      BY <3>1, SMT
  <2> QED
    BY <2>2 DEF TimeInv
<1>4. WorkInv
  <2>1. phase = "idle" /\ pending = {} /\ todo = {} /\ ~errors
    BY DEF Init
  <2> QED
    BY <2>1 DEF WorkInv
<1>5. DoneInv
  BY CacheAssumption DEF Init, DoneInv
<1> QED
  BY <1>1, <1>2, <1>3, <1>4, <1>5 DEF CacheInv

\* The clock can only move away from the files' times.
LEMMA TickKeeps == CacheInv /\ Tick => CacheInv'
<1> SUFFICES ASSUME CacheInv, Tick PROVE CacheInv'
  OBVIOUS
<1> USE DEF Tick, disk, run
<1>1. TypeOK'
  BY CacheAssumption DEF CacheInv, TypeOK
<1>2. RecordInv'
  BY DEF CacheInv, RecordInv, Recorded
<1>3. TextInv' /\ ParsedInv'
  BY DEF CacheInv, TextInv, ParsedInv
<1>4. TimeInv'
  BY CacheAssumption DEF CacheInv, TypeOK, TimeInv
<1>5. WorkInv' /\ DoneInv'
  BY DEF CacheInv, WorkInv, Written, DoneInv
<1> QED
  BY <1>1, <1>2, <1>3, <1>4, <1>5 DEF CacheInv

\* A source saved now is no older than its object file, so TextInv and
\* ParsedInv ask nothing of it.
LEMMA EditKeeps == ASSUME CacheInv, NEW b \in Classes, Edit(b) PROVE CacheInv'
<1>1. PICK t \in Texts[b] : src' = [src EXCEPT ![b] = t]
  BY DEF Edit
<1>2. /\ clock \in 1 .. MaxTime /\ MaxTime \in Nat /\ MaxEdits \in Nat
      /\ edits \in 0 .. MaxEdits
      /\ otime \in [Classes -> 0 .. MaxTime] /\ stime \in [Classes -> 0 .. MaxTime]
      /\ src \in [Classes -> AllTexts]
  BY CacheAssumption DEF CacheInv, TypeOK, Sources
<1>3. /\ stime' = [stime EXCEPT ![b] = clock] /\ edits' = edits + 1 /\ edits < MaxEdits
      /\ UNCHANGED <<clock, obj, otime, hash, depend, tmp, phase, run, status, doubt>>
  BY DEF Edit
<1>4. stime'[b] = clock /\ \A c \in Classes : c # b => stime'[c] = stime[c] /\ src'[c] = src[c]
  BY <1>1, <1>2, <1>3
<1>5. TypeOK'
  <2>1. t \in AllTexts
    BY DEF AllTexts
  <2>2. src' \in Sources
    BY <1>1, <1>2, <2>1 DEF CacheInv, TypeOK, Sources
  <2>3. stime' \in [Classes -> 0 .. MaxTime] /\ edits' \in 0 .. MaxEdits
    BY <1>2, <1>3
  <2> QED
    BY <1>3, <2>2, <2>3 DEF CacheInv, TypeOK, run
<1>6. RecordInv'
  BY <1>3 DEF CacheInv, RecordInv, Recorded
<1>7. TimeInv'
  BY <1>2, <1>3, <1>4 DEF CacheInv, TimeInv
<1>8. otime'[b] <= stime'[b]
  BY <1>3, <1>4 DEF CacheInv, TimeInv
<1>9. TextInv'
  <2> SUFFICES ASSUME NEW c \in Classes, obj'[c] # None,
                      doubt'[c] \cap {"edited", "killed"} = {}, otime'[c] > stime'[c]
               PROVE  obj'[c].text = src'[c]
    BY DEF TextInv
  <2>1. c # b
    BY <1>2, <1>3, <1>4, <1>8
  <2> QED
    BY <1>3, <1>4, <2>1 DEF CacheInv, TextInv
<1>10. ParsedInv'
  <2> SUFFICES ASSUME phase' # "idle", NEW c \in Classes
               PROVE  parsed'[c] = src'[c] \/ otime'[c] <= stime'[c] \/ "edited" \in doubt'[c]
    BY DEF ParsedInv
  <2>1. CASE c = b
    BY <1>8, <2>1
  <2>2. CASE c # b
    BY <1>3, <1>4, <2>2 DEF CacheInv, ParsedInv, run
  <2> QED
    BY <2>1, <2>2
<1>11. WorkInv' /\ DoneInv'
  BY <1>3 DEF CacheInv, WorkInv, Written, DoneInv, run
<1> QED
  BY <1>5, <1>6, <1>7, <1>9, <1>10, <1>11 DEF CacheInv

\* The build parses the sources as they are.
LEMMA StartBuildKeeps == CacheInv /\ StartBuild => CacheInv'
<1> SUFFICES ASSUME CacheInv, StartBuild PROVE CacheInv'
  OBVIOUS
<1> USE DEF StartBuild, disk
<1>1. TypeOK'
  BY DEF CacheInv, TypeOK
<1>2. RecordInv'
  BY DEF CacheInv, RecordInv, Recorded
<1>3. TextInv' /\ TimeInv'
  BY DEF CacheInv, TextInv, TimeInv
<1>4. ParsedInv'
  BY DEF ParsedInv
<1>5. WorkInv' /\ DoneInv'
  BY DEF WorkInv, DoneInv
<1> QED
  BY <1>1, <1>2, <1>3, <1>4, <1>5 DEF CacheInv

\* compile2 passes over a current class: CurrentIsRight puts it among the
\* classes that are right.
LEMMA ReuseKeeps == CacheInv /\ Reuse => CacheInv'
<1> SUFFICES ASSUME CacheInv, Reuse PROVE CacheInv'
  OBVIOUS
<1> DEFINE c == First(todo)
<1>1. c \in todo /\ c \in Classes /\ Current(c)
  BY FirstIn DEF Reuse, CacheInv, TypeOK
<1>2. /\ phase = "compile" /\ todo' = todo \ {c}
      /\ UNCHANGED <<clock, edits, disk, phase, parsed, cur, pending, errors, status, doubt>>
  BY DEF Reuse
<1> HIDE DEF c
<1>3. TypeOK'
  BY <1>2 DEF CacheInv, TypeOK, disk
<1>4. RecordInv'
  BY <1>2 DEF CacheInv, RecordInv, Recorded, disk
<1>5. TextInv' /\ TimeInv' /\ ParsedInv'
  BY <1>2 DEF CacheInv, TextInv, TimeInv, ParsedInv, disk
<1>6. WorkInv'
  BY <1>2 DEF CacheInv, WorkInv, Written, disk
<1>7. DoneInv'
  <2> SUFFICES ASSUME ~errors, NEW b \in Classes \ (todo \ {c}), doubt[b] = {}
               PROVE  obj[b] = Object(parsed, b)
    BY <1>2 DEF DoneInv, disk
  <2>1. CASE b = c
    BY <1>1, <1>2, <2>1, CurrentIsRight
  <2>2. CASE b # c
    BY <1>2, <2>2 DEF CacheInv, DoneInv
  <2> QED
    BY <2>1, <2>2
<1> QED
  BY <1>3, <1>4, <1>5, <1>6, <1>7 DEF CacheInv

\* After an error DoneInv asks nothing: the build will not exit with 0.
LEMMA CompileErrorKeeps == CacheInv /\ CompileError => CacheInv'
<1> SUFFICES ASSUME CacheInv, CompileError PROVE CacheInv'
  OBVIOUS
<1>1. /\ phase = "compile" /\ todo' \subseteq todo /\ errors' = TRUE
      /\ UNCHANGED <<clock, edits, disk, phase, parsed, cur, pending, status, doubt>>
  BY DEF CompileError
<1>2. TypeOK'
  BY <1>1 DEF CacheInv, TypeOK, disk
<1>3. RecordInv'
  BY <1>1 DEF CacheInv, RecordInv, Recorded, disk
<1>4. TextInv' /\ TimeInv' /\ ParsedInv'
  BY <1>1 DEF CacheInv, TextInv, TimeInv, ParsedInv, disk
<1>5. WorkInv' /\ DoneInv'
  BY <1>1 DEF CacheInv, WorkInv, Written, DoneInv, disk
<1> QED
  BY <1>2, <1>3, <1>4, <1>5 DEF CacheInv

\* A new object file is in doubt until it is recorded.
LEMMA WriteObjectKeeps == CacheInv /\ WriteObject => CacheInv'
<1> SUFFICES ASSUME CacheInv, WriteObject PROVE CacheInv'
  OBVIOUS
<1>1. PICK c \in Classes : c = First(todo) /\ c \in todo
  BY FirstIn DEF WriteObject, CacheInv, TypeOK
<1>2. /\ phase = "compile" /\ ~errors
      /\ phase' = "tmp" /\ todo' = todo \ {c} /\ cur' = c
      /\ UNCHANGED <<clock, edits, src, stime, hash, depend, tmp, parsed, pending, status>>
  BY <1>1 DEF WriteObject
<1>3. PICK how \in {"good", "killed", "unverified"} :
        /\ obj' = [obj EXCEPT ![c] = IF how = "killed" THEN @ ELSE Object(parsed, c)]
        /\ otime' = [otime EXCEPT ![c] = IF how = "killed" THEN @ ELSE clock]
        /\ errors' = (how = "unverified")
        /\ doubt' = [doubt EXCEPT ![c] =
                        {"unrecorded"}
                        \cup (IF how = "good" THEN {} ELSE {how})
                        \cup (IF parsed[c] = src[c] THEN {} ELSE {"edited"})]
  BY <1>1 DEF WriteObject
<1>4. TypeOK
  BY DEF CacheInv
<1>5. /\ obj'[c] = IF how = "killed" THEN obj[c] ELSE Object(parsed, c)
      /\ otime'[c] = IF how = "killed" THEN otime[c] ELSE clock
      /\ doubt'[c] = {"unrecorded"} \cup (IF how = "good" THEN {} ELSE {how})
                        \cup (IF parsed[c] = src[c] THEN {} ELSE {"edited"})
  BY <1>1, <1>3, <1>4 DEF TypeOK
<1>6. \A b \in Classes : b # c => obj'[b] = obj[b] /\ otime'[b] = otime[b] /\ doubt'[b] = doubt[b]
  BY <1>1, <1>3, <1>4 DEF TypeOK
<1>7. "unrecorded" \in doubt'[c] /\ (how = "killed" <=> "killed" \in doubt'[c])
        /\ ("edited" \notin doubt'[c] => parsed[c] = src[c])
  BY <1>5
<1>8. TypeOK'
  <2>1. obj' \in [Classes -> Objects \cup {None}]
    BY <1>1, <1>3, <1>4, FileTypes DEF TypeOK
  <2>2. otime' \in [Classes -> 0 .. MaxTime]
    BY <1>1, <1>3, <1>4, CacheAssumption DEF TypeOK
  <2>3. doubt' \in [Classes -> SUBSET Doubts]
    <3>1. {"unrecorded"} \cup (IF how = "good" THEN {} ELSE {how})
            \cup (IF parsed[c] = src[c] THEN {} ELSE {"edited"}) \in SUBSET Doubts
      BY DEF Doubts
    <3> QED
      BY <1>1, <1>3, <1>4, <3>1 DEF TypeOK
  <2>4. errors' \in BOOLEAN
    BY <1>3
  <2> QED
    BY <1>1, <1>2, <1>4, <2>1, <2>2, <2>3, <2>4 DEF TypeOK
<1>9. RecordInv'
  <2> SUFFICES ASSUME NEW b \in Classes, doubt'[b] = {}, obj'[b] # None
               PROVE  Recorded(b)'
    BY DEF RecordInv
  <2>1. b # c
    BY <1>7
  <2>2. obj'[b] = obj[b] /\ doubt'[b] = doubt[b] /\ hash' = hash /\ depend' = depend
    BY <1>2, <1>6, <2>1
  <2>3. Recorded(b)
    BY <2>2 DEF CacheInv, RecordInv
  <2> QED
    BY <2>2, <2>3 DEF Recorded
<1>10. TextInv'
  <2> SUFFICES ASSUME NEW b \in Classes, obj'[b] # None,
                      doubt'[b] \cap {"edited", "killed"} = {}, otime'[b] > stime'[b]
               PROVE  obj'[b].text = src'[b]
    BY DEF TextInv
  <2>1. CASE b = c
    <3>1. "killed" \notin doubt'[c] /\ "edited" \notin doubt'[c]
      BY <2>1
    <3>2. obj'[c] = Object(parsed, c) /\ parsed[c] = src[c]
      BY <1>5, <1>7, <3>1
    <3> QED
      BY <1>2, <2>1, <3>2 DEF Object
  <2>2. CASE b # c
    BY <1>2, <1>6, <2>2 DEF CacheInv, TextInv
  <2> QED
    BY <2>1, <2>2
<1>11. TimeInv'
  <2> SUFFICES ASSUME NEW b \in Classes PROVE otime'[b] <= clock /\ stime[b] <= clock
    BY <1>2 DEF TimeInv
  <2>1. clock \in Int /\ otime[b] <= clock /\ stime[b] <= clock
    BY <1>4 DEF CacheInv, TypeOK, TimeInv
  <2> QED
    BY <1>5, <1>6, <2>1
<1>12. ParsedInv'
  <2> SUFFICES ASSUME NEW b \in Classes
               PROVE  parsed[b] = src[b] \/ otime'[b] <= stime[b] \/ "edited" \in doubt'[b]
    BY <1>2 DEF ParsedInv
  <2>1. CASE b = c
    BY <1>7, <2>1
  <2>2. CASE b # c
    BY <1>2, <1>6, <2>2 DEF CacheInv, ParsedInv
  <2> QED
    BY <2>1, <2>2
<1>13. WorkInv'
  <2>1. todo \cap pending = {} /\ c \notin pending /\ pending \subseteq Classes
    BY <1>1, <1>4 DEF CacheInv, WorkInv, TypeOK
  <2>2. Written(c)'
    BY <1>2, <1>5, <1>7 DEF Written
  <2>3. \A b \in pending : Written(b)' /\ tmp'[b] = Depends(parsed', b)
    <3> TAKE b \in pending
    <3>1. b \in Classes /\ b # c /\ Written(b) /\ tmp[b] = Depends(parsed, b)
      BY <2>1 DEF CacheInv, WorkInv
    <3> QED
      BY <1>2, <1>6, <3>1 DEF Written
  <2> QED
    BY <1>1, <1>2, <2>1, <2>2, <2>3 DEF WorkInv, Written
<1>14. DoneInv'
  <2> SUFFICES ASSUME NEW b \in Classes \ (todo \ {c}), doubt'[b] = {}
               PROVE  obj'[b] = Object(parsed, b)
    BY <1>2 DEF DoneInv
  <2>1. b # c
    BY <1>7
  <2> QED
    BY <1>2, <1>6, <2>1 DEF CacheInv, DoneInv
<1> QED
  BY <1>8, <1>9, <1>10, <1>11, <1>12, <1>13, <1>14 DEF CacheInv

\* dumpActiveClasses and addLibraryInfoFile: the class becomes pending.
LEMMA WriteTmpKeeps == CacheInv /\ WriteTmp => CacheInv'
<1> SUFFICES ASSUME CacheInv, WriteTmp PROVE CacheInv'
  OBVIOUS
<1>1. TypeOK
  BY DEF CacheInv
<1>2. PICK c \in Classes : c = cur /\ Written(c) /\ c \notin todo /\ c \notin pending
  BY DEF WriteTmp, CacheInv, WorkInv
<1>3. /\ phase = "tmp" /\ phase' = "compile" /\ cur' = None
      /\ tmp' = [tmp EXCEPT ![c] = Depends(parsed, c)]
      /\ pending' \subseteq pending \cup {c}
      /\ UNCHANGED <<clock, edits, src, stime, obj, otime, hash, depend, parsed, todo,
                     errors, status, doubt>>
  BY <1>2 DEF WriteTmp
<1>4. tmp'[c] = Depends(parsed, c) /\ \A b \in Classes : b # c => tmp'[b] = tmp[b]
  BY <1>1, <1>3 DEF TypeOK
<1>5. TypeOK'
  <2>1. tmp' \in [Classes -> DependLists \cup {None}]
    BY <1>1, <1>2, <1>3, FileTypes DEF TypeOK
  <2> QED
    BY <1>1, <1>2, <1>3, <2>1 DEF TypeOK
<1>6. RecordInv'
  BY <1>3 DEF CacheInv, RecordInv, Recorded
<1>7. TextInv' /\ TimeInv' /\ ParsedInv'
  BY <1>3 DEF CacheInv, TextInv, TimeInv, ParsedInv
<1>8. WorkInv'
  <2>1. \A b \in pending' : Written(b)' /\ tmp'[b] = Depends(parsed', b)
    <3> TAKE b \in pending'
    <3>1. CASE b = c
      BY <1>2, <1>3, <1>4, <3>1 DEF Written
    <3>2. CASE b # c
      <4>1. b \in pending /\ b \in Classes
        BY <1>1, <1>3, <3>2 DEF TypeOK
      <4> QED
        BY <1>3, <1>4, <3>2, <4>1 DEF CacheInv, WorkInv, Written
    <3> QED
      BY <3>1, <3>2
  <2>2. todo' \cap pending' = {}
    BY <1>2, <1>3 DEF CacheInv, WorkInv
  <2> QED
    BY <1>3, <2>1, <2>2 DEF WorkInv
<1>9. DoneInv'
  BY <1>3 DEF CacheInv, DoneInv
<1> QED
  BY <1>5, <1>6, <1>7, <1>8, <1>9 DEF CacheInv

\* The .hash file of a pending class, whose object file is still in doubt.
LEMMA WriteHashKeeps == CacheInv /\ WriteHash => CacheInv'
<1> SUFFICES ASSUME CacheInv, WriteHash PROVE CacheInv'
  OBVIOUS
<1>1. TypeOK
  BY DEF CacheInv
<1>2. PICK c \in Classes : c = First(pending) /\ c \in pending
  BY FirstIn DEF WriteHash, CacheInv, TypeOK
<1>3. /\ phase = "compile" /\ phase' = "rename" /\ cur' = c
      /\ hash' = [hash EXCEPT ![c] = Hash(parsed, c)]
      /\ UNCHANGED <<clock, edits, src, stime, obj, otime, depend, tmp, parsed, todo,
                     pending, errors, status, doubt>>
  BY <1>2 DEF WriteHash
<1>4. hash'[c] = Hash(parsed, c) /\ \A b \in Classes : b # c => hash'[b] = hash[b]
  BY <1>1, <1>3 DEF TypeOK
<1>5. TypeOK'
  <2>1. hash' \in [Classes -> Hashes \cup {None}]
    BY <1>1, <1>2, <1>3, FileTypes DEF TypeOK
  <2> QED
    BY <1>1, <1>2, <1>3, <2>1 DEF TypeOK
<1>6. RecordInv'
  <2> SUFFICES ASSUME NEW b \in Classes, doubt[b] = {}, obj[b] # None
               PROVE  Recorded(b)'
    BY <1>3 DEF RecordInv
  <2>1. b # c
    BY <1>2 DEF CacheInv, WorkInv, Written
  <2>2. Recorded(b) /\ hash'[b] = hash[b]
    BY <1>4, <2>1 DEF CacheInv, RecordInv
  <2> QED
    BY <1>3, <2>2 DEF Recorded
<1>7. TextInv' /\ TimeInv' /\ ParsedInv'
  BY <1>3 DEF CacheInv, TextInv, TimeInv, ParsedInv
<1>8. WorkInv'
  BY <1>2, <1>3, <1>4 DEF CacheInv, WorkInv, Written
<1>9. DoneInv'
  BY <1>3 DEF CacheInv, DoneInv
<1> QED
  BY <1>5, <1>6, <1>7, <1>8, <1>9 DEF CacheInv

\* The object, .hash and .depend files of the class now come from one and
\* the same state of the sources, the one this build parsed.
LEMMA RenameDependKeeps == CacheInv /\ RenameDepend => CacheInv'
<1> SUFFICES ASSUME CacheInv, RenameDepend PROVE CacheInv'
  OBVIOUS
<1>1. TypeOK
  BY DEF CacheInv
<1>2. PICK c \in Classes : /\ c = cur /\ c \in pending
                           /\ hash[c] = Hash(parsed, c) /\ tmp[c] = Depends(parsed, c)
                           /\ Written(c)
  BY <1>1 DEF RenameDepend, CacheInv, WorkInv, TypeOK
<1>3. /\ phase = "rename" /\ phase' = "compile" /\ cur' = None
      /\ depend' = [depend EXCEPT ![c] = tmp[c]]
      /\ tmp' = [tmp EXCEPT ![c] = None]
      /\ doubt' = [doubt EXCEPT ![c] = @ \ {"unrecorded"}]
      /\ pending' = pending \ {c}
      /\ UNCHANGED <<clock, edits, src, stime, obj, otime, hash, parsed, todo, errors, status>>
  BY <1>2 DEF RenameDepend
<1>4. /\ depend'[c] = Depends(parsed, c) /\ doubt'[c] = doubt[c] \ {"unrecorded"}
      /\ \A b \in Classes : b # c => /\ depend'[b] = depend[b] /\ doubt'[b] = doubt[b]
                                     /\ tmp'[b] = tmp[b]
  BY <1>1, <1>2, <1>3 DEF TypeOK
<1>5. \A b \in Classes : /\ "killed" \in doubt'[b] <=> "killed" \in doubt[b]
                         /\ "edited" \in doubt'[b] <=> "edited" \in doubt[b]
  BY <1>4
<1>6. TypeOK'
  <2>1. depend' \in [Classes -> DependLists \cup {None}] /\ tmp' \in [Classes -> DependLists \cup {None}]
    BY <1>1, <1>2, <1>3 DEF TypeOK
  <2>2. doubt' \in [Classes -> SUBSET Doubts]
    BY <1>1, <1>3 DEF TypeOK
  <2> QED
    BY <1>1, <1>3, <2>1, <2>2 DEF TypeOK
<1>7. doubt'[c] = {} => obj[c] = Object(parsed, c)
  BY <1>2, <1>5 DEF Written
<1>8. RecordInv'
  <2> SUFFICES ASSUME NEW b \in Classes, doubt'[b] = {}, obj'[b] # None
               PROVE  Recorded(b)'
    BY DEF RecordInv
  <2>1. CASE b = c
    <3>1. parsed \in Sources
      BY <1>1 DEF TypeOK
    <3>2. obj'[b] = Object(parsed, b) /\ hash'[b] = Hash(parsed, b) /\ depend'[b] = Depends(parsed, b)
      BY <1>2, <1>3, <1>4, <1>7, <2>1
    <3> QED
      BY <3>1, <3>2 DEF Recorded
  <2>2. CASE b # c
    <3>1. Recorded(b) /\ depend'[b] = depend[b]
      BY <1>3, <1>4, <2>2 DEF CacheInv, RecordInv
    <3> QED
      BY <1>3, <3>1 DEF Recorded
  <2> QED
    BY <2>1, <2>2
<1>9. TextInv' /\ TimeInv' /\ ParsedInv'
  BY <1>3, <1>5 DEF CacheInv, TextInv, TimeInv, ParsedInv
<1>10. WorkInv'
  <2>1. \A b \in pending' : Written(b)' /\ tmp'[b] = Depends(parsed', b)
    <3> TAKE b \in pending'
    <3>1. b \in pending /\ b \in Classes /\ b # c
      BY <1>1, <1>3 DEF TypeOK
    <3> QED
      BY <1>3, <1>4, <3>1 DEF CacheInv, WorkInv, Written
  <2> QED
    BY <1>3, <2>1 DEF CacheInv, WorkInv
<1>11. DoneInv'
  <2> SUFFICES ASSUME ~errors, NEW b \in Classes \ todo, doubt'[b] = {}
               PROVE  obj[b] = Object(parsed, b)
    BY <1>3 DEF DoneInv
  <2>1. CASE b = c
    BY <1>7, <2>1
  <2>2. CASE b # c
    BY <1>3, <1>4, <2>2 DEF CacheInv, DoneInv
  <2> QED
    BY <2>1, <2>2
<1> QED
  BY <1>6, <1>8, <1>9, <1>10, <1>11 DEF CacheInv

\* The end of a build, orderly or not, touches no file.
LEMMA EndKeeps == CacheInv /\ (Finish \/ Crash) => CacheInv'
<1> SUFFICES ASSUME CacheInv, Finish \/ Crash PROVE CacheInv'
  OBVIOUS
<1>1. /\ phase' = "idle" /\ todo' = {} /\ cur' = None /\ pending' = {} /\ errors' = FALSE
      /\ status' = 1 \/ (status' = 0 /\ phase = "compile" /\ todo = {} /\ ~errors)
      /\ UNCHANGED <<clock, edits, disk, parsed, doubt>>
  BY DEF Finish, Crash, ProcessGone
<1>2. TypeOK'
  BY <1>1 DEF CacheInv, TypeOK, disk
<1>3. RecordInv'
  BY <1>1 DEF CacheInv, RecordInv, Recorded, disk
<1>4. TextInv' /\ TimeInv' /\ ParsedInv'
  BY <1>1 DEF CacheInv, TextInv, TimeInv, ParsedInv, disk
<1>5. WorkInv'
  BY <1>1 DEF WorkInv
<1>6. DoneInv'
  BY <1>1 DEF CacheInv, DoneInv, disk
<1> QED
  BY <1>2, <1>3, <1>4, <1>5, <1>6 DEF CacheInv

\* A step of something else.
LEMMA StutterKeeps == CacheInv /\ UNCHANGED vars => CacheInv'
<1> SUFFICES ASSUME CacheInv, UNCHANGED vars PROVE CacheInv'
  OBVIOUS
<1> USE DEF vars, disk, run
<1>1. TypeOK'
  BY DEF CacheInv, TypeOK
<1>2. RecordInv'
  BY DEF CacheInv, RecordInv, Recorded
<1>3. TextInv' /\ TimeInv' /\ ParsedInv'
  BY DEF CacheInv, TextInv, TimeInv, ParsedInv
<1>4. WorkInv' /\ DoneInv'
  BY DEF CacheInv, WorkInv, Written, DoneInv
<1> QED
  BY <1>1, <1>2, <1>3, <1>4 DEF CacheInv

\* CacheInv holds in every state of every history.
LEMMA Inductive == Spec => []CacheInv
<1>1. CacheInv /\ [Next]_vars => CacheInv'
  BY TickKeeps, EditKeeps, StartBuildKeeps, ReuseKeeps, CompileErrorKeeps,
     WriteObjectKeeps, WriteTmpKeeps, WriteHashKeeps, RenameDependKeeps,
     EndKeeps, StutterKeeps
  DEF Next, Build
<1> QED
  BY InitCache, <1>1, PTL DEF Spec

-----------------------------------------------------------------------------
\* The files on disk and the state of the build keep their types, through
\* edits, builds and crashes.
THEOREM TypeCorrect == Spec => []TypeOK
<1>1. CacheInv => TypeOK
  BY DEF CacheInv
<1> QED
  BY Inductive, <1>1, PTL

\* needCompile2 never wrongly reuses an object file that is not in doubt, for
\* any set of classes and any history of edits, builds and crashes.
THEOREM ReuseIsSafe == Spec => []SafeReuse
<1>1. CacheInv => SafeReuse
  <2> SUFFICES ASSUME CacheInv, NEW c \in Classes, Reusing(c), doubt[c] = {}
               PROVE  obj[c] = Object(parsed, c)
    BY DEF SafeReuse
  <2> QED
    BY CurrentIsRight DEF Reusing
<1> QED
  BY Inductive, <1>1, PTL

\* needCompile2 never asks for a class to be compiled whose object file is
\* right, newer than its source and not in doubt.
THEOREM CompileIsNeeded == Spec => []NoNeedlessCompile
<1>1. CacheInv => NoNeedlessCompile
  BY RightIsCurrent DEF NoNeedlessCompile
<1> QED
  BY Inductive, <1>1, PTL

\* A build that exits with status 0 leaves the object files a full build of
\* the same sources would, but for those in doubt.
THEOREM ExitZeroIsRight == Spec => []BuiltRight
<1>1. CacheInv => BuiltRight
  BY DEF CacheInv, WorkInv, DoneInv, BuiltRight
<1> QED
  BY Inductive, <1>1, PTL

-----------------------------------------------------------------------------
(* The executable *)

\* The composition does nothing to the cache that BuildCache does not.
LEMMA StepOfCache == LinkNext => Next
BY DEF LinkNext, Outside, Uncounted, Overwrite, CountCompiledClass, ErrorsOccurred,
       LinkObjectFiles, LinkFails, Cut, Next, Build

\* The object cache with the executable implements the object cache alone.
THEOREM CacheImplemented == LinkSpec => Spec
<1>1. LinkInit => Init
  BY DEF LinkInit
<1>2. [LinkNext]_<<vars, linkVars>> => [Next]_vars
  BY StepOfCache
<1> QED
  BY <1>1, <1>2, PTL DEF LinkSpec, Spec

\* There is no executable and no build has been run.
LEMMA InitLinked == LinkInit => LinkedInv
BY CacheAssumption DEF LinkInit, Init, LinkedInv, NoFile

\* Edits and time touch neither the build nor the executable.
LEMMA OutsideKeeps == LinkedInv /\ Outside => LinkedInv'
BY DEF LinkedInv, NoFile, Outside, linkVars, Tick, Edit

\* An out-of-date executable is that of a running build, so no build starts,
\* and a class that is written has been counted by then.
LEMMA UncountedKeeps == LinkedInv /\ Uncounted => LinkedInv'
<1> SUFFICES ASSUME LinkedInv, Uncounted PROVE LinkedInv'
  OBVIOUS
<1>1. exe' = exe /\ counted' = counted
  BY DEF Uncounted, linkVars
<1>2. CASE StartBuild
  BY <1>1, <1>2 DEF StartBuild, LinkedInv, NoFile
<1>3. CASE Reuse \/ WriteHash \/ RenameDepend
  <2>1. phase \notin {"idle", "tmp"} /\ phase' # "idle"
    BY <1>3 DEF Reuse, WriteHash, RenameDepend
  <2> QED
    BY <1>1, <2>1 DEF LinkedInv, NoFile
<1> QED
  BY <1>2, <1>3 DEF Uncounted

\* Between the object file and the count the phase is "tmp".
LEMMA OverwriteKeeps == LinkedInv /\ Overwrite => LinkedInv'
BY DEF LinkedInv, NoFile, Overwrite, WriteObject

\* The count comes before the phase is left.
LEMMA CountKeeps == LinkedInv /\ CountCompiledClass => LinkedInv'
BY DEF LinkedInv, NoFile, CountCompiledClass, CompileError, WriteTmp

\* What the end of a process leaves behind.
LEMMA AbandonKeeps == LinkedInv /\ Abandon /\ status' = 1 => LinkedInv'
<1> SUFFICES ASSUME LinkedInv, Abandon, status' = 1 PROVE LinkedInv'
  OBVIOUS
<1>1. counted' \in BOOLEAN
  BY DEF Abandon
<1>2. exe' \in NoFile \cup {"linked", "old", "abandoned"} /\ exe' # "old"
  BY DEF Abandon, LinkedInv, NoFile
<1>3. status' # 0
  OBVIOUS
<1> QED
  BY <1>1, <1>2, <1>3 DEF LinkedInv, NoFile

\* A build with errors has status 1.
LEMMA ErrorsKeep == LinkedInv /\ ErrorsOccurred => LinkedInv'
BY AbandonKeeps DEF ErrorsOccurred, Finish

\* The executable is left alone only if nothing was counted, and then it was
\* not out of date.
LEMMA LinkKeeps == LinkedInv /\ LinkObjectFiles => LinkedInv'
BY DEF LinkedInv, NoFile, LinkObjectFiles, linkVars, Finish, ProcessGone

\* A build cut short has status 1 and leaves nothing in progress.
LEMMA CutKeeps == LinkedInv /\ Cut => LinkedInv'
<1>1. LinkedInv /\ Crash /\ Abandon => LinkedInv'
  BY AbandonKeeps DEF Crash
<1>2. LinkedInv /\ LinkFails => LinkedInv'
  <2> SUFFICES ASSUME LinkFails PROVE LinkedInv'
    OBVIOUS
  <2>1. status' # 0 /\ exe' = "absent"
    BY DEF LinkFails, Crash
  <2>2. counted' \in BOOLEAN
    BY DEF LinkFails
  <2> QED
    BY <2>1, <2>2 DEF LinkedInv, NoFile
<1> QED
  BY <1>1, <1>2 DEF Cut

\* An executable that is out of date always belongs to a build that has
\* counted a class, or is about to (countCompiledClass, linkObjectFiles).
LEMMA LinkedInductive == LinkSpec => []LinkedInv
<1>1. LinkedInv /\ UNCHANGED <<vars, linkVars>> => LinkedInv'
  BY DEF LinkedInv, NoFile, vars, linkVars
<1>2. LinkedInv /\ [LinkNext]_<<vars, linkVars>> => LinkedInv'
  BY <1>1, OutsideKeeps, UncountedKeeps, OverwriteKeeps, CountKeeps, ErrorsKeep,
     LinkKeeps, CutKeeps DEF LinkNext
<1> QED
  BY <1>2, InitLinked, PTL DEF LinkSpec

\* A build that ends with status 0 leaves the executable of a full build of
\* the sources, but for the exceptions ExecutableRight names.
THEOREM ExecutableIsRight == LinkSpec => []ExecutableRight
<1>1. BuiltRight /\ LinkedInv => ExecutableRight
  BY DEF BuiltRight, LinkedInv, NoFile, ExecutableRight
<1> QED
  BY <1>1, CacheImplemented, ExitZeroIsRight, LinkedInductive, PTL
=============================================================================
