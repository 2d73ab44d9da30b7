----------------------------- MODULE BuildCache -----------------------------
(***************************************************************************)
(* The compiler's object cache (needcompile.l, compile2 in parsedef.l, the *)
(* hash files of compilestate.l) over a history of edits and builds.       *)
(*                                                                         *)
(* A build parses every source file, then takes the classes in order: a    *)
(* class whose object file is newer than its source, whose definition hash *)
(* equals the one in its .hash file and whose .depend file lists only      *)
(* classes with unchanged hashes is CURRENT and its object file is used as *)
(* it is; any other class is STALE and compiled.  Compiling writes the     *)
(* object file and a .tmp dependency file at once, but .hash is written    *)
(* and .tmp renamed to .depend only at the end of the build.               *)
(*                                                                         *)
(* A text is what a source file says of its class: its definition, the     *)
(* class it extends and the classes its method bodies use.  Hashes are     *)
(* taken to be injective and inheritance to be one level deep.             *)
(***************************************************************************)
EXTENDS Integers

CONSTANTS Classes,     \* the classes, one per source file
          None,        \* an absent file; "extends nothing"
          Texts,       \* Texts[c]: the texts the source of c may have
          MaxTime,     \* last tick of the clock
          MaxEdits     \* edits in one history

ASSUME CacheAssumption ==
    /\ None \notin Classes \cup {0, 1}
    /\ \A c \in Classes : \A t \in Texts[c] :
          /\ t.super \in Classes \cup {None}
          /\ t.uses \subseteq Classes \ {c}
          /\ t.super # None => \A u \in Texts[t.super] : u.super = None
    /\ MaxTime \in Nat \ {0}
    /\ MaxEdits \in Nat

VARIABLES
    clock,    \* seconds; st_mtime has no finer grain
    edits,    \* edits so far
    src,      \* the source files
    stime,    \* and their modification times
    obj,      \* object files: the build products, or None
    otime,    \* and their modification times
    hash,     \* .hash files
    depend,   \* .depend files
    tmp,      \* .tmp files
    phase,    \* where the build is
    parsed,   \* the sources as this build parsed them
    todo,     \* classes still to be compiled
    cur,      \* the class whose files are being written, or None
    pending,  \* write_hash_files
    errors,   \* errors_occurred
    status,   \* exit status of the last build, or None while one runs
    doubt     \* history: why the cache files of a class may misdescribe it

disk == <<src, stime, obj, otime, hash, depend, tmp>>
run == <<parsed, todo, cur, pending, errors>>
vars == <<clock, edits, disk, phase, run, status, doubt>>

AllTexts == UNION {Texts[c] : c \in Classes}
Sources == {p \in [Classes -> AllTexts] : \A c \in Classes : p[c] \in Texts[c]}

(***************************************************************************)
(* What a build derives from the sources p.                                *)
(***************************************************************************)

\* Mutant: the hash of a class leaves out its superclass.
Hash_OwnOnly(p, c) == [own |-> p[c].def, super |-> None]

\* Container.calcHash: the definition and, through Super.Hash, the class it
\* extends and that class's definition.  Method bodies do not enter.
Hash(p, c) ==
    [own |-> p[c].def,
     super |-> IF p[c].super = None THEN None ELSE <<p[c].super, p[p[c].super].def>>]

\* Mutant: the used classes are listed before their hashes are calculated.
Depends_NoHash(p, c) == {<<d, None>> : d \in p[c].uses}

\* dumpActiveClasses: every class the compiled bodies refer to, and its hash.
Depends(p, c) == {<<d, Hash(p, d)>> : d \in p[c].uses}

\* The code generated for c is determined by its text and by the definitions
\* of the class it extends, of the classes it uses, and of what those extend.
Extended(p, c) == {p[c].super} \ {None}
Needs(p, c) == Extended(p, c) \cup p[c].uses \cup UNION {Extended(p, d) : d \in p[c].uses}
Object(p, c) == [text |-> p[c], defs |-> {<<d, p[d].def, p[d].super>> : d \in Needs(p, c)}]

\* None is not the content of a file.
ASSUME NoneAssumption ==
    \A p \in Sources, c \in Classes :
        /\ <<c, p[c].def>> # None
        /\ Hash(p, c) # None
        /\ Depends(p, c) # None
        /\ Object(p, c) # None

(***************************************************************************)
(* needCompile2 and HashList.check, against the classes of this build.     *)
(***************************************************************************)
HashListOK(c) == depend[c] # None /\ \A e \in depend[c] : Hash(parsed, e[1]) = e[2]

\* Mutant: an object file as old as its source counts as newer.
Current_SameSecond(c) ==
    /\ obj[c] # None
    /\ otime[c] >= stime[c]
    /\ hash[c] # None
    /\ hash[c] = Hash(parsed, c)
    /\ HashListOK(c)

Current(c) ==
    /\ obj[c] # None
    /\ otime[c] > stime[c]
    /\ hash[c] # None
    /\ hash[c] = Hash(parsed, c)
    /\ HashListOK(c)

Init ==
    /\ clock = 1
    /\ edits = 0
    /\ src \in Sources
    /\ stime = [c \in Classes |-> 0]
    /\ obj = [c \in Classes |-> None]
    /\ otime = [c \in Classes |-> 0]
    /\ hash = [c \in Classes |-> None]
    /\ depend = [c \in Classes |-> None]
    /\ tmp = [c \in Classes |-> None]
    /\ phase = "idle"
    /\ parsed = src
    /\ todo = {}
    /\ cur = None
    /\ pending = {}
    /\ errors = FALSE
    /\ status = None
    /\ doubt = [c \in Classes |-> {}]

-----------------------------------------------------------------------------
(* The world outside the compiler *)

Tick ==
    /\ clock < MaxTime
    /\ clock' = clock + 1
    /\ UNCHANGED <<edits, disk, phase, run, status, doubt>>

\* Somebody saves a source file, before, after or during a build.
Edit(c) ==
    /\ edits < MaxEdits
    /\ \E t \in Texts[c] \ {src[c]} : src' = [src EXCEPT ![c] = t]
    /\ stime' = [stime EXCEPT ![c] = clock]
    /\ edits' = edits + 1
    /\ UNCHANGED <<clock, obj, otime, hash, depend, tmp, phase, run, status,
                   doubt>>

-----------------------------------------------------------------------------
(* A build *)

StartBuild ==
    /\ phase = "idle"
    /\ phase' = "compile"
    /\ parsed' = src
    /\ todo' = Classes
    /\ pending' = {}
    /\ errors' = FALSE
    /\ status' = None
    /\ UNCHANGED <<clock, edits, disk, cur, doubt>>

\* The classes are taken, and their hash files written, in a fixed order.
First(S) == CHOOSE c \in S : TRUE

\* compile2 finds the class CURRENT.
Reuse ==
    /\ phase = "compile"
    /\ todo # {}
    /\ Current(First(todo))
    /\ todo' = todo \ {First(todo)}
    /\ UNCHANGED <<clock, edits, disk, phase, parsed, cur, pending, errors,
                   status, doubt>>

\* compile2 finds the class STALE and the source wrong, or an earlier class
\* was: errors_occurred is never reset and no object file is written.
CompileError ==
    /\ phase = "compile"
    /\ todo # {}
    /\ ~Current(First(todo))
    /\ todo' = todo \ {First(todo)}
    /\ errors' = TRUE
    /\ UNCHANGED <<clock, edits, disk, phase, parsed, cur, pending, status,
                   doubt>>

\* The class compiles: writeOrAssembleBitcode writes its object file.  Instead
\* llc or as may be killed by a signal, for which Process.run returns
\* status >> 8 = 0, or LLVMWriteBitcodeToFile may fail, whose result is dropped:
\* nobody notices and the old object file stays ("killed").  The module may
\* fail LLVM's verifier: that is reported, but the object is written.
WriteObject ==
    /\ phase = "compile"
    /\ todo # {}
    /\ ~Current(First(todo))
    /\ ~errors
    /\ phase' = "tmp"
    /\ todo' = todo \ {First(todo)}
    /\ cur' = First(todo)
    /\ LET c == First(todo) IN
       \E how \in {"good", "killed", "unverified"} :
        /\ obj' = [obj EXCEPT ![c] = IF how = "killed" THEN @ ELSE Object(parsed, c)]
        /\ otime' = [otime EXCEPT ![c] = IF how = "killed" THEN @ ELSE clock]
        /\ errors' = (how = "unverified")
        /\ doubt' = [doubt EXCEPT ![c] =
                        {"unrecorded"}
                        \cup (IF how = "good" THEN {} ELSE {how})
                        \cup (IF parsed[c] = src[c] THEN {} ELSE {"edited"})]
    /\ UNCHANGED <<clock, edits, src, stime, hash, depend, tmp, parsed, pending,
                   status>>

\* dumpActiveClasses writes .tmp, and addLibraryInfoFile remembers the class
\* unless an error was reported.
WriteTmp ==
    /\ phase = "tmp"
    /\ phase' = "compile"
    /\ tmp' = [tmp EXCEPT ![cur] = Depends(parsed, cur)]
    /\ pending' = IF errors THEN pending ELSE pending \cup {cur}
    /\ cur' = None
    /\ UNCHANGED <<clock, edits, src, stime, obj, otime, hash, depend, parsed,
                   todo, errors, status, doubt>>

\* WriteHashFile.write, first half.
WriteHash ==
    /\ phase = "compile"
    /\ todo = {}
    /\ pending # {}
    /\ phase' = "rename"
    /\ cur' = First(pending)
    /\ hash' = [hash EXCEPT ![First(pending)] = Hash(parsed, First(pending))]
    /\ UNCHANGED <<clock, edits, src, stime, obj, otime, depend, tmp, parsed,
                   todo, pending, errors, status, doubt>>

\* Mutant: .tmp is not renamed over an existing .depend.
RenameDepend_KeepsOld ==
    /\ phase = "rename"
    /\ phase' = "compile"
    /\ depend' = [depend EXCEPT ![cur] = IF @ = None THEN tmp[cur] ELSE @]
    /\ tmp' = [tmp EXCEPT ![cur] = None]
    /\ doubt' = [doubt EXCEPT ![cur] = @ \ {"unrecorded"}]
    /\ pending' = pending \ {cur}
    /\ cur' = None
    /\ UNCHANGED <<clock, edits, src, stime, obj, otime, hash, parsed, todo,
                   errors, status>>

\* WriteHashFile.write, second half: .tmp becomes .depend.
RenameDepend ==
    /\ phase = "rename"
    /\ phase' = "compile"
    /\ depend' = [depend EXCEPT ![cur] = tmp[cur]]
    /\ tmp' = [tmp EXCEPT ![cur] = None]
    /\ doubt' = [doubt EXCEPT ![cur] = @ \ {"unrecorded"}]
    /\ pending' = pending \ {cur}
    /\ cur' = None
    /\ UNCHANGED <<clock, edits, src, stime, obj, otime, hash, parsed, todo,
                   errors, status>>

\* The process and its memory are gone.
ProcessGone ==
    /\ phase' = "idle"
    /\ todo' = {}
    /\ cur' = None
    /\ pending' = {}
    /\ errors' = FALSE

\* The end of compilePending and main.  Status 0 means the program was linked
\* or, with nothing compiled and an executable there, left as it was.
Finish ==
    /\ phase = "compile"
    /\ todo = {}
    /\ pending = {}
    /\ status' = IF errors THEN 1 ELSE 0
    /\ ProcessGone
    /\ UNCHANGED <<clock, edits, disk, parsed, doubt>>

\* The compiler is killed, or an exception (an assembler or linker that
\* failed, a full disk, "hash has changed") leaves compilePending.
Crash ==
    /\ phase # "idle"
    /\ status' = 1
    /\ ProcessGone
    /\ UNCHANGED <<clock, edits, disk, parsed, doubt>>

Build == StartBuild \/ Reuse \/ CompileError \/ WriteObject \/ WriteTmp
            \/ WriteHash \/ RenameDepend \/ Finish \/ Crash

Next == Tick \/ (\E c \in Classes : Edit(c)) \/ Build

Spec == Init /\ [][Next]_vars

-----------------------------------------------------------------------------
Defs == {t.def : t \in AllTexts}
Hashes == [own : Defs, super : (Classes \X Defs) \cup {None}]
DependLists == SUBSET (Classes \X Hashes)
Objects == [text : AllTexts, defs : SUBSET (Classes \X Defs \X (Classes \cup {None}))]
Doubts == {"unrecorded", "killed", "unverified", "edited"}

TypeOK ==
    /\ clock \in 1 .. MaxTime
    /\ edits \in 0 .. MaxEdits
    /\ src \in Sources
    /\ stime \in [Classes -> 0 .. MaxTime]
    /\ obj \in [Classes -> Objects \cup {None}]
    /\ otime \in [Classes -> 0 .. MaxTime]
    /\ hash \in [Classes -> Hashes \cup {None}]
    /\ depend \in [Classes -> DependLists \cup {None}]
    /\ tmp \in [Classes -> DependLists \cup {None}]
    /\ phase \in {"idle", "compile", "tmp", "rename"}
    /\ parsed \in Sources
    /\ todo \subseteq Classes
    /\ cur \in Classes \cup {None}
    /\ pending \subseteq Classes
    /\ errors \in BOOLEAN
    /\ status \in {0, 1, None}
    /\ doubt \in [Classes -> SUBSET Doubts]

Reusing(c) == phase = "compile" /\ c \in todo /\ Current(c)

\* needCompile2 answers "no need" only for an object file that was compiled
\* from the source as it stands and against the present definitions of the
\* classes it extends and uses, unless the file is in doubt: the build that
\* wrote it never recorded it, it was not written after all, the verifier refused
\* it or its source was saved again while it was being compiled.
SafeReuse ==
    \A c \in Classes : Reusing(c) /\ doubt[c] = {} => obj[c] = Object(parsed, c)

\* The converse: an object file that is right, newer than its source and not
\* in doubt is not compiled again, so a second build does nothing.
NoNeedlessCompile ==
    \A c \in Classes :
        /\ phase = "compile" /\ c \in todo
        /\ doubt[c] = {} /\ obj[c] = Object(parsed, c) /\ otime[c] > stime[c]
        => Current(c)

\* A build that ends with status 0 leaves every object file not in doubt as a
\* full build of the same sources would, whatever earlier builds left behind.
BuiltRight ==
    phase = "idle" /\ status = 0 /\ parsed = src =>
        \A c \in Classes : doubt[c] = {} => obj[c] = Object(src, c)

(***************************************************************************)
(* The inductive invariant behind the three properties.                    *)
(***************************************************************************)

\* The cache files of c describe one and the same state of the sources.
Recorded(c) ==
    \E q \in Sources :
        obj[c] = Object(q, c) /\ hash[c] = Hash(q, c) /\ depend[c] = Depends(q, c)

RecordInv == \A c \in Classes : doubt[c] = {} /\ obj[c] # None => Recorded(c)

\* An object file newer than the source has the source's text.
TextInv ==
    \A c \in Classes :
        obj[c] # None /\ doubt[c] \cap {"edited", "killed"} = {} /\ otime[c] > stime[c]
            => obj[c].text = src[c]

TimeInv == \A c \in Classes : otime[c] <= clock /\ stime[c] <= clock

\* A source saved since it was parsed is newer than the object file, until
\* this build writes the object file and puts it in doubt.
ParsedInv ==
    phase # "idle" =>
        \A c \in Classes :
            parsed[c] = src[c] \/ otime[c] <= stime[c] \/ "edited" \in doubt[c]

\* A class this build has written and not yet recorded.
Written(c) ==
    "unrecorded" \in doubt[c] /\ ("killed" \notin doubt[c] => obj[c] = Object(parsed, c))

WorkInv ==
    /\ todo \cap pending = {}
    /\ \A c \in pending : Written(c) /\ tmp[c] = Depends(parsed, c)
    /\ phase = "tmp" => cur \in Classes /\ Written(cur) /\ cur \notin todo /\ cur \notin pending
    /\ phase = "rename" => cur \in pending /\ hash[cur] = Hash(parsed, cur)
    /\ phase = "idle" => pending = {} /\ todo = {} /\ ~errors

\* The classes this build is done with are right.
DoneInv ==
    (phase = "idle" => status = 0) /\ ~errors =>
        \A c \in Classes \ todo : doubt[c] = {} => obj[c] = Object(parsed, c)

CacheInv == TypeOK /\ RecordInv /\ TextInv /\ TimeInv /\ ParsedInv /\ WorkInv /\ DoneInv

\* What the comment in needCompile2 says, "no dependant classes have changed
\* either so we can safely use the existing object file without recompiling",
\* of builds that no signal, no verifier failure and no edit during the build
\* disturbed: what is left is a build cut short.
SafeReuseAfterCrash ==
    \A c \in Classes : Reusing(c) /\ doubt[c] \subseteq {"unrecorded"} => obj[c] = Object(parsed, c)
=============================================================================
