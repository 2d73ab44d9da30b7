---------------------------- MODULE BuildAndLink ----------------------------
(***************************************************************************)
(* The object cache together with the executable.  At the end of a build   *)
(* without errors linkObjectFiles links all object files, or leaves an     *)
(* existing executable alone if no class was compiled (compilestate.l).    *)
(* Each step is a step of BuildCache that also says what becomes of the    *)
(* count of compiled classes and of the executable.                        *)
(***************************************************************************)
EXTENDS BuildCache

VARIABLES
    counted,   \* CompileClassCount # 0
    exe        \* the executable, by how it relates to the object files:
               \*   "absent"     there is none
               \*   "killed"     there is none, the linker was killed
               \*   "linked"     linked from the object files there are
               \*   "old"        the build that runs has written others since
               \*   "abandoned"  one that ended without linking has

linkVars == <<counted, exe>>
NoFile == {"absent", "killed"}

LinkInit == Init /\ counted = FALSE /\ exe = "absent"

Outside == (Tick \/ \E c \in Classes : Edit(c)) /\ UNCHANGED linkVars

Uncounted == (StartBuild \/ Reuse \/ WriteHash \/ RenameDepend) /\ UNCHANGED linkVars

Overwrite ==
    /\ WriteObject
    /\ exe' = IF exe = "linked" /\ obj' # obj THEN "old" ELSE exe
    /\ UNCHANGED counted

\* Mutant: only classes that compiled with an error are counted.
CountCompiledClass_Errors ==
    \/ CompileError /\ counted' = TRUE /\ UNCHANGED exe
    \/ WriteTmp /\ UNCHANGED linkVars

\* The end of compile2 for a class that was compiled.
CountCompiledClass ==
    /\ CompileError \/ WriteTmp
    /\ counted' = TRUE
    /\ UNCHANGED exe

\* The process ends and the executable stays as it is.
Abandon ==
    /\ exe' = IF exe = "old" THEN "abandoned" ELSE exe
    /\ counted' = FALSE

\* compilePending returns before the link.
ErrorsOccurred == Finish /\ errors /\ Abandon

\* Nothing was compiled and the executable exists, or it is linked.  A linker
\* that was killed by a signal is taken for one that succeeded.
LinkObjectFiles ==
    /\ Finish /\ ~errors
    /\ \/ ~counted /\ exe \notin NoFile /\ UNCHANGED linkVars
       \/ /\ counted \/ exe \in NoFile
          /\ exe' = "linked" /\ counted' = FALSE
       \/ /\ counted \/ exe \in NoFile
          /\ exe' = IF exe \in NoFile THEN "killed" ELSE "abandoned"
          /\ counted' = FALSE

\* The linker fails, and may have removed the executable.
LinkFails ==
    /\ Crash
    /\ phase = "compile" /\ todo = {} /\ pending = {} /\ ~errors
    /\ counted \/ exe \in NoFile
    /\ exe' = "absent" /\ counted' = FALSE

Cut == (Crash /\ Abandon) \/ LinkFails

LinkNext == Outside \/ Uncounted \/ Overwrite \/ CountCompiledClass
                \/ ErrorsOccurred \/ LinkObjectFiles \/ Cut

LinkSpec == LinkInit /\ [][LinkNext]_<<vars, linkVars>>

-----------------------------------------------------------------------------
\* A build that ends with status 0 leaves the executable of a full build of the
\* sources: the object files that were reused are right, and so was the
\* decision not to link.  The exceptions are object files in doubt, object
\* files that a build cut short wrote and did not link, which no later build
\* links unless it compiles something, and a linker killed by a signal.
ExecutableRight ==
    /\ phase = "idle" /\ status = 0 /\ parsed = src
    /\ exe \notin {"abandoned", "killed"}
    /\ \A c \in Classes : doubt[c] = {}
    => exe = "linked" /\ \A c \in Classes : obj[c] = Object(src, c)

\* An executable that is out of date is on the way to be linked: the build that
\* made it so has counted a class, or is about to.
LinkedInv ==
    /\ counted \in BOOLEAN
    /\ exe \in NoFile \cup {"linked", "old", "abandoned"}
    /\ exe = "old" => phase # "idle" /\ (counted \/ phase = "tmp")
    /\ phase = "idle" => status # 0 \/ exe # "absent"
=============================================================================
