------------------------------- MODULE Runner -------------------------------
(***************************************************************************)
(* cairo_vm_hints/src/main.rs: one run of the command line runner.  It     *)
(* parses its arguments, runs a program, and then writes up to five files, *)
(* one after the other, each over whatever is at its path.  Any call into  *)
(* the file system or the virtual machine may fail, and the process may be *)
(* killed between any two steps.                                           *)
(***************************************************************************)
EXTENDS Integers, Sequences

CONSTANTS
  Paths,    \* where files can be
  NoPath,   \* an option that is not given
  Requests  \* the command lines

(* The files, in the order they are written.                               *)
Artifacts == {"trace", "memory", "public", "private", "pie"}

(* The options of a command line: the path given for each file, the flags, *)
(* whether the layout is the dynamic one and whether it comes with a file  *)
(* of parameters.                                                          *)
Options ==
  [out : [Artifacts -> Paths \cup {NoPath}], proof_mode : BOOLEAN,
   from_pie : BOOLEAN, print_output : BOOLEAN,
   dynamic : BOOLEAN, params_file : BOOLEAN]

ASSUME RequestsAssumption == Requests \subseteq Options
ASSUME PathsAssumption == NoPath \notin Paths

VARIABLES
  args,        \* the command line
  pc,          \* the step of run(), or "end"
  file,        \* the file being written: "closed", "created" or "buffered"
  runner,      \* what the virtual machine keeps of the run
  directory,   \* what is at each path
  run_result   \* "running", then Ok, an error, or the kill

runnerVars == <<args, pc, file, runner, directory, run_result>>

Given(artifact) == args.out[artifact] # NoPath
PathOf(artifact) == args.out[artifact]

(* What is at a path: nothing, a file from before the run, or one that the *)
(* run has begun; whole when all of it is there.  A private input from     *)
(* before the run names the paths of the trace and the memory it is about. *)
Absent == [of |-> "nothing"]
Earlier == [of |-> "earlier run"]
EarlierPrivate(named) == [of |-> "earlier run", named |-> named]
Written(artifact, whole) ==
  [of |-> "this run", artifact |-> artifact, whole |-> whole]

FromBefore ==
  {Absent, Earlier}
    \cup {EarlierPrivate({named[1], named[2]}) : named \in Paths \X Paths}

-----------------------------------------------------------------------------
(* What clap makes of the attributes of Args.                              *)
Accepted ==
  /\ args.dynamic => args.params_file
  /\ Given("public") => args.proof_mode
  /\ Given("private") => args.proof_mode /\ Given("trace") /\ Given("memory")
  /\ Given("pie") \/ args.from_pie =>
       ~args.proof_mode /\ ~Given("private") /\ ~Given("public")

(* Mutant: a trace is made for the trace file only.                        *)
TraceEnabledForFile == Given("trace")

(* The parts of the configuration the files depend on.                     *)
TraceEnabled == Given("trace") \/ Given("public")
RelocateMem == Given("memory") \/ Given("public")

(* The files that are written; a private input needs the two it names.     *)
Wanted(artifact) ==
  /\ Given(artifact)
  /\ artifact = "private" => Given("trace") /\ Given("memory")

(* Mutants: the memory is written before the program runs, or the private  *)
(* input before the files it names.                                        *)
StepsMemoryFirst ==
  <<"parse", "params", "memory", "execute", "print", "trace", "public",
    "private", "pie", "end">>
StepsPrivateFirst ==
  <<"parse", "params", "execute", "print", "private", "trace", "memory",
    "public", "pie", "end">>

(* The steps of run().                                                     *)
Steps ==
  <<"parse", "params", "execute", "print", "trace", "memory", "public",
    "private", "pie", "end">>

StepAfter(step) ==
  Steps[(CHOOSE i \in DOMAIN Steps : Steps[i] = step) + 1]

-----------------------------------------------------------------------------
(* The question mark: run() returns the error.  A writer that is open is   *)
(* closed.                                                                 *)
Fail(error) ==
  /\ run_result' = error
  /\ pc' = "end"
  /\ file' = "closed"

GoOn ==
  /\ pc' = StepAfter(pc)
  /\ file' = "closed"
  /\ run_result' = IF pc' = "end" THEN "Ok" ELSE run_result

Put(artifact, whole) ==
  directory' = [directory EXCEPT ![PathOf(artifact)] = Written(artifact, whole)]

-----------------------------------------------------------------------------
(* The private inputs of earlier runs have the files they name, and any of *)
(* the paths may be given to this run.                                     *)
RunnerInit ==
  /\ args \in Requests
  /\ directory \in [Paths -> FromBefore]
  /\ \A path \in Paths, named \in SUBSET Paths :
       directory[path] = EarlierPrivate(named) =>
         \A other \in named : directory[other] = Earlier
  /\ pc = "parse"
  /\ file = "closed"
  /\ runner = [trace |-> FALSE, memory |-> FALSE]
  /\ run_result = "running"

(* Args::try_parse_from; main exits when it fails.                         *)
ParseArgs ==
  /\ pc = "parse"
  /\ IF Accepted THEN GoOn ELSE Fail("Cli")
  /\ UNCHANGED <<args, runner, directory>>

(* The file of layout parameters is read whenever it is given.             *)
ReadLayoutParams ==
  /\ pc = "params"
  /\ GoOn \/ (args.params_file /\ Fail("IO"))
  /\ UNCHANGED <<args, runner, directory>>

(* cairo_run, or cairo_run_pie on a zip file.                              *)
Execute ==
  /\ pc = "execute"
  /\ GoOn
  /\ runner' = [trace |-> TraceEnabled, memory |-> RelocateMem]
  /\ UNCHANGED <<args, directory>>

(* The program cannot be read, or it fails.                                *)
ExecutionFails ==
  /\ pc = "execute"
  /\ \E error \in {"IO", "Runner"} : Fail(error)
  /\ UNCHANGED <<args, runner, directory>>

PrintOutput ==
  /\ pc = "print"
  /\ GoOn \/ (args.print_output /\ Fail("VirtualMachine"))
  /\ UNCHANGED <<args, runner, directory>>

(* A file that is not asked for.                                           *)
SkipFile ==
  /\ pc \in Artifacts /\ ~Wanted(pc)
  /\ GoOn
  /\ UNCHANGED <<args, runner, directory>>

(* What fails before the file is created: there is no relocated trace or   *)
(* memory to take it from, a conversion, or no file can be at the path.    *)
NothingToWrite ==
  \/ pc = "trace" /\ ~runner.trace
  \/ pc = "public" /\ ~(runner.trace /\ runner.memory)

ErrorsBeforeFile ==
  CASE NothingToWrite -> {"Trace"}
    [] pc \in {"public", "private"} -> {"IO", "PublicInput"}
    [] pc = "pie" -> {"IO", "Runner"}
    [] OTHER -> {"IO"}

FailBeforeFile ==
  /\ pc \in Artifacts /\ Wanted(pc) /\ file = "closed"
  /\ \E error \in ErrorsBeforeFile : Fail(error)
  /\ UNCHANGED <<args, runner, directory>>

(* The file is created and cut to nothing.                                 *)
CreateFile ==
  /\ pc \in Artifacts /\ Wanted(pc) /\ file = "closed"
  /\ ~NothingToWrite
  /\ file' = "created"
  /\ Put(pc, FALSE)
  /\ UNCHANGED <<args, pc, runner, run_result>>

(* write_encoded_trace and write_encoded_memory into the buffer.           *)
EncodeToBuffer ==
  /\ pc \in {"trace", "memory"} /\ file = "created"
  /\ \/ file' = "buffered" /\ UNCHANGED <<pc, run_result>>
     \/ Fail("EncodeTrace")
  /\ UNCHANGED <<args, runner, directory>>

(* Mutant: no flush; the writer that goes out of scope tells no error.     *)
FlushOnDrop ==
  /\ pc \in {"trace", "memory"} /\ file = "buffered"
  /\ \E whole \in BOOLEAN : Put(pc, whole)
  /\ GoOn
  /\ UNCHANGED <<args, runner>>

(* FileWriter::flush.  After an error the writer tries once more as it     *)
(* goes out of scope.                                                      *)
Flush ==
  /\ pc \in {"trace", "memory"} /\ file = "buffered"
  /\ \/ Put(pc, pc = "memory" => runner.memory) /\ GoOn
     \/ \E whole \in BOOLEAN : Put(pc, whole) /\ Fail("IO")
  /\ UNCHANGED <<args, runner>>

(* The other files are written in one call.                                *)
WriteFile ==
  /\ pc \in {"public", "private", "pie"} /\ file = "created"
  /\ \/ Put(pc, TRUE) /\ GoOn
     \/ UNCHANGED directory /\ Fail("IO")
  /\ UNCHANGED <<args, runner>>

Kill ==
  /\ pc # "end"
  /\ Fail("killed")
  /\ UNCHANGED <<args, runner, directory>>

RunnerNext ==
  \/ ParseArgs \/ ReadLayoutParams \/ Execute \/ ExecutionFails \/ PrintOutput
  \/ SkipFile \/ FailBeforeFile \/ CreateFile \/ EncodeToBuffer \/ Flush
  \/ WriteFile \/ Kill

RunnerSpec == RunnerInit /\ [][RunnerNext]_runnerVars

-----------------------------------------------------------------------------
WholeHere(artifact) == directory[PathOf(artifact)] = Written(artifact, TRUE)
InDirectory(artifact) ==
  \E whole \in BOOLEAN : directory[PathOf(artifact)] = Written(artifact, whole)

Before(first, second) ==
  \E i, j \in DOMAIN Steps : i < j /\ Steps[i] = first /\ Steps[j] = second

(* No file that is written later goes to the same path.                    *)
NotOverwritten(artifact) ==
  \A other \in Artifacts :
    Before(artifact, other) => PathOf(other) # PathOf(artifact)

(* A run that reports success has written every file the command line asks *)
(* for, all of it, whatever was at the path before; only a file that shares*)
(* its path with a later one is lost.                                      *)
SuccessIsComplete ==
  run_result = "Ok" =>
    \A artifact \in Artifacts :
      Given(artifact) /\ NotOverwritten(artifact) => WholeHere(artifact)

(* A run whose command line is refused or whose program fails leaves every *)
(* file of earlier runs as it was.                                         *)
FailedProgramWritesNothing ==
  (run_result = "Cli" \/ pc \in {"parse", "params", "execute"}
     \/ (run_result = "Runner" /\ ~Given("pie"))) =>
    \A path \in Paths : directory[path] \in FromBefore

(* The private input of this run comes with the trace and the memory it    *)
(* names, both whole, unless these were given paths of later files.        *)
OwnPrivateInput ==
  Given("private") /\ InDirectory("private") =>
    \A named \in {"trace", "memory"} :
      \/ \E other \in Artifacts \ {named} : PathOf(other) = PathOf(named)
      \/ WholeHere(named)

(* A private input from before the run does, as long as this run is given  *)
(* no path it names.  Nothing removes one before the files it names are    *)
(* written over: it then stays with files of this run, begun or whole,     *)
(* until this run's own is put in its place, which a run that was asked to *)
(* has done when it reports success.                                       *)
EarlierPrivateInputs ==
  \A path \in Paths, named \in SUBSET Paths :
    directory[path] = EarlierPrivate(named) =>
      /\ \A other \in named :
           \/ directory[other] = Earlier
           \/ \E artifact \in Artifacts : Given(artifact) /\ PathOf(artifact) = other
      /\ run_result = "Ok" => PathOf("private") # path

(* However the run ends, a private input that it wrote is only there when  *)
(* the trace and the memory it names are: the prover that is given it      *)
(* finds both whole and of the same run.  One of an earlier run loses them *)
(* to a run that is given one of their paths, and after an error or a kill *)
(* it is what the prover finds, beside a trace or memory of this run.      *)
PrivateInputNamesWholeFiles == OwnPrivateInput /\ EarlierPrivateInputs

(* The rules on options that belong together ask for all that the files    *)
(* need: no accepted run ends because it has no trace to write.            *)
AcceptedArgsSuffice == run_result # "Trace"
=============================================================================
