------------------------------- MODULE Frontend -------------------------------
(***************************************************************************)
(* compiler.cpp, compilePipeline: one source goes through the stages, each  *)
(* of which may refuse it by an exception. The one file the imports of a    *)
(* source name declares the functions in Module, of which it exports those  *)
(* in Exports.                                                              *)
(***************************************************************************)
EXTENDS Emission

CONSTANTS Sources,   \* the token sequences to compile
          Module,    \* names of functions, exported and private
          Exports,   \* a sequence of some of them
          Natives    \* names the VM implements

VARIABLES stage,     \* where the source is: lexed, parsed, bound, lowered, emitted or refused
          source,
          ast,       \* what Parse returns
          semantic,  \* the SemanticModel
          ir,        \* the optimized IrProgram
          emitted    \* what the emitter has registered, and the names it has resolved

vars == <<stage, source, ast, semantic, ir, emitted>>

None == <<>>

Init == /\ source \in Sources /\ stage = "lexed"
        /\ ast = None /\ semantic = None /\ ir = None /\ emitted = None

\* directLocalSourceImports and the SemanticEnvironment made of them
ImportedNames(kids) ==
  LET local == SelectSeq(kids, LAMBDA x : /\ x.form = "LocalSourceFile"
                                          /\ HasViSuffix(x.import.target, x.import.quoted))
      Names(x) == [i \in DOMAIN Exports |->
                     <<IF x.import.alias = "" THEN Exports[i] ELSE x.import.alias \o "." \o Exports[i]>>]
  IN FoldLeft(LAMBDA all, x : all \o Names(x), <<>>, local)

Unit(strict) == [t |-> source, ex |-> ast.ex, lm |-> ast.lm, kids |-> ast.kids, strict |-> strict,
                 imported |-> ImportedNames(ast.kids), natives |-> Natives]

ParseStage ==
  /\ stage = "lexed"
  /\ ast' = Parse(source)
  /\ stage' = IF ast'.err THEN "refused" ELSE "parsed"
  /\ UNCHANGED <<source, semantic, ir, emitted>>

SemanticStage ==
  /\ stage = "parsed"
  /\ semantic' = Analyze(Unit(FALSE))
  /\ stage' = IF semantic'.errors # <<>> THEN "refused" ELSE "bound"
  /\ UNCHANGED <<source, ast, ir, emitted>>

LowerStage ==
  /\ stage = "bound" /\ stage' = "lowered"
  /\ ir' = Optimize(Lower(Unit(FALSE), semantic))
  /\ UNCHANGED <<source, ast, semantic, emitted>>

EmitStage ==
  /\ stage = "lowered"
  /\ IF Refused(source, ir) # {} THEN stage' = "refused" /\ UNCHANGED emitted
     ELSE /\ emitted' = Emit(ir, Module)
          /\ stage' = IF emitted'.overflow THEN "refused" ELSE "emitted"
  /\ UNCHANGED <<source, ast, semantic, ir>>

Next == ParseStage \/ SemanticStage \/ LowerStage \/ EmitStage

Spec == Init /\ [][Next]_vars
================================================================================
