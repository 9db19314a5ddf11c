------------------------------- MODULE EnvTyped -------------------------------
(***************************************************************************)
(* The environment loader envtyped (03-error-handling-api-design/src): a   *)
(* Loader takes one declaration after the other, reads and parses each     *)
(* variable at once, collects what is wrong, and becomes an Env that is    *)
(* read by name and type.  Another part of the program may change the      *)
(* process's environment between two calls.                                *)
(***************************************************************************)
EXTENDS Integers, SequencesExt

CONSTANTS
    VarNames, BadNames,     \* names that VarName accepts, and names that it does not
    Raws,                   \* values of variables
    Types,
    Literal,                \* type |-> raw values it parses |-> what it makes of them
    Defaults,               \* type |-> a default
    Absent,                 \* a variable that is not set, or not Unicode
    MaxDeclared, MaxChanges \* bounds

ASSUME EnvAssumption ==
    /\ VarNames \cap BadNames = {} /\ Absent \notin Raws
    /\ DOMAIN Literal = Types /\ DOMAIN Defaults = Types
    /\ {MaxDeclared, MaxChanges} \subseteq Nat

VARIABLES
    environ,    \* the process's environment
    changes,    \* how often it has changed
    values,     \* the loader's bag: name |-> a type and a value of it
    problems,   \* the loader's errors
    calls,      \* history: the declarations, each with what it found
    stage       \* "building", "env", "failed"

envVars == <<environ, changes, values, problems, calls, stage>>

EnvInit ==
    /\ environ \in [VarNames -> Raws \cup {Absent}] /\ changes = 0
    /\ values = [n \in {} |-> Absent]
    /\ problems = <<>> /\ calls = <<>>
    /\ stage = "building"

Error(kind, name) == [error |-> kind, var |-> name]

ParsesAs(type, raw) == raw \in DOMAIN Literal[type]

Found(name) == IF name \in VarNames THEN environ[name] ELSE Absent

(***************************************************************************)
(* A declaration: a bad name, a value that does not parse, and a variable  *)
(* that is required and missing are put down as errors, and the call       *)
(* returns; otherwise the bag has the value, or the default, under the     *)
(* name, whatever was there.                                               *)
(***************************************************************************)
Put(name, type, value) ==
    values' = [n \in DOMAIN values \cup {name} |->
                 IF n = name THEN [type |-> type, value |-> value] ELSE values[n]]

\* Reporting the first error only.
FirstOnly(e) == IF problems = <<>> THEN <<e>> ELSE problems

Collected(e) == Append(problems, e)

Fails(e) == problems' = Collected(e) /\ UNCHANGED values

Declared(how, type, name) ==
    /\ stage = "building" /\ Len(calls) < MaxDeclared
    /\ calls' = Append(calls, [how |-> how, type |-> type, name |-> name, raw |-> Found(name)])
    /\ UNCHANGED <<environ, changes, stage>>

\* What require, optional and optional_or have in common.
Reads(type, name) ==
    \/ name \in BadNames /\ Fails(Error("InvalidName", name))
    \/ /\ Found(name) # Absent /\ ~ParsesAs(type, Found(name))
       /\ Fails(Error("Parse", name))
    \/ /\ Found(name) # Absent /\ ParsesAs(type, Found(name))
       /\ Put(name, type, Literal[type][Found(name)])
       /\ UNCHANGED problems

NotSet(name) == name \in VarNames /\ Found(name) = Absent

Require(type, name) ==
    /\ Declared("require", type, name)
    /\ Reads(type, name) \/ (NotSet(name) /\ Fails(Error("Missing", name)))

Optional(type, name) ==
    /\ Declared("optional", type, name)
    /\ Reads(type, name) \/ (NotSet(name) /\ UNCHANGED <<values, problems>>)

OptionalOr(type, name) ==
    /\ Declared("optional_or", type, name)
    /\ \/ Reads(type, name)
       \/ NotSet(name) /\ Put(name, type, Defaults[type]) /\ UNCHANGED problems

Load ==
    /\ stage = "building"
    /\ stage' = IF problems = <<>> THEN "env" ELSE "failed"
    /\ UNCHANGED <<environ, changes, values, problems, calls>>

SetVar(name, raw) ==
    /\ changes < MaxChanges /\ environ[name] # raw
    /\ environ' = [environ EXCEPT ![name] = raw] /\ changes' = changes + 1
    /\ UNCHANGED <<values, problems, calls, stage>>

EnvNext ==
    \/ Load
    \/ \E type \in Types, name \in VarNames \cup BadNames :
          Require(type, name) \/ Optional(type, name) \/ OptionalOr(type, name)
    \/ \E name \in VarNames, raw \in Raws \cup {Absent} : SetVar(name, raw)

EnvSpec == EnvInit /\ [][EnvNext]_envVars

\* Env::get; Absent stands for NotRequested, a name that is not there or not as this type.
Get(type, name) ==
    IF name \in DOMAIN values /\ values[name].type = type THEN values[name].value ELSE Absent

(***************************************************************************)
(* Properties.                                                             *)
(***************************************************************************)

\* What a call has to report, if anything.
Complaint(c) ==
    CASE c.name \in BadNames -> {Error("InvalidName", c.name)}
      [] c.raw # Absent /\ ~ParsesAs(c.type, c.raw) -> {Error("Parse", c.name)}
      [] c.name \in VarNames /\ c.raw = Absent /\ c.how = "require" -> {Error("Missing", c.name)}
      [] OTHER -> {}

\* What a call gives its variable, if anything.
Yields(c) ==
    CASE c.raw # Absent /\ ParsesAs(c.type, c.raw) -> {Literal[c.type][c.raw]}
      [] c.name \in VarNames /\ c.raw = Absent /\ c.how = "optional_or" -> {Defaults[c.type]}
      [] OTHER -> {}

(***************************************************************************)
(* "You get one Vec<Error> with every missing or malformed var, not just   *)
(* the first", whatever is declared twice, with several types, or changes  *)
(* in the environment meanwhile; and an Env that was loaded answers for    *)
(* every variable with what the last declaration that gave it a value      *)
(* gave, under that declaration's type and no other.                       *)
(***************************************************************************)
EveryProblemTold ==
    /\ Len(problems) = Cardinality({i \in DOMAIN calls : Complaint(calls[i]) # {}})
    /\ \A i \in DOMAIN calls : Complaint(calls[i]) # {} =>
          LET before == {j \in 1 .. i : Complaint(calls[j]) # {}}
          IN {problems[Cardinality(before)]} = Complaint(calls[i])
    /\ stage = "failed" <=> stage # "building" /\ problems # <<>>

LastYield(name) ==
    LET at == {i \in DOMAIN calls : calls[i].name = name /\ Yields(calls[i]) # {}}
    IN {calls[i] : i \in {i \in at : \A j \in at : j <= i}}

EnvKeepsItsWord ==
    /\ EveryProblemTold
    /\ stage = "env" =>
          \A name \in VarNames, type \in Types :
             IF \E c \in LastYield(name) : c.type = type
             THEN \E c \in LastYield(name) : {Get(type, name)} = Yields(c)
             ELSE Get(type, name) = Absent
===============================================================================
