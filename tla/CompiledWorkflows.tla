--------------------------- MODULE CompiledWorkflows ---------------------------
(***************************************************************************)
(* What a saved workflow promises about its runs (src/src/config/          *)
(* compiler.ts, workflows/expression.ts, workflows/json-schema.ts) and     *)
(* what the engine then does with it (workflows/engine.ts): the compiler   *)
(* accepts a document, an arrival fills its inputs (triggers/              *)
(* invocation.ts), and step after step evaluates its condition, selects    *)
(* its environment and its agent and renders its prompt from the inputs,   *)
(* the values and the outputs of earlier steps. One run of one document.   *)
(***************************************************************************)
EXTENDS Integers, Sequences, FiniteSets, TLC

CONSTANTS Environments, \* configured environments, by name
          Agents,       \* named agents
          Prompts,      \* what an arrival may say
          None

VARIABLES
  document, \* the saved document
  verdict,  \* of the compiler
  prompt,   \* of the run
  input,    \* the value of the declared input
  run,      \* the run: "stuck" is an error that is retried until its deadline
  step,     \* [status, output] of each step
  launch    \* history: what each step was launched with

vars == <<document, verdict, prompt, input, run, step, launch>>

-----------------------------------------------------------------------------
(* JSON values, by their kind and the text they are interpolated as *)

Text(s) == [kind |-> "string", text |-> s]
Bool(b) == [kind |-> "boolean", text |-> IF b THEN "true" ELSE "false"]
Null == [kind |-> "null", text |-> "null"]
Unavailable == [kind |-> "error", text |-> "evaluation"]
Broken == [kind |-> "error", text |-> "syntax"]
Failed(v) == v.kind = "error"
Truthy(v) == v \notin {Bool(FALSE), Null, Text("")}

\* Expressions; a template is the sequence of its pieces, the plain text among them as
\* literals.
Literal(v) == [kind |-> "literal", value |-> v]
Path(p) == [kind |-> "path", value |-> p]
Not(e) == [kind |-> "not", value |-> e]
Binary(o, l, r) == [kind |-> "binary", operator |-> o, left |-> l, right |-> r]
Malformed == [kind |-> "malformed"]

RECURSIVE Paths(_)
\* expressionPaths
Paths(e) ==
  CASE e.kind = "path" -> {e.value}
    [] e.kind = "not" -> Paths(e.value)
    [] e.kind = "binary" -> Paths(e.left) \cup Paths(e.right)
    [] OTHER -> {}

TemplatePaths(t) == UNION {Paths(t[i]) : i \in DOMAIN t}

Same(o, l, r) == IF o = "==" THEN Bool(l = r) ELSE Bool(l # r)

RECURSIVE Evaluate(_, _), ReadPath(_, _)
\* The value of a path; of a step that has not succeeded, or without the property, none.
ReadPath(p, context) ==
  CASE p[1] = "prompt" -> context.prompt
    [] p[1] = "context" -> context.context
    [] p[1] = "execution" -> Unavailable
    [] p[1] = "input" -> IF p[2] = "i" THEN context.input ELSE Null
    [] p[1] = "value" -> IF p[2] \in DOMAIN context.values
                         THEN Evaluate(context.values[p[2]], context) ELSE Unavailable
    [] p[1] = "step" -> IF /\ p[2] \in DOMAIN context.steps
                           /\ context.steps[p[2]].status = "succeeded"
                           /\ p[3] = "out" /\ context.steps[p[2]].output # None
                        THEN context.steps[p[2]].output ELSE Unavailable

\* evaluateExpression
Evaluate(e, context) ==
  CASE e.kind = "literal" -> e.value
    [] e.kind = "path" -> ReadPath(e.value, context)
    [] e.kind = "malformed" -> Broken
    [] e.kind = "not" -> LET v == Evaluate(e.value, context) IN
                         IF Failed(v) THEN v ELSE Bool(~Truthy(v))
    [] OTHER ->
       LET left == Evaluate(e.left, context)
           right == Evaluate(e.right, context) IN
       CASE Failed(left) -> left
         [] e.operator = "&&" -> IF Truthy(left) THEN right ELSE left
         [] e.operator = "||" -> IF Truthy(left) THEN left ELSE right
         [] e.operator = "??" -> IF left = Null THEN right ELSE left
         [] OTHER -> IF Failed(right) THEN right ELSE Same(e.operator, left, right)

RECURSIVE Rendered(_, _)
\* renderExpressionTemplate: the first piece that fails decides.
Rendered(t, context) ==
  IF t = <<>> THEN Text("")
  ELSE LET first == Evaluate(Head(t), context)
           others == Rendered(Tail(t), context) IN
       CASE Failed(first) -> first
         [] Failed(others) -> others
         [] OTHER -> Text(first.text \o others.text)

-----------------------------------------------------------------------------
(* The compiler. A document has an input (its choices, required, default),
   values, and steps; a schema of a step's output has one property, with its
   choices if it is an enum. *)

Ordinal(d, id) == CHOOSE i \in DOMAIN d.steps : d.steps[i].id = id
Known(d, id) == \E i \in DOMAIN d.steps : d.steps[i].id = id

\* compileInputs
InputCompiles(d) ==
  d.input # None =>
    /\ ~(d.input.required /\ d.input.default # None)
    /\ d.input.choices # None /\ d.input.default # None => d.input.default \in d.input.choices

\* finiteSchemaChoices
SchemaChoices(schema, property) ==
  IF schema # None /\ property = "out" THEN schema.choices ELSE None

\* Mutant: a step may refer to itself and to later ones.
Declared(d, id, ordinal) == Known(d, id)
\* The referenced step comes before.
Earlier(d, id, ordinal) == Known(d, id) /\ Ordinal(d, id) < ordinal

\* validateReference: what a field of the step at this ordinal may name; "authority" for the
\* fields that select where and by whom the step is run.
ReferenceAllowed(d, p, ordinal, authority, contextAllowed) ==
  CASE p[1] = "prompt" -> ~authority
    [] p[1] = "context" -> contextAllowed
    [] p[1] = "execution" -> FALSE
    [] p[1] = "input" -> p[2] = "i" /\ d.input # None /\ (authority => d.input.choices # None)
    [] p[1] = "value" -> p[2] \in DOMAIN d.values
    [] p[1] = "step" ->
         /\ Earlier(d, p[2], ordinal)
         /\ d.steps[Ordinal(d, p[2])].schema # None
         /\ authority => SchemaChoices(d.steps[Ordinal(d, p[2])].schema, p[3]) # None

RECURSIVE FiniteAuthority(_, _)
\* isFiniteAuthorityExpression
FiniteAuthority(d, e) ==
  CASE e.kind = "literal" -> e.value # Null
    [] e.kind = "not" -> TRUE
    [] e.kind = "binary" ->
         \/ e.operator \in {"==", "!="}
         \/ FiniteAuthority(d, e.left) /\ FiniteAuthority(d, e.right)
    [] OTHER ->
         LET p == e.value IN
         CASE p[1] = "input" -> p[2] = "i" /\ d.input # None /\ d.input.choices # None
           [] p[1] = "value" -> p[2] \in DOMAIN d.values /\ FiniteAuthority(d, d.values[p[2]])
           [] p[1] = "step" -> Known(d, p[2])
                               /\ SchemaChoices(d.steps[Ordinal(d, p[2])].schema, p[3]) # None
           [] OTHER -> FALSE

RECURSIVE ValidExpression(_, _, _, _, _, _)
\* validateExpression, with validateValue for every value that it reaches: a value that is
\* being visited closes a cycle, and its own references answer to the field that uses it.
ValidExpression(d, e, ordinal, authority, contextAllowed, visiting) ==
  /\ \A p \in Paths(e) :
       /\ ReferenceAllowed(d, p, ordinal, authority, contextAllowed)
       /\ p[1] = "value" =>
            /\ p[2] \notin visiting
            /\ ValidExpression(d, d.values[p[2]], ordinal, FALSE, FALSE, visiting \cup {p[2]})
  /\ authority => FiniteAuthority(d, e)

\* validateTemplate
ValidTemplate(d, t, ordinal, authority, contextAllowed) ==
  \A i \in DOMAIN t : ValidExpression(d, t[i], ordinal, authority, contextAllowed, {})

\* Mutant: an input that may be left out is taken to have one of its choices.
Offered(i) == i.choices
\* The values of an input with choices: null too when it may be left out.
InputValues(i) ==
  IF i.choices = None THEN None
  ELSE i.choices \cup (IF i.required \/ i.default # None THEN {} ELSE {Null})

\* Mutant: what a comparison yields is always one of two values.
DecidedComparison(o, ls, rs) ==
  CASE o \in {"==", "!="} -> {Bool(TRUE), Bool(FALSE)}
    [] ls = None \/ rs = None -> None
    [] o = "&&" -> {IF Truthy(l) THEN r ELSE l : l \in ls, r \in rs}
    [] o = "||" -> {IF Truthy(l) THEN l ELSE r : l \in ls, r \in rs}
    [] OTHER -> {IF l = Null THEN r ELSE l : l \in ls, r \in rs}
\* finiteBinaryValue over every pair
Combined(o, ls, rs) ==
  CASE ls = None \/ rs = None -> None
    [] o = "&&" -> {IF Truthy(l) THEN r ELSE l : l \in ls, r \in rs}
    [] o = "||" -> {IF Truthy(l) THEN l ELSE r : l \in ls, r \in rs}
    [] o = "??" -> {IF l = Null THEN r ELSE l : l \in ls, r \in rs}
    [] OTHER -> {Same(o, l, r) : l \in ls, r \in rs}

RECURSIVE FiniteValues(_, _, _)
\* finiteExpressionValues and finitePathValues: the values that an expression can have, or
\* None when nothing bounds them.
FiniteValues(d, e, ordinal) ==
  CASE e.kind = "literal" -> {e.value}
    [] e.kind = "not" -> LET vs == FiniteValues(d, e.value, ordinal) IN
                         IF vs = None THEN None ELSE {Bool(~Truthy(v)) : v \in vs}
    [] e.kind = "binary" ->
         Combined(e.operator, FiniteValues(d, e.left, ordinal), FiniteValues(d, e.right, ordinal))
    [] OTHER ->
         LET p == e.value IN
         CASE p[1] = "input" -> IF p[2] = "i" /\ d.input # None THEN InputValues(d.input) ELSE None
           [] p[1] = "value" -> IF p[2] \in DOMAIN d.values
                                THEN FiniteValues(d, d.values[p[2]], ordinal) ELSE None
           [] p[1] = "step" -> IF Earlier(d, p[2], ordinal)
                               THEN SchemaChoices(d.steps[Ordinal(d, p[2])].schema, p[3]) ELSE None
           [] OTHER -> None

RECURSIVE FiniteTexts(_, _, _)
\* finiteTemplateValues
FiniteTexts(d, t, ordinal) ==
  IF t = <<>> THEN {""}
  ELSE LET first == FiniteValues(d, Head(t), ordinal)
           others == FiniteTexts(d, Tail(t), ordinal) IN
       IF first = None \/ others = None THEN None
       ELSE {v.text \o s : v \in first, s \in others}

\* validateEnvironmentSelection, and the same for a selected agent
Selects(d, t, ordinal, names) ==
  /\ ValidTemplate(d, t, ordinal, TRUE, FALSE)
  /\ FiniteTexts(d, t, ordinal) # None
  /\ FiniteTexts(d, t, ordinal) \subseteq names

\* compileStep and validateExpressionContract of one step; the key of a continuation is not
\* looked at.
StepCompiles(d, i) ==
  LET s == d.steps[i] IN
  /\ s.condition # None => ValidExpression(d, s.condition, i, FALSE, FALSE, {})
  /\ Selects(d, s.environment, i, Environments)
  /\ Selects(d, s.agent, i, Agents)
  /\ ValidTemplate(d, s.prompt, i, FALSE, TRUE)

\* compileTrigger: a value alone may refer to any step.
Compiles(d) ==
  /\ InputCompiles(d)
  /\ \A v \in DOMAIN d.values :
       ValidExpression(d, d.values[v], Len(d.steps) + 1, FALSE, FALSE, {v})
  /\ \A i \in DOMAIN d.steps : StepCompiles(d, i)

-----------------------------------------------------------------------------
(* The documents that are tried: a bundle of two steps, the first a classifier, and
   self-contained documents of one step, whose agent may be selected and whose
   continuation may have a key. *)

I == Path(<<"input", "i">>)
V == Path(<<"value", "v">>)
W == Path(<<"value", "w">>)
First == Path(<<"step", "s1", "out">>)
Second == Path(<<"step", "s2", "out">>)
Prompted == Path(<<"prompt">>)
Ambient == Path(<<"context">>)
Execution == Path(<<"execution">>)
Choices == {Text("a"), Text("b")}

Atoms == {Literal(Text("a")), Literal(Null), I, V, First, Second, Prompted, Ambient, Execution,
          Path(<<"step", "s1", "other">>), Path(<<"input", "j">>)}
Compounds ==
  {Binary(o, l, r) : o \in {"==", "&&", "||", "??"}, l \in {V, First},
                     r \in {Literal(Text("a")), I, Prompted}}
Guards == {Not(I), Not(V), Binary("&&", Binary("==", I, Literal(Text("a"))), Literal(Text("b"))),
           Binary("||", Binary("&&", Binary("==", First, I), I), Literal(Text("b"))),
           Binary("||", Binary("&&", V, Literal(Text("a"))), Literal(Text("b")))}
Input(choices, required, default) ==
  [choices |-> choices, required |-> required, default |-> default]
Inputs == {None, Input(None, FALSE, None), Input(Choices, FALSE, None), Input(Choices, TRUE, None),
           Input(Choices, FALSE, Text("a")), Input({Text("a")}, TRUE, None)}
BadInputs == {Input(Choices, TRUE, Text("a")), Input({Text("a")}, FALSE, Text("b"))}
Schema(choices, required) == [choices |-> choices, required |-> required]
Schemas == {None, Schema(None, TRUE), Schema(Choices, TRUE), Schema(Choices, FALSE),
            Schema({Text("a"), Null}, TRUE)}
Step(id, condition, environment, agent, text, schema) ==
  [id |-> id, condition |-> condition, environment |-> environment, agent |-> agent,
   prompt |-> text, schema |-> schema, key |-> None]
Plain == <<Literal(Text("a"))>>
Valued(e) == "v" :> e
Bundle(i, values, condition, schema, second) ==
  [input |-> i, values |-> values,
   steps |-> <<Step("s1", condition, Plain, Plain, Plain, schema), second>>]

-----------------------------------------------------------------------------
(* A run of the document *)

Steps == DOMAIN document.steps
Ambience == Text("history")
Unrun == [status |-> "pending", output |-> None]
\* The texts that no key may be: blank, or longer than 512.
Unusable == {Text(""), Text("long")}

TypeOK ==
  /\ verdict \in {"none", "accepted", "rejected"} /\ prompt \in Prompts \cup {None}
  /\ run \in {"none", "declined", "live", "failed", "stuck", "succeeded"}
  /\ \A i \in DOMAIN step : step[i].status \in {"pending", "skipped", "running", "succeeded"}

Init ==
  /\ document = None /\ verdict = "none" /\ prompt = None /\ input = Null
  /\ run = "none" /\ step = <<>> /\ launch = <<>>

\* compileHubConfig
Save(d) ==
  /\ verdict = "none" /\ document' = d
  /\ verdict' = IF Compiles(d) THEN "accepted" ELSE "rejected"
  /\ UNCHANGED <<prompt, input, run, step, launch>>

\* The second step is run in an environment that the inputs and the first step's output
\* select.
SaveSelection ==
  /\ verdict = "none"
  /\ \E i \in Inputs, c \in {None, Binary("==", I, Literal(Text("a")))},
        v \in {Literal(Text("a")), I, First, Binary("==", Prompted, Literal(Text("a"))),
               Binary("||", First, Literal(Text("a")))},
        schema \in Schemas, e \in Atoms \cup Compounds \cup Guards :
       Save(Bundle(i, Valued(v), c, schema, Step("s2", None, <<e>>, Plain, Plain, None)))

\* ... whose name has two pieces.
SaveConcatenation ==
  /\ verdict = "none"
  /\ \E i \in Inputs \cup BadInputs, schema \in Schemas, e \in {Literal(Text("")), I, First, Literal(Text("a"))},
        f \in {Literal(Text("")), I, V} :
       Save(Bundle(i, Valued(I), None, schema, Step("s2", None, <<e, f>>, Plain, Plain, None)))

\* Conditions and prompts read the first step's output, forward and backward.
SaveReading ==
  /\ verdict = "none"
  /\ \E i \in {Input(None, FALSE, None)}, v \in {First, Second, Ambient, W, V},
        c \in {None, Second, V, Not(I)},
        c2 \in {None, V, First, Binary("==", First, Literal(Text("a")))},
        schema \in Schemas, e \in Atoms :
       Save(Bundle(i, Valued(v), c, schema, Step("s2", c2, Plain, Plain, <<e>>, None)))

\* Values that refer to each other.
SaveCycle ==
  /\ verdict = "none"
  /\ \E v \in {W, Literal(Text("a"))}, w \in {V, W, Not(V), Literal(Text("a"))} :
       Save(Bundle(None, Valued(v) @@ ("w" :> w), None, None,
                   Step("s2", V, Plain, Plain, <<W>>, None)))

\* compileTriggerDocument: one step, a selected agent, a continuation with a key.
SaveSingle ==
  /\ verdict = "none"
  /\ \E i \in Inputs, a \in {I, Literal(Text("a")), Prompted, Binary("??", I, Literal(Text("a")))},
        t \in {Ambient, Literal(Text("a"))},
        k \in {None, <<I>>, <<Prompted>>, <<Malformed>>, <<Execution>>, <<Literal(Text("key"))>>} :
       Save([input |-> i, values |-> <<>>,
             steps |-> <<[Step("run", None, Plain, <<a>>, <<Prompted, t>>, None) EXCEPT !.key = k]>>])

\* parseInvocation: the header of the input, if the text has it, else its default.
Arrive(text, given) ==
  /\ verdict = "accepted" /\ run = "none" /\ prompt' = text
  /\ LET i == document.input
         chosen == IF given = None /\ i # None THEN i.default ELSE given IN
     /\ given # None => i # None
     /\ IF \/ i # None /\ i.required /\ chosen = None
           \/ i # None /\ chosen # None /\ i.choices # None /\ chosen \notin i.choices
        THEN run' = "declined" /\ UNCHANGED <<input, step, launch>>
        ELSE /\ run' = "live" /\ input' = IF chosen = None THEN Null ELSE chosen
             /\ step' = [n \in Steps |-> Unrun] /\ launch' = [n \in Steps |-> None]
  /\ UNCHANGED <<document, verdict>>

\* workflowContext, with the ambient context when there is any
Context(text, ambience) ==
  [prompt |-> text, context |-> ambience, input |-> input, values |-> document.values,
   steps |-> [id \in {document.steps[n].id : n \in Steps} |-> step[Ordinal(document, id)]]]

\* Mutant: the context is taken to be used only by a prompt that is nothing else.
OnlyContext(s) == s.prompt = <<Ambient>>
\* stepUsesTriggerContext
UsesContext(s) == <<"context">> \in TemplatePaths(s.prompt)

Next1(n) == run = "live" /\ step[n].status = "pending"
            /\ \A m \in Steps : m < n => step[m].status \in {"skipped", "succeeded"}

\* processWakeup: a condition that cannot be evaluated fails the run; one that does not hold
\* skips the step.
Conditions(n) ==
  LET c == document.steps[n].condition IN
  IF c = None THEN Bool(TRUE) ELSE Evaluate(c, Context(prompt, Null))
FailCondition(n) ==
  /\ Next1(n) /\ Failed(Conditions(n)) /\ run' = "failed"
  /\ UNCHANGED <<document, verdict, prompt, input, step, launch>>
Skip(n) ==
  /\ Next1(n) /\ ~Failed(Conditions(n)) /\ ~Truthy(Conditions(n))
  /\ step' = [step EXCEPT ![n].status = "skipped"]
  /\ UNCHANGED <<document, verdict, prompt, input, run, launch>>

\* stepEnvironment, materializeAgent, the prompt and continuationKey of the launch intent
Built(n, text) ==
  LET s == document.steps[n]
      c == Context(text, IF UsesContext(s) THEN Ambience ELSE Null) IN
  [environment |-> Rendered(s.environment, c), agent |-> Rendered(s.agent, c),
   prompt |-> Rendered(s.prompt, c),
   key |-> IF s.key = None THEN Null ELSE Rendered(s.key, c)]
\* What buildStepIntent throws, in its order: an evaluation error fails the run, any other
\* leaves the wakeup to be tried again.
Thrown(b) ==
  CASE b.environment = Unavailable -> "failed"
    [] b.environment.text \notin Environments -> "stuck"
    [] b.agent = Unavailable -> "failed"
    [] b.agent.text \notin Agents -> "stuck"
    [] b.prompt = Unavailable -> "failed"
    [] b.key = Unavailable -> "failed"
    [] b.key = Broken \/ b.key \in Unusable -> "stuck"
    [] OTHER -> "live"

\* buildStepIntentOrFail and the reservation of the execution
Launch(n) ==
  /\ Next1(n) /\ ~Failed(Conditions(n)) /\ Truthy(Conditions(n))
  /\ LET b == Built(n, prompt) IN
     /\ run' = Thrown(b)
     /\ IF Thrown(b) = "live"
        THEN /\ step' = [step EXCEPT ![n].status = "running"]
             /\ launch' = [launch EXCEPT ![n] = b]
        ELSE UNCHANGED <<step, launch>>
  /\ UNCHANGED <<document, verdict, prompt, input>>

\* validateStructuredOutput: the outputs that the schema of a step admits.
Valid(schema, output) ==
  IF schema = None THEN output = None
  ELSE IF output = None THEN ~schema.required
  ELSE schema.choices # None => output \in schema.choices
Finish(n, output) ==
  /\ run = "live" /\ step[n].status = "running" /\ Valid(document.steps[n].schema, output)
  /\ step' = [step EXCEPT ![n] = [status |-> "succeeded", output |-> output]]
  /\ UNCHANGED <<document, verdict, prompt, input, run, launch>>

\* finishWorkflowRunIfComplete: every value of the document is evaluated at the end, those
\* that no step used too.
FinalValues ==
  {Evaluate(document.values[v], Context(prompt, Null)) : v \in DOMAIN document.values}
Complete ==
  /\ run = "live" /\ \A n \in Steps : step[n].status \in {"skipped", "succeeded"}
  /\ run' = IF \E v \in FinalValues : Failed(v) THEN "failed" ELSE "succeeded"
  /\ UNCHANGED <<document, verdict, prompt, input, step, launch>>

Answers == Choices \cup {Null, Text(""), None}

Next ==
  \/ SaveSelection \/ SaveConcatenation \/ SaveReading \/ SaveCycle \/ SaveSingle
  \/ \E text \in Prompts, given \in Choices \cup {None} : Arrive(text, given)
  \/ \E n \in DOMAIN step :
       \/ FailCondition(n) \/ Skip(n) \/ Launch(n)
       \/ \E output \in Answers : Finish(n, output)
  \/ Complete

Spec == Init /\ [][Next]_vars

-----------------------------------------------------------------------------
(* Properties *)

\* A run of an accepted workflow is never left to an error that every retry meets again: the
\* environment and the agent that a step selects exist, whatever the inputs and the outputs
\* were. Only a continuation's key, which the compiler does not look at, can do it
\* (workflows/engine.ts, buildStepIntentOrFail).
SelectionsExist == run = "stuck" => \E n \in Steps : document.steps[n].key # None

\* Where a step runs and which agent runs it do not depend on what the arrival's text says
\* beyond its inputs (config/compiler.ts, authority-bearing fields).
PromptHasNoAuthority ==
  \A n \in DOMAIN launch : launch[n] # None =>
    \A text \in Prompts \cup Choices :
      /\ Built(n, text).environment = launch[n].environment
      /\ Built(n, text).agent = launch[n].agent

\* An expression fails a run only over an output that is not there: of a step that was
\* skipped, or a property that its schema does not require.
FailsForCause ==
  run = "failed" =>
    \/ \E n \in Steps : \/ step[n].status = "skipped"
                        \/ /\ step[n].status = "succeeded" /\ step[n].output = None
                           /\ document.steps[n].schema # None
                        \/ document.steps[n].key # None
    \/ \E n \in Steps : <<"step", "s1", "other">> \in
         TemplatePaths(document.steps[n].prompt)

\* A launched step whose prompt names the ambient context has it.
ContextIsGiven ==
  \A n \in DOMAIN launch : launch[n] # None =>
    launch[n].prompt = Rendered(document.steps[n].prompt, Context(prompt, Ambience))
=============================================================================
