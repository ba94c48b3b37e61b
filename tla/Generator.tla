------------------------------ MODULE Generator ------------------------------
(***************************************************************************)
(* dvb_gen_si at work on one structure at a time.  Every buffer comes from   *)
(* malloc or is a piece of one, so that what is in it is unknown; the calls   *)
(* are those of GeneratorPrograms, one by one.  Sections are sent in the      *)
(* middle of a program, some more than once, and some are initialised again   *)
(* over what was sent.                                                       *)
(*                                                                           *)
(* The structures that are no program of dvb_gen_si are those of Layouts,     *)
(* with any calls.                                                           *)
(***************************************************************************)
EXTENDS Layouts, GeneratorPrograms

VARIABLES
  program,  \* the calls of the program, or Any calls
  next      \* the one it makes next

gvars == <<kind, stage, mem, written, kept, calls, declared, program, next>>

Any == <<"any">>

GInit ==
  /\ Init
  /\ program \in {Any} \cup {p[2] : p \in {q \in Programs : q[1] = kind[1]}}
  /\ next = 1

(* The call at hand, when a program runs and is not over.                     *)
Calls(name) == program # Any /\ next \in DOMAIN program /\ program[next] = name

(* X_init over a buffer that may have been filled before: only its own bits   *)
(* change, and a field that has some of them has lost its value.              *)
InitialiseAgain ==
  LET set == {b[1] : b \in Layout.init}
  IN  /\ Calls("init")
      /\ stage' = "built"
      /\ mem' = [p \in DOMAIN mem |-> IF p \in set THEN Initialised[p] ELSE mem[p]]
      /\ kept' = kept \ {f.name : f \in {g \in Fields : Sources(g) \cap set # {}}}
      /\ written' = written \ {f.name : f \in {g \in Fields : Sources(g) \subseteq set}}
      /\ next' = next + 1
      /\ UNCHANGED <<kind, calls, declared, program>>

CallNext ==
  /\ \E f \in Fields : Calls(f.name) /\ Set(f)
  /\ next' = next + 1
  /\ UNCHANGED <<kind, stage, calls, declared, program>>

(* output_psi_section                                                        *)
Output ==
  /\ Calls("output")
  /\ next' = next + 1
  /\ UNCHANGED <<kind, stage, mem, written, kept, calls, declared, program>>

GNext ==
  \/ program = Any /\ Next /\ UNCHANGED <<program, next>>
  \/ InitialiseAgain \/ CallNext \/ Output

GSpec == GInit /\ [][GNext]_gvars

-----------------------------------------------------------------------------
(* Properties                                                                *)

(* The program is over, or what it has written goes out as it is.            *)
Sent == program # Any /\ (next > Len(program) \/ Calls("output"))

Called == {program[i] : i \in 1 .. next - 1}

(* Fields that do not go out as they were set: two setters store their        *)
(* argument in the wrong place (Desc43 and Desc69 in DvbDescLayouts), and      *)
(* scte35_null_init and scte35_insert_init begin the section again after its  *)
(* adjustment was set. All three are only ever set to zero.                   *)
Lost ==
  {<<"Desc43", "rolloff">>, <<"Desc69", "hour">>, <<"Scte35Null", "pts_adjustment">>,
   <<"Scte35Insert", "pts_adjustment">>}

(* Fields that go out as malloc left them: psi_set_section and                *)
(* psi_set_lastsection are not called for four tables, and eitn_init and       *)
(* eitn_set_ca not for an event that is not scrambled.                        *)
Forgotten ==
  ({"Sdt", "Nit", "Bat", "Eit"} \X {"section", "lastsection"}) \cup {<<"Eitn", "ca">>}

(* Whatever dvb_gen_si sends says what the program asked for, in every field  *)
(* it has set, and holds nothing of what was in the buffer before, the parts  *)
(* apart that are not there for the content given.                            *)
GeneratedWhole ==
  Sent =>
    /\ \A f \in Fields :
         f.name \in Called /\ <<kind[1], f.name>> \notin Lost =>
           f.name \in kept /\ Read(f, mem) = Asked(f)
    /\ \A p \in DOMAIN mem :
         mem[p] = Old =>
           \/ p \in Layout.open
           \/ \E f \in Fields :
                /\ p \in Footprint(f)
                /\ f.name \in Layout.further \/ <<kind[1], f.name>> \in Forgotten

=============================================================================
