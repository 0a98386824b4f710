------------------------------ MODULE MC_Fans ------------------------------
(* Four parts of what the daemon does to the hardware: the backend over    *)
(* the EC owner, the curves a user draws, the controller that drives them, *)
(* and the power limits. They share no state here, so a behaviour moves    *)
(* one and leaves the others as they start.                                *)
EXTENDS MC_FanBackend, FanControl, PowerLimits

\* profile.rs: the stock curve of the CPU for each PPD profile.
MCTables ==
  {<< <<30, 0>>, <<49, 0>>, <<59, 7>>, <<66, 30>>, <<71, 51>>, <<80, 71>>, <<90, 86>>, <<100, 104>> >>,
   << <<30, 43>>, <<63, 66>>, <<68, 86>>, <<72, 104>>, <<76, 132>>, <<80, 170>>, <<84, 206>>, <<98, 229>> >>,
   << <<58, 20>>, <<61, 43>>, <<64, 56>>, <<68, 66>>, <<72, 86>>, <<77, 104>>, <<81, 122>>, <<98, 175>> >>}

\* Two inputs of which the second is the APU's; one input without a label,
\* whose reading may be no temperature; and no input at all.
Apu(millic) == <<[label |-> "other", value |-> 40000], [label |-> "tctl", value |-> millic]>>
MCSensors ==
  {Apu(40000), Apu(84000), Apu(97000), <<[label |-> "other", value |-> 200000]>>, <<>>}

\* The first fan has any of these curves; the second always the same one,
\* and one of its points is edited too.
MCEditPoints == {<<1, 4>>, <<1, 6>>, <<1, 8>>, <<2, 1>>}
SecondCurve == CHOOSE c \in MCTables : c[1][2] = 43

MCTunings == {[up |-> 1, down |-> 1, seconds |-> 0], [up |-> 3, down |-> 5, seconds |-> 2]}

VARIABLE part

HardwareInit ==
  /\ part \in {"backend", "editor", "controller", "limits"}
  /\ FanInit
  /\ part # "backend" => policy = "calm" /\ desired = NoRequest /\ ~degraded
  /\ FanControlInit
  /\ part # "controller" => tuning.seconds = 0
  /\ authored[2] = SecondCurve
  /\ part \notin {"editor", "controller"} => authored[1] = SecondCurve
  /\ PowerLimitsInit
  /\ part # "limits" =>
       /\ smuPresent /\ fastCap = RangeMax /\ updates = [limit \in Limits |-> 0]
       /\ armoury = [limit \in Limits |-> RangeMin] /\ request = [l \in DOMAIN request |-> RangeMin]

HardwareNext ==
  /\ UNCHANGED part
  /\ \/ part = "backend" /\ FanNext /\ UNCHANGED <<fanControlVars, limitVars>>
     \/ part = "editor" /\ EditCurve /\ UNCHANGED <<vars, limitVars>>
     \/ part = "controller" /\ Control /\ UNCHANGED <<vars, limitVars>>
     \/ part = "limits" /\ PowerLimitsNext /\ UNCHANGED <<vars, fanControlVars>>

HardwareSpec == HardwareInit /\ [][HardwareNext]_<<part, vars, fanControlVars, limitVars>>
=============================================================================
