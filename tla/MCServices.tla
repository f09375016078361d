----------------------------- MODULE MCServices -----------------------------
(***************************************************************************)
(* The parts of the generator and of the generated services that keep no   *)
(* promise about what must happen in the end, checked side by side: a      *)
(* behaviour is a behaviour of one of them, named by part, and the others  *)
(* stand where they started.                                               *)
(***************************************************************************)
EXTENDS MCRateLimit, MCRoutes, MCWiring, EventVersions, MCReads, MCLowering, MCParser

VARIABLE part

rateStands == setup = (CHOOSE s \in RouteSetups : PlanOf(s) \notin {NoPlan, RatePlanError}) /\ connected = {}
routesStand == http = CHOOSE i \in Interfaces : RoutesGenerate(i)
wiringStands == program = MCAlone
eventsStand == releases = <<CHOOSE d \in Declarations : d.upcast = [f \in EventFields |-> NoDefault]>>
readsStand == backend = "memory"
loweringStands == bodyOf = CHOOSE o \in BodyOwners : TRUE
parserStands == file = CHOOSE f \in Files : TRUE

ServicesInit ==
  /\ part \in {"RateLimit", "Routes", "Wiring", "EventVersions", "Reads", "Lowering", "Parser"}
  /\ IF part = "RateLimit" THEN TRUE ELSE rateStands
  /\ IF part = "Routes" THEN TRUE ELSE routesStand
  /\ IF part = "Wiring" THEN TRUE ELSE wiringStands
  /\ IF part = "EventVersions" THEN TRUE ELSE eventsStand
  /\ IF part = "Reads" THEN TRUE ELSE readsStand
  /\ IF part = "Lowering" THEN TRUE ELSE loweringStands
  /\ IF part = "Parser" THEN TRUE ELSE parserStands
  /\ RateInit /\ RoutesInit /\ WiringInit /\ EventsInit /\ ReadsInit /\ LoweringInit /\ ParserInit

ServicesNext ==
  /\ UNCHANGED part
  /\ \/ part = "RateLimit" /\ RateNext
        /\ UNCHANGED <<routesVars, wiringVars, eventVars, readVars, loweringVars, parserVars>>
     \/ part = "Routes" /\ RoutesNext
        /\ UNCHANGED <<rateVars, wiringVars, eventVars, readVars, loweringVars, parserVars>>
     \/ part = "Wiring" /\ WiringNext
        /\ UNCHANGED <<rateVars, routesVars, eventVars, readVars, loweringVars, parserVars>>
     \/ part = "EventVersions" /\ EventsNext
        /\ UNCHANGED <<rateVars, routesVars, wiringVars, readVars, loweringVars, parserVars>>
     \/ part = "Reads" /\ ReadsNext
        /\ UNCHANGED <<rateVars, routesVars, wiringVars, eventVars, loweringVars, parserVars>>
     \/ part = "Lowering" /\ LoweringNext
        /\ UNCHANGED <<rateVars, routesVars, wiringVars, eventVars, readVars, parserVars>>
     \/ part = "Parser" /\ ParserNext
        /\ UNCHANGED <<rateVars, routesVars, wiringVars, eventVars, readVars, loweringVars>>

servicesVars == <<part, rateVars, routesVars, wiringVars, eventVars, readVars, loweringVars, parserVars>>
ServicesSpec == ServicesInit /\ [][ServicesNext]_servicesVars
=============================================================================
