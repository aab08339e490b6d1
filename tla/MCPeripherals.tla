------------------------------ MODULE MCPeripherals -----------------------------
(* The parts around controller, scheduler and store.  They meet in the main loop    *)
(* only, so each is checked by itself: `focus` is the part that moves, the others    *)
(* keep the state they begin in.                                                 *)
EXTENDS SensorAdapter, RtcTimeBridge, HttpServer, RateLimiter, ProductRuntime,
        NetworkManager, SerialLine, TxGate, WiFiPort

CONSTANTS r1, r2, d1, d2, s1, s2, s3, c1, c2, a1, a2, q1, q2

MCRoms == <<r1, r2>>

(* An answer without payload, and one whose payload looks like the start of a frame *)
MCAnswers == {<<3, 0, 0, 0, 0, 0, 0>>, <<3, 0, 1, 0, 0, 3, 0, 0>>}

VARIABLE focus

Parts == {"sensors", "clock", "http", "limiter", "product", "network",
          "line", "gate", "radio"}

allVars == <<sensorVars, rtcVars, httpVars, limiterVars, productVars, netVars,
             lineVars, gateVars, wifiVars, focus>>

PartsInit ==
    /\ focus \in Parts
    /\ SensorInit /\ RtcInit /\ HttpInit /\ LimiterInit /\ ProductInit /\ NetInit
    /\ LineInit /\ GateInit /\ WiFiInit
    /\ focus # "sensors" => mgr.assigned["cabin"] = r1
    /\ focus # "clock" => rtc = [shows |-> None, eosc |-> FALSE, osf |-> TRUE]
    /\ focus # "limiter" => now = 0
    /\ focus # "product" => ~burning

notSensors == <<focus, rtcVars, httpVars, limiterVars, productVars,
                netVars, lineVars, gateVars, wifiVars>>
notClock == <<focus, sensorVars, httpVars, limiterVars, productVars,
              netVars, lineVars, gateVars, wifiVars>>
notHttp == <<focus, sensorVars, rtcVars, limiterVars, productVars,
             netVars, lineVars, gateVars, wifiVars>>
notLimiter == <<focus, sensorVars, rtcVars, httpVars, productVars,
                netVars, lineVars, gateVars, wifiVars>>
notProduct == <<focus, sensorVars, rtcVars, httpVars, limiterVars,
                netVars, lineVars, gateVars, wifiVars>>
notNetwork == <<focus, sensorVars, rtcVars, httpVars, limiterVars,
                productVars, lineVars, gateVars, wifiVars>>
notLine == <<focus, sensorVars, rtcVars, httpVars, limiterVars,
             productVars, netVars, gateVars, wifiVars>>
notGate == <<focus, sensorVars, rtcVars, httpVars, limiterVars,
             productVars, netVars, lineVars, wifiVars>>
notRadio == <<focus, sensorVars, rtcVars, httpVars, limiterVars,
              productVars, netVars, lineVars, gateVars>>

Only(part, A, rest) == focus = part /\ A /\ UNCHANGED rest

PartsNext ==
    \/ Only("sensors", SensorNext, notSensors)
    \/ Only("clock", RtcNext, notClock)
    \/ Only("http", HttpNext, notHttp)
    \/ Only("limiter", LimiterNext, notLimiter)
    \/ Only("product", ProductNext, notProduct)
    \/ Only("network", NetNext, notNetwork)
    \/ Only("line", LineNext, notLine)
    \/ Only("gate", GateNext, notGate)
    \/ Only("radio", WiFiNext, notRadio)

PartsFairness ==
    /\ WF_sensorVars(focus = "sensors" /\ SensorStep)
    /\ WF_sensorVars(focus = "sensors" /\ SensorTick)
    /\ WF_rtcVars(focus = "clock" /\ RtcStep)
    /\ []<>(focus # "http" \/ listener # "up" \/ serverClosed) \/ []<><<HttpStepped>>_httpVars
    /\ WF_httpVars(focus = "http" /\ HttpTick)
    /\ WF_netVars(focus = "network" /\ NetStep)
    /\ WF_netVars(focus = "network" /\ NetTick)
    /\ WF_lineVars(focus = "line" /\ PollLine)
    /\ WF_lineVars(focus = "line" /\ LineTick)

PartsSpec == PartsInit /\ [][PartsNext]_allVars /\ PartsFairness

-------------------------------------------------------------------------------
(* Every part is in a state of its type. *)
PartsTypeOK ==
    /\ SensorTypeOK /\ RtcTypeOK /\ HttpTypeOK /\ LimiterTypeOK
    /\ ProductTypeOK /\ NetTypeOK
    /\ LineTypeOK /\ GateTypeOK /\ WiFiTypeOK

(* What goes wrong stops no part for good: the assigned sensors are sampled again and   *)
(* again (SensorAdapter), a correction reaches the clock chip (RtcTimeBridge), the        *)
(* receiver comes back into step with the heater (SerialLine), waiting connections are   *)
(* served whatever their peers do (HttpServer), the access point is repaired and the      *)
(* known networks are tried one after the other (NetworkManager).                        *)
PartsGoOn ==
    /\ focus = "sensors" => SensorsAreSampled
    /\ focus = "clock" => CorrectionsArePersisted
    /\ focus = "line" => LineRecovers
    /\ focus = "http" => ConnectionsEnd
    /\ focus = "network" => NetworkGoesOn
===============================================================================
