------------------------------- MODULE Dimmer -------------------------------
(***************************************************************************)
(* What drv/04pwm/key.c promises its user: two settings, changed by two    *)
(* keys, and a light that shows them.  The light is replaced, never        *)
(* altered: it goes out before it comes on with the new settings, and no   *)
(* setting changes twice while the light still shows the one before.  A    *)
(* run that is killed may leave its light on: that one is nobody's, shows  *)
(* what it showed for as long as it burns, and the next run lights up      *)
(* beside it.                                                              *)
(***************************************************************************)
EXTENDS Integers

CONSTANTS
  Fast,   \* the larger speed; the other one is 1
  Names   \* names of the lights that killed runs left on

VARIABLES
  mode,   \* which LEDs ramp: 0, 1 or 2
  speed,  \* step of the ramp: 1 or Fast
  lit,    \* <<mode, speed>> of the running light, <<>> when there is none
  left    \* <<mode, speed>> of each light a killed run left on, by its name

dimmerVars == <<mode, speed, lit, left>>

Dark == <<>>
Settings == <<mode, speed>>
Stale == lit \notin {Dark, Settings}

DimmerInit ==
  /\ mode = 0
  /\ speed = 1
  /\ lit = Dark
  /\ left = [n \in {} |-> Dark]

PressSpeed ==
  /\ ~Stale
  /\ speed' = IF speed = 1 THEN Fast ELSE 1
  /\ UNCHANGED <<mode, lit, left>>

PressMode ==
  /\ ~Stale
  /\ mode' = (mode + 1) % 3
  /\ UNCHANGED <<speed, lit, left>>

GoOut ==
  /\ lit # Dark
  /\ lit' = Dark
  /\ UNCHANGED <<mode, speed, left>>

LightUp ==
  /\ lit = Dark
  /\ lit' = Settings
  /\ UNCHANGED <<mode, speed, left>>

\* A new run of the program starts from the default settings.
Reset ==
  /\ lit = Dark
  /\ mode' = 0
  /\ speed' = 1
  /\ UNCHANGED <<lit, left>>

\* A run ends without its light: from now on nobody changes that one.
Abandon(n) ==
  /\ lit # Dark
  /\ n \notin DOMAIN left
  /\ left' = [m \in DOMAIN left \cup {n} |-> IF m = n THEN lit ELSE left[m]]
  /\ lit' = Dark
  /\ UNCHANGED <<mode, speed>>

\* A light that was left on goes out.
LeftGoesOut(n) ==
  /\ n \in DOMAIN left
  /\ left' = [m \in DOMAIN left \ {n} |-> left[m]]
  /\ UNCHANGED <<mode, speed, lit>>

DimmerNext ==
  \/ PressSpeed \/ PressMode \/ GoOut \/ LightUp \/ Reset
  \/ \E n \in Names : Abandon(n) \/ LeftGoesOut(n)

\* An outdated light goes out, and a dark dimmer lights up; a light that was
\* left on need never go out.
DimmerFairness ==
  /\ WF_dimmerVars(Stale /\ GoOut)
  /\ WF_dimmerVars(LightUp)

DimmerSpec == DimmerInit /\ [][DimmerNext]_dimmerVars /\ DimmerFairness
=============================================================================
