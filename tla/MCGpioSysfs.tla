----------------------------- MODULE MCGpioSysfs -----------------------------
(* Instances of GpioSysfs: which programs run side by side. *)
EXTENDS GpioSysfs

\* The two programs that use the same two keys, and two copies of each of the
\* other two.
MCMixes == { ("p" :> "button")     @@ ("q" :> "pwm"),
             ("p" :> "motor")      @@ ("q" :> "motor"),
             ("p" :> "ultrasonic") @@ ("q" :> "ultrasonic") }
=============================================================================
