---------------------------- MODULE MCV4lControl ----------------------------
(* Devices and requests for V4lControl. *)
EXTENDS V4lControl

Device(hw, disabled, wb, gain, next) ==
  [hw |-> hw, disabled |-> disabled, wantsWb |-> wb, wantsAutogain |-> gain, next |-> next,
   converts |-> TRUE, filters |-> TRUE, gamma |-> 0]

\* Cameras that have nothing; that have flips and a disabled white balance;
\* whose driver has controls after ours, disabled ones among them; that want
\* autogain and get it or not, or a gamma; that do not know NEXT; whose frames
\* must be converted before the filters know them, or need no conversion.
SomeDevices ==
  {Device({}, {}, FALSE, FALSE, TRUE),
   [Device({AWB, HFLIP, VFLIP}, {AWB}, TRUE, FALSE, TRUE) EXCEPT !.filters = FALSE],
   [Device({EXPOSURE, GAIN, AUTOGAIN, 95}, {AUTOGAIN}, TRUE, TRUE, TRUE) EXCEPT !.converts = FALSE],
   Device({AWB, GAMMA, HFLIP, VFLIP}, {}, FALSE, FALSE, FALSE),
   [Device({GAMMA, EXPOSURE, 95}, {GAMMA, EXPOSURE}, FALSE, TRUE, TRUE) EXCEPT !.gamma = 1500],
   Device({EXPOSURE, GAIN}, {}, FALSE, TRUE, TRUE),
   Device({GAIN, VFLIP}, {VFLIP}, FALSE, FALSE, TRUE)}

SomeRequests ==
  {AUTOGAIN :> 0, GAMMA :> 3000, GAMMA :> 499, (AWB :> 0) @@ (GAMMA :> 1000)}
=============================================================================
