---------------------- MODULE MCHAPAuthenticationService ----------------------
EXTENDS HAPAuthenticationService
================================================================================
