---------------------------- MODULE PasskeyCeremony ----------------------------
(***************************************************************************)
(* Signing in with a passkey and adding one: the PasskeyAuth hook          *)
(* (assets/js/passkey_auth.js) between the browser's credential dialog     *)
(* and user_login_live.ex or passkey_registration_live.ex.  The hook's two *)
(* handlers are alike; "ceremony" tells which page is open.                *)
(***************************************************************************)
EXTENDS Naturals, Sequences

CONSTANTS
  MaxPresses,  \* bound: presses of the passkey button
  MaxRejoins   \* bound: connections lost

ASSUME PressesAssumption == MaxPresses \in Nat /\ MaxRejoins \in Nat

NoChallenge == 0

VARIABLES
  ceremony,    \* "authentication" or "registration"
  supported,   \* @passkey_supported
  loading,     \* @passkey_loading, @loading
  challenge,   \* @passkey_challenge
  through,     \* signed in and led away, or @success
  issued,      \* challenges made so far; the number of the newest
  asks, shows, \* the channel: events to the LiveView, diffs with their event
  keyButton,   \* the button in the DOM
  prompts,     \* challenges the browser's dialogs are open for
  presses, rejoins

keyVars == <<ceremony, supported, loading, challenge, through, issued, asks, shows,
             keyButton, prompts, presses, rejoins>>

Ask(kind, n) == [kind |-> kind, n |-> n]
Heard(kind) == asks # <<>> /\ Head(asks).kind = kind /\ asks' = Tail(asks)

\* The button of the template.
KeyButton(hears, busy, done) ==
  IF ~hears \/ done THEN "hidden" ELSE IF busy THEN "disabled" ELSE "enabled"

\* The diff of the new assigns, and the challenge pushed with it.
ShowKey(n) ==
  shows' = Append(shows, [button |-> KeyButton(supported', loading', through'), n |-> n])

\* passkey_support_detected
HandleSupport ==
  /\ Heard("supported") /\ supported' = TRUE
  /\ UNCHANGED <<loading, challenge, through>>
  /\ ShowKey(NoChallenge)
  /\ UNCHANGED <<ceremony, issued, keyButton, prompts, presses, rejoins>>

\* sign_in_with_passkey; create_passkey may fail to make a challenge.
HandlePress ==
  /\ Heard("press")
  /\ \/ /\ issued' = issued + 1 /\ challenge' = issued'
        /\ loading' = TRUE
     \/ /\ ceremony = "registration"
        /\ challenge' = NoChallenge /\ loading' = FALSE
        /\ UNCHANGED issued
  /\ UNCHANGED <<supported, through>>
  /\ ShowKey(challenge')
  /\ UNCHANGED <<ceremony, keyButton, prompts, presses, rejoins>>

\* verify_authentication and verify_registration: only a credential made for
\* the newest challenge can pass, and even that may be refused.
HandleCredential ==
  /\ Heard("credential")
  /\ through' \in {through, through \/ (challenge # NoChallenge /\ Head(asks).n = challenge)}
  /\ loading' = FALSE /\ challenge' = NoChallenge
  /\ UNCHANGED supported
  /\ ShowKey(NoChallenge)
  /\ UNCHANGED <<ceremony, issued, keyButton, prompts, presses, rejoins>>

\* passkey_auth_error and passkey_registration_error
HandleKeyError ==
  /\ Heard("error")
  /\ loading' = FALSE /\ challenge' = NoChallenge
  /\ UNCHANGED <<supported, through>>
  /\ ShowKey(NoChallenge)
  /\ UNCHANGED <<ceremony, issued, keyButton, prompts, presses, rejoins>>

\* A diff is applied, then its event: the browser is asked for a credential.
AskBrowser ==
  /\ shows # <<>> /\ shows' = Tail(shows)
  /\ keyButton' = Head(shows).button
  /\ prompts' = prompts \cup ({Head(shows).n} \ {NoChallenge})
  /\ UNCHANGED <<ceremony, supported, loading, challenge, through, issued, asks,
                 presses, rejoins>>

\* The member or the authenticator signs.
BrowserSigns(n) ==
  /\ n \in prompts /\ prompts' = prompts \ {n}
  /\ asks' = Append(asks, Ask("credential", n))
  /\ UNCHANGED <<ceremony, supported, loading, challenge, through, issued, shows,
                 keyButton, presses, rejoins>>

\* Mutant: an exception is only logged.
BrowserRefusesQuietly(n) ==
  /\ n \in prompts /\ prompts' = prompts \ {n}
  /\ UNCHANGED <<ceremony, supported, loading, challenge, through, issued, asks, shows,
                 keyButton, presses, rejoins>>

\* Cancelled, timed out, refused because another dialog is open, or taken
\* back for a newer one: the catch clause.
BrowserRefuses(n) ==
  /\ n \in prompts /\ prompts' = prompts \ {n}
  /\ asks' = Append(asks, Ask("error", n))
  /\ UNCHANGED <<ceremony, supported, loading, challenge, through, issued, shows,
                 keyButton, presses, rejoins>>

\* The button can be pressed again until the diff that disables it is there.
PressKey ==
  /\ keyButton = "enabled" /\ presses < MaxPresses
  /\ presses' = presses + 1
  /\ asks' = Append(asks, Ask("press", NoChallenge))
  /\ UNCHANGED <<ceremony, supported, loading, challenge, through, issued, shows,
                 keyButton, prompts, rejoins>>

\* The LiveView mounts anew; the hook does not, and its support is not told
\* again: the button stays away until the page is loaded again.
RejoinKeys ==
  /\ ~through /\ rejoins < MaxRejoins /\ rejoins' = rejoins + 1
  /\ supported' = FALSE /\ loading' = FALSE /\ challenge' = NoChallenge
  /\ asks' = <<>>
  /\ shows' = <<[button |-> "hidden", n |-> NoChallenge]>>
  /\ UNCHANGED <<ceremony, through, issued, keyButton, prompts, presses>>

KeyInit ==
  /\ ceremony \in {"authentication", "registration"}
  /\ supported = FALSE /\ loading = FALSE /\ challenge = NoChallenge
  /\ through = FALSE /\ issued = 0
  /\ asks \in {<<>>, <<Ask("supported", NoChallenge)>>}
  /\ shows = <<>> /\ keyButton = "hidden" /\ prompts = {}
  /\ presses = 0 /\ rejoins = 0

KeyEvent == HandleSupport \/ HandlePress \/ HandleCredential \/ HandleKeyError

Browser == \E n \in prompts : BrowserSigns(n) \/ BrowserRefuses(n)

KeyNext == KeyEvent \/ AskBrowser \/ Browser \/ PressKey \/ RejoinKeys

-----------------------------------------------------------------------------
\* Whatever the order of double presses, dialogs and answers, the button does
\* not stay "Signing in..." or "Creating Passkey..." for ever.
CeremonyEnds == keyButton = "disabled" ~> keyButton # "disabled"
=============================================================================
