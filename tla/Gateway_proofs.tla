---------------------------- MODULE Gateway_proofs ----------------------------
(***************************************************************************)
(* Proofs about the device and its settings page.  The saves are proved    *)
(* about by themselves (SettingsSpec); every step of the page and of the   *)
(* device is one of theirs or leaves the settings alone, so what holds of  *)
(* them holds of both.                                                     *)
(***************************************************************************)
EXTENDS Gateway, SettingsPage, TLAPS

-----------------------------------------------------------------------------
(* Types of the settings                                                   *)

LEMMA SettingTypes ==
    /\ AtBoot \in Setting
    /\ \A k \in Keys : Choices[k] \subseteq Value
    /\ \A s \in Stored : InForce(s) \in Setting /\ Cleared(s) \in Stored
BY DEF AtBoot, Setting, Stored, Keys, Choices, Value, InForce, Cleared

\* What a page may send, setting by setting.
LEMMA FormsTyped ==
    ASSUME NEW f \in Forms
    PROVE  /\ f \in Form
           /\ f["mqtt_en"] \in {"0", "1"} /\ f["meter_type"] \in Offered \cup {Empty}
           /\ f["e450_parity"] = "none"
<1>1. /\ f = [k \in {"mqtt_en", "meter_type", "e450_parity"} |-> f[k]]
      /\ f["mqtt_en"] \in {"0", "1"} /\ f["meter_type"] \in Offered \cup {Empty}
      /\ f["e450_parity"] = "none"
    BY DEF Forms, Choices
<1>2. QED
    BY <1>1 DEF Form, Keys, Value

LEMMA ArrivedType ==
    ASSUME NEW f \in Form, NEW n \in 0 .. Len(Order), NEW piece \in BOOLEAN,
           n = Len(Order) => ~ piece
    PROVE  /\ Arrived(f, n, piece) \in Seq(Field)
           /\ \A i \in DOMAIN Arrived(f, n, piece) :
                 \/ Arrived(f, n, piece)[i].val = f[Arrived(f, n, piece)[i].key]
                 \/ n # Len(Order) /\ Arrived(f, n, piece)[i].val = Cut
<1> DEFINE m == IF piece THEN n + 1 ELSE n
           item(i) == [key |-> Order[i],
                       val |-> IF i = n + 1 /\ f[Order[i]] # Empty THEN Cut ELSE f[Order[i]]]
<1>1. Len(Order) = 3 /\ m \in 0 .. 3
    BY DEF Order
<1>2. \A i \in 1 .. 3 : Order[i] \in Keys
    BY DEF Order, Keys
<1>3. Arrived(f, n, piece) = [i \in 1 .. m |-> item(i)]
    BY DEF Arrived
<1>4. \A i \in 1 .. m : item(i) \in Field
    BY <1>1, <1>2 DEF Form, Value, Field
<1>5. \A i \in 1 .. m : \/ item(i).val = f[item(i).key]
                        \/ n # Len(Order) /\ item(i).val = Cut
    BY <1>1
<1> HIDE DEF m, item
<1>6. QED
    BY <1>1, <1>3, <1>4, <1>5

LEMMA HeadAndTail ==
    ASSUME NEW S, NEW q \in Seq(S), q # <<>>
    PROVE  /\ Head(q) \in S /\ Tail(q) \in Seq(S)
           /\ Head(q) = q[1] /\ Len(q) \in Nat \ {0} /\ Len(Tail(q)) = Len(q) - 1
           /\ \A i \in 1 .. Len(q) - 1 : Tail(q)[i] = q[i + 1]
OBVIOUS

LEMMA AppliedType ==
    ASSUME NEW s \in Stored, NEW field \in Field
    PROVE  /\ Applied(s, field) \in Stored
           /\ \A k \in Keys : \/ Applied(s, field)[k] = s[k]
                              \/ /\ Applied(s, field)[k] = field.val /\ k = field.key
                                 /\ k = "mqtt_en" => field.val = "1"
BY DEF Applied, Written, Stored, Field

\* SettingsTypeOK is kept by every step of the settings.
LEMMA SettingsTyped ==
    ASSUME SettingsTypeOK, [SettingsNext]_settings
    PROVE  SettingsTypeOK'
<1>1. ASSUME NEW f \in Forms, Post(f) PROVE SettingsTypeOK'
    <2>1. form' = f /\ f \in Form
        BY <1>1, FormsTyped DEF Post
    <2>2. todo' \in Seq(Field) /\ whole' \in BOOLEAN
        <3>1. PICK n \in 0 .. Len(Order), piece \in BOOLEAN :
                /\ n = Len(Order) => ~ piece
                /\ todo' = Arrived(f, n, piece) /\ whole' = (n = Len(Order))
            BY <1>1 DEF Post
        <3>2. Arrived(f, n, piece) \in Seq(Field)
            BY <2>1, <3>1, ArrivedType
        <3>3. QED
            BY <3>1, <3>2
    <2>3. stored' \in Stored /\ before' \in Stored /\ failed' \subseteq Keys
        BY <1>1, SettingTypes DEF Post, SettingsTypeOK, Keys
    <2>4. QED
        BY <1>1, <2>1, <2>2, <2>3 DEF Post, SettingsTypeOK
<1>2. CASE SetField
    <2>1. Head(todo) \in Field /\ Tail(todo) \in Seq(Field)
        BY <1>2, HeadAndTail DEF SetField, SettingsTypeOK
    <2>2. stored' \in Stored
        BY <1>2, <2>1, AppliedType DEF SetField, SettingsTypeOK
    <2>3. failed' \subseteq Keys
        BY <1>2, <2>1 DEF SetField, SettingsTypeOK, Field
    <2>4. QED
        BY <1>2, <2>1, <2>2, <2>3 DEF SetField, SettingsTypeOK
<1>3. CASE Reply
    BY <1>3 DEF Reply, save, SettingsTypeOK
<1>4. CASE Restart \/ PowerCut
    <2>1. before' \in Stored /\ form' \in Form /\ failed' \subseteq Keys /\ whole' \in BOOLEAN
        BY <1>4 DEF Restart, PowerCut, Forgotten, Stored, Form, Keys
    <2>2. <<>> \in Seq(Field)
        OBVIOUS
    <2>3. QED
        BY <1>4, <2>1, <2>2, SettingTypes DEF Restart, PowerCut, GoesDown, SettingsTypeOK
<1>5. CASE BootSettings
    <2>1. stored' \in Stored
        BY <1>5 DEF BootSettings, SettingsTypeOK, Stored
    <2>2. QED
        BY <1>5, <2>1, SettingTypes DEF BootSettings, save, SettingsTypeOK
<1>6. CASE UNCHANGED settings
    BY <1>6 DEF settings, save, SettingsTypeOK
<1>7. QED
    BY <1>1, <1>2, <1>3, <1>4, <1>5, <1>6 DEF SettingsNext

LEMMA SettingsInitTyped == SettingsInit => SettingsTypeOK
<1>1. <<>> \in Seq(Field)
    OBVIOUS
<1>2. QED
    BY <1>1, SettingTypes DEF SettingsInit, SettingsTypeOK, Stored, Form, Keys

LEMMA SettingsTypeCorrect == SettingsSpec => []SettingsTypeOK
<1>1. SettingsInit => SettingsTypeOK
    BY SettingsInitTyped
<1>2. SettingsTypeOK /\ [SettingsNext]_settings => SettingsTypeOK'
    BY SettingsTyped
<1>3. QED
    BY <1>1, <1>2, PTL DEF SettingsSpec

-----------------------------------------------------------------------------
(* Saves cut short                                                         *)

\* UsedIsStored holds in every state: every way out of a save goes through a
\* restart, which reads what is stored.
THEOREM UsedAlwaysStored == SettingsSpec => []UsedIsStored
<1>1. SettingsInit => UsedIsStored
    BY DEF SettingsInit, UsedIsStored
<1>2. UsedIsStored /\ [SettingsNext]_settings => UsedIsStored'
    <2> SUFFICES ASSUME UsedIsStored, [SettingsNext]_settings PROVE UsedIsStored'
        OBVIOUS
    <2>1. ASSUME NEW f \in Forms, Post(f) PROVE UsedIsStored'
        BY <2>1 DEF Post, UsedIsStored
    <2>2. CASE SetField
        BY <2>2 DEF SetField, UsedIsStored
    <2>3. CASE Reply
        BY <2>3 DEF Reply, UsedIsStored
    <2>4. CASE Restart \/ PowerCut
        BY <2>4 DEF Restart, PowerCut, GoesDown, UsedIsStored
    <2>5. CASE BootSettings
        BY <2>5 DEF BootSettings, UsedIsStored, InForce
    <2>6. CASE UNCHANGED settings
        BY <2>6 DEF settings, UsedIsStored, InForce
    <2>7. QED
        BY <2>1, <2>2, <2>3, <2>4, <2>5, <2>6 DEF SettingsNext
<1>3. QED
    BY <1>1, <1>2, PTL DEF SettingsSpec

\* The fields still to be looked at are those of the form, but for one value
\* that the end of the body may have cut.
TodoFromForm ==
    saving # "idle" =>
        \A i \in 1 .. Len(todo) :
           todo[i].val = form[todo[i].key] \/ (~ whole /\ todo[i].val = Cut)

\* A save ends with the power.
OffIsIdle == ~ on => saving = "idle"

TornInv == SettingsTypeOK /\ OffIsIdle /\ TodoFromForm /\ TornSave

LEMMA OffIsIdleKept ==
    ASSUME OffIsIdle, [SettingsNext]_settings
    PROVE  OffIsIdle'
BY DEF OffIsIdle, SettingsNext, Post, SetField, Reply, Restart, PowerCut, GoesDown,
   BootSettings, settings

LEMMA PostTears ==
    ASSUME TornInv, NEW f \in Forms, Post(f)
    PROVE  TodoFromForm' /\ TornSave'
<1>1. SettingsTypeOK' /\ stored \in Stored
    BY SettingsTyped DEF TornInv, SettingsTypeOK, SettingsNext
<1>2. form' = f /\ f \in Form
    BY FormsTyped DEF Post
<1>3. PICK n \in 0 .. Len(Order), piece \in BOOLEAN :
        /\ n = Len(Order) => ~ piece
        /\ todo' = Arrived(f, n, piece) /\ whole' = (n = Len(Order))
    BY DEF Post
<1>4. DOMAIN todo' = 1 .. Len(todo')
    BY <1>1 DEF SettingsTypeOK
<1>5. \A i \in DOMAIN todo' : \/ todo'[i].val = f[todo'[i].key]
                              \/ n # Len(Order) /\ todo'[i].val = Cut
    BY <1>2, <1>3, ArrivedType
<1>6. TodoFromForm'
    BY <1>2, <1>3, <1>4, <1>5 DEF TodoFromForm
<1>7. before' = stored
    BY DEF Post
<1>8. \/ stored' = [stored EXCEPT !["mqtt_en"] = "0"]
      \/ stored' = stored /\ failed' = {"mqtt_en"}
    BY DEF Post, Cleared
<1>9. TornSave'
    BY <1>1, <1>7, <1>8 DEF TornSave, Stored, Keys
<1>10. QED
    BY <1>6, <1>9

LEMMA SetFieldTears ==
    ASSUME TornInv, SetField
    PROVE  TodoFromForm' /\ TornSave'
<1>1. /\ stored \in Stored /\ todo \in Seq(Field) /\ todo # <<>>
      /\ saving = "writing" /\ saving' = saving /\ todo' = Tail(todo)
      /\ form' = form /\ before' = before /\ whole' = whole
      /\ failed \subseteq failed'
    BY DEF TornInv, SettingsTypeOK, SetField
<1>2. /\ Head(todo) \in Field /\ Head(todo) = todo[1] /\ Len(todo) \in Nat \ {0}
      /\ Len(Tail(todo)) = Len(todo) - 1
      /\ \A i \in 1 .. Len(todo) - 1 : Tail(todo)[i] = todo[i + 1]
    BY <1>1, HeadAndTail
<1>3. TodoFromForm'
    <2> SUFFICES ASSUME NEW i \in 1 .. Len(todo')
                 PROVE  todo'[i].val = form'[todo'[i].key]
                        \/ (~ whole' /\ todo'[i].val = Cut)
        BY DEF TodoFromForm
    <2>1. i \in 1 .. Len(todo) - 1 /\ todo'[i] = todo[i + 1]
        BY <1>1, <1>2
    <2>2. i + 1 \in 1 .. Len(todo)
        BY <1>2, <2>1
    <2>3. QED
        BY <1>1, <2>1, <2>2 DEF TornInv, TodoFromForm
<1>4. Head(todo).val = form[Head(todo).key] \/ (~ whole /\ Head(todo).val = Cut)
    <2>1. 1 \in 1 .. Len(todo)
        BY <1>2
    <2>2. QED
        BY <1>1, <1>2, <2>1 DEF TornInv, TodoFromForm
<1>5. ASSUME NEW k \in Keys
      PROVE  \/ stored'[k] = stored[k]
             \/ /\ stored'[k] = Head(todo).val /\ k = Head(todo).key
                /\ k = "mqtt_en" => Head(todo).val = "1"
    BY <1>1, <1>2, AppliedType DEF SetField
<1>6. ASSUME NEW k \in Keys
      PROVE  \/ stored'[k] \in {before'[k], form'[k]}
             \/ k = "mqtt_en" /\ stored'[k] = "0"
             \/ ~ whole' /\ stored'[k] = Cut /\ k # "mqtt_en"
    <2>1. CASE stored'[k] = stored[k]
        BY <1>1, <2>1 DEF TornInv, TornSave
    <2>2. CASE stored'[k] = Head(todo).val /\ k = Head(todo).key /\ k # "mqtt_en"
        BY <1>1, <1>4, <2>2
    <2>3. CASE /\ stored'[k] = Head(todo).val /\ k = Head(todo).key
               /\ k = "mqtt_en" /\ Head(todo).val = "1"
        BY <1>1, <1>4, <2>3, SettingsAssumption
    <2>4. QED
        BY <1>5, <2>1, <2>2, <2>3
<1>7. "mqtt_en" \notin failed' => stored'["mqtt_en"] \in {"0", form'["mqtt_en"]}
    <2>1. "mqtt_en" \in Keys
        BY DEF Keys
    <2>2. CASE stored'["mqtt_en"] = stored["mqtt_en"]
        BY <1>1, <2>2 DEF TornInv, TornSave
    <2>3. CASE /\ stored'["mqtt_en"] = Head(todo).val /\ Head(todo).key = "mqtt_en"
               /\ Head(todo).val = "1"
        BY <1>1, <1>4, <2>3, SettingsAssumption
    <2>4. QED
        BY <1>5, <2>1, <2>2, <2>3
<1>8. QED
    BY <1>1, <1>3, <1>6, <1>7 DEF TornSave

LEMMA TornInvInit == SettingsInit => TornInv
BY SettingsInitTyped DEF SettingsInit, TornInv, OffIsIdle, TodoFromForm, TornSave

LEMMA TornInvKept == TornInv /\ [SettingsNext]_settings => TornInv'
<1> SUFFICES ASSUME TornInv, [SettingsNext]_settings
             PROVE  TodoFromForm' /\ TornSave'
    BY SettingsTyped, OffIsIdleKept DEF TornInv
<1>1. ASSUME NEW f \in Forms, Post(f) PROVE TodoFromForm' /\ TornSave'
    BY <1>1, PostTears
<1>2. CASE SetField
    BY <1>2, SetFieldTears
<1>3. CASE Reply
    BY <1>3 DEF Reply, save, TornInv, TodoFromForm, TornSave
<1>4. CASE Restart \/ PowerCut
    BY <1>4 DEF Restart, PowerCut, GoesDown, TodoFromForm, TornSave
<1>5. CASE BootSettings
    BY <1>5 DEF BootSettings, TornInv, OffIsIdle, TodoFromForm, TornSave
<1>6. CASE UNCHANGED settings
    BY <1>6 DEF settings, save, TornInv, TodoFromForm, TornSave
<1>7. QED
    BY <1>1, <1>2, <1>3, <1>4, <1>5, <1>6 DEF SettingsNext

\* TornSave holds in every state, wherever the power goes, whichever writes
\* fail, the clearing of MQTT among them, and however much of the body arrives.
THEOREM TornSaveHolds == SettingsSpec => []TornSave
<1>1. TornInv => TornSave
    BY DEF TornInv
<1>2. QED
    BY <1>1, TornInvInit, TornInvKept, PTL DEF SettingsSpec

-----------------------------------------------------------------------------
(* Saves that arrive whole                                                 *)

\* What a whole save makes of setting k.
Entered(k) == IF form[k] = Empty THEN before[k] ELSE form[k]

\* What the handler starts from.
Begun(k) == IF k = "mqtt_en" THEN "0" ELSE before[k]

\* A field for k is still to be looked at.
Pending(k) == \E i \in 1 .. Len(todo) : todo[i].key = k

\* While a whole body is worked through, a setting of which no write failed is
\* as entered once its field has been looked at, and as the handler started from
\* until then.
PartSaved ==
    saving # "idle" /\ whole =>
        /\ \A k \in Keys \ failed : stored[k] = IF Pending(k) THEN Begun(k) ELSE Entered(k)
        /\ \A i, j \in 1 .. Len(todo) : todo[i].key = todo[j].key => i = j

\* The handler replies when it has looked at every field.
RepliesLast == saving = "saved" => todo = <<>>

\* The checkbox is on, off or not there, in the form and in NVS.
Checkbox ==
    /\ stored["mqtt_en"] \in {"0", "1", Unset}
    /\ saving # "idle" => form["mqtt_en"] \in {"0", "1"}

SaveInv == TornInv /\ PartSaved /\ RepliesLast /\ Checkbox

LEMMA SaveInvInit == SettingsInit => SaveInv
<1> SUFFICES ASSUME SettingsInit PROVE SaveInv
    OBVIOUS
<1>1. TornInv
    BY TornInvInit
<1>2. QED
    BY <1>1 DEF SettingsInit, SaveInv, PartSaved, RepliesLast, Checkbox, Keys

\* A body that arrived whole has one field for every setting.
OneForEach(q) ==
    /\ \A k \in Keys : \E i \in 1 .. Len(q) : q[i].key = k
    /\ \A i, j \in 1 .. Len(q) : q[i].key = q[j].key => i = j

LEMMA WholeBody ==
    ASSUME NEW f \in Form, NEW q, q = Arrived(f, Len(Order), FALSE)
    PROVE  OneForEach(q)
<1>1. /\ Len(Order) = 3 /\ Order[1] = "mqtt_en" /\ Order[2] = "meter_type"
      /\ Order[3] = "e450_parity"
    BY DEF Order
<1>2. q \in Seq(Field)
    <2>1. Len(Order) \in 0 .. Len(Order) /\ FALSE \in BOOLEAN
        BY <1>1
    <2>2. \A n \in 0 .. Len(Order) : Arrived(f, n, FALSE) \in Seq(Field)
        BY ArrivedType
    <2>3. QED
        BY <2>1, <2>2
<1>3. Len(q) = 3 /\ \A i \in 1 .. 3 : q[i].key = Order[i]
    BY <1>1, <1>2 DEF Arrived
<1>4. \A i \in 1 .. 3 : i = 1 \/ i = 2 \/ i = 3
    OBVIOUS
<1>5. /\ 1 \in 1 .. 3 /\ 2 \in 1 .. 3 /\ 3 \in 1 .. 3
      /\ q[1].key = "mqtt_en" /\ q[2].key = "meter_type" /\ q[3].key = "e450_parity"
  <2>1. 1 \in 1 .. 3 /\ 2 \in 1 .. 3 /\ 3 \in 1 .. 3
      OBVIOUS
  <2>2. q[1].key = Order[1] /\ q[2].key = Order[2] /\ q[3].key = Order[3]
      BY <1>3, <2>1
  <2>3. QED
      BY <1>1, <2>1, <2>2
<1>6. \A k \in Keys : \E i \in 1 .. Len(q) : q[i].key = k
  <2>1. \A k \in Keys : k = "mqtt_en" \/ k = "meter_type" \/ k = "e450_parity"
      BY DEF Keys
  <2>2. QED
      BY <1>3, <1>5, <2>1
<1>7. \A i, j \in 1 .. Len(q) : q[i].key = q[j].key => i = j
    BY <1>3, <1>4, <1>5
<1>8. QED
    BY <1>6, <1>7 DEF OneForEach

LEMMA PostBegins ==
    ASSUME SaveInv, NEW f \in Forms, Post(f)
    PROVE  PartSaved' /\ RepliesLast' /\ Checkbox'
<1>1. stored \in Stored
    BY DEF SaveInv, TornInv, SettingsTypeOK
<1>2. form' = f /\ f \in Form /\ f["mqtt_en"] \in {"0", "1"}
    BY FormsTyped DEF Post
<1>3. before' = stored /\ saving' = "writing"
    BY DEF Post
<1>4. \/ stored' = [stored EXCEPT !["mqtt_en"] = "0"]
      \/ stored' = stored /\ failed' = {"mqtt_en"}
    BY DEF Post, Cleared
<1>5. PartSaved'
    <2> SUFFICES ASSUME whole'
                 PROVE  /\ \A k \in Keys \ failed' :
                              /\ stored'[k] = IF k = "mqtt_en" THEN "0" ELSE stored[k]
                              /\ \E i \in 1 .. Len(todo') : todo'[i].key = k
                        /\ \A i, j \in 1 .. Len(todo') :
                              todo'[i].key = todo'[j].key => i = j
        BY <1>3 DEF PartSaved, Pending, Begun
    <2>1. todo' = Arrived(f, Len(Order), FALSE)
        BY DEF Post
    <2>2. \A k \in Keys \ failed' : stored'[k] = IF k = "mqtt_en" THEN "0" ELSE stored[k]
        BY <1>1, <1>4 DEF Stored
    <2>3. OneForEach(todo')
        BY <1>2, <2>1, WholeBody
    <2>4. QED
        BY <2>2, <2>3 DEF OneForEach
<1>6. Checkbox'
    <2>1. "mqtt_en" \in Keys
        BY DEF Keys
    <2>2. stored'["mqtt_en"] \in {"0", stored["mqtt_en"]}
        BY <1>1, <1>4, <2>1 DEF Stored
    <2>3. QED
        BY <1>2, <2>2 DEF SaveInv, Checkbox
<1>7. RepliesLast'
    BY <1>3 DEF RepliesLast
<1>8. QED
    BY <1>5, <1>6, <1>7

LEMMA SetFieldSaves ==
    ASSUME SaveInv, SetField
    PROVE  PartSaved' /\ RepliesLast' /\ Checkbox'
<1>1. /\ stored \in Stored /\ todo \in Seq(Field) /\ todo # <<>>
      /\ saving = "writing" /\ saving' = saving /\ todo' = Tail(todo)
      /\ form' = form /\ before' = before /\ whole' = whole
      /\ form \in Form /\ before \in Stored
    BY DEF SaveInv, TornInv, SettingsTypeOK, SetField
<1>2. /\ Head(todo) \in Field /\ Head(todo) = todo[1] /\ Len(todo) \in Nat \ {0}
      /\ Len(Tail(todo)) = Len(todo) - 1
      /\ \A i \in 1 .. Len(todo) - 1 : Tail(todo)[i] = todo[i + 1]
    BY <1>1, HeadAndTail
<1>3. /\ Len(todo') = Len(todo) - 1
      /\ \A i \in 1 .. Len(todo') : i + 1 \in 1 .. Len(todo) /\ todo'[i] = todo[i + 1]
    BY <1>1, <1>2
<1>4. PICK h \in Field : h = Head(todo)
    BY <1>2
<1>5. h.key \in Keys /\ 1 \in 1 .. Len(todo) /\ todo[1] = h
    BY <1>2, <1>4 DEF Field
<1>6. \/ stored' = Applied(stored, h) /\ failed' = failed
      \/ stored' = stored /\ failed' = failed \cup {h.key}
    BY <1>4 DEF SetField
<1>7. ASSUME whole
      PROVE  /\ h.val = form[h.key]
             /\ \A k \in Keys \ failed : stored[k] = IF Pending(k) THEN Begun(k)
                                                      ELSE Entered(k)
             /\ \A i, j \in 1 .. Len(todo) : todo[i].key = todo[j].key => i = j
  <2>1. h.val = form[h.key]
      BY <1>1, <1>5, <1>7 DEF SaveInv, TornInv, TodoFromForm
  <2>2. QED
      BY <1>1, <1>7, <2>1 DEF SaveInv, PartSaved
<1>8. \A k \in Keys : Pending(k)' <=> Pending(k) /\ \E i \in 2 .. Len(todo) : todo[i].key = k
  <2>1. SUFFICES ASSUME NEW k \in Keys
                 PROVE  (\E i \in 1 .. Len(todo') : todo'[i].key = k)
                          <=> \E i \in 2 .. Len(todo) : todo[i].key = k
      BY <1>2 DEF Pending
  <2>2. \A i \in 2 .. Len(todo) : /\ i - 1 \in 1 .. Len(todo')
                                  /\ (i - 1) + 1 = i /\ i \in 1 .. Len(todo)
      BY <1>2, <1>3
  <2>3. \A i \in 1 .. Len(todo') : i + 1 \in 2 .. Len(todo)
      BY <1>2, <1>3
  <2>4. \A i \in 2 .. Len(todo) : todo'[i - 1] = todo[i]
      BY <1>3, <2>2
  <2>5. QED
      BY <1>3, <2>2, <2>3, <2>4
<1>9. PartSaved'
  <2>1. SUFFICES ASSUME whole
                 PROVE  /\ \A k \in Keys \ failed' :
                              stored'[k] = IF Pending(k)' THEN Begun(k) ELSE Entered(k)
                        /\ \A i, j \in 1 .. Len(todo') :
                              todo'[i].key = todo'[j].key => i = j
      BY <1>1 DEF PartSaved, Entered, Begun
  <2>2. ASSUME NEW i \in 1 .. Len(todo'), NEW j \in 1 .. Len(todo'),
               todo'[i].key = todo'[j].key
        PROVE  i = j
    <3>1. /\ i + 1 \in 1 .. Len(todo) /\ j + 1 \in 1 .. Len(todo)
          /\ todo[i + 1].key = todo[j + 1].key
        BY <1>3, <2>2
    <3>2. i + 1 = j + 1
        BY <1>7, <2>1, <3>1
    <3>3. i \in Nat /\ j \in Nat
        BY <1>2, <1>3
    <3>4. QED
        BY <3>2, <3>3
  <2>3. ASSUME NEW k \in Keys \ failed', k # h.key
        PROVE  stored'[k] = IF Pending(k)' THEN Begun(k) ELSE Entered(k)
    <3>1. stored'[k] = stored[k] /\ k \notin failed
        BY <1>1, <1>6, <2>3 DEF Applied, Stored
    <3>2. \A i \in 1 .. Len(todo) : todo[i].key = k => i \in 2 .. Len(todo)
        BY <1>2, <1>5, <2>3
    <3>3. Pending(k)' <=> Pending(k)
        BY <1>8, <3>2 DEF Pending
    <3>4. QED
        BY <1>7, <2>1, <3>1, <3>3
  <2>4. ASSUME h.key \notin failed'
        PROVE  stored'[h.key] = IF Pending(h.key)' THEN Begun(h.key) ELSE Entered(h.key)
    <3>1. Pending(h.key)
        BY <1>5 DEF Pending
    <3>2. ~ Pending(h.key)'
      <4>1. SUFFICES ASSUME NEW i \in 2 .. Len(todo), todo[i].key = h.key
                     PROVE  FALSE
          BY <1>5, <1>8
      <4>2. i \in 1 .. Len(todo) /\ i # 1
          BY <1>2
      <4>3. QED
          BY <1>5, <1>7, <2>1, <4>1, <4>2
    <3>3. stored' = Applied(stored, h) /\ h.key \notin failed
        BY <1>6, <2>4
    <3>4. stored[h.key] = Begun(h.key)
        BY <1>5, <1>7, <2>1, <3>1, <3>3
    <3>5. stored'[h.key] = Entered(h.key)
      <4>1. CASE ~ Written(h)
        <5>1. stored'[h.key] = Begun(h.key)
            BY <3>3, <3>4, <4>1 DEF Applied
        <5>2. CASE h.key # "mqtt_en"
            BY <1>7, <2>1, <4>1, <5>1, <5>2 DEF Written, Begun, Entered
        <5>3. CASE h.key = "mqtt_en"
          <6>1. h.val \in {"0", "1"} /\ Empty \notin {"0", "1"}
              BY <1>1, <1>7, <2>1, <5>3, SettingsAssumption
              DEF SaveInv, Checkbox, Keys, Choices
          <6>2. h.val = "0"
              BY <4>1, <5>3, <6>1 DEF Written
          <6>3. QED
              BY <1>7, <2>1, <5>1, <5>3, <6>1, <6>2 DEF Begun, Entered
        <5>4. QED
            BY <5>2, <5>3
      <4>2. CASE Written(h)
        <5>1. stored'[h.key] = h.val /\ h.val # Empty
            BY <1>1, <1>5, <3>3, <4>2 DEF Applied, Written, Stored
        <5>2. QED
            BY <1>7, <2>1, <5>1 DEF Entered
      <4>3. QED
          BY <4>1, <4>2
    <3>6. QED
        BY <3>2, <3>5
  <2>5. QED
      BY <2>2, <2>3, <2>4
<1>10. Checkbox'
  <2>1. "mqtt_en" \in Keys
      BY DEF Keys
  <2>2. stored'["mqtt_en"] = stored["mqtt_en"] \/ stored'["mqtt_en"] = "1"
    <3>1. \/ Applied(stored, h)["mqtt_en"] = stored["mqtt_en"]
          \/ Applied(stored, h)["mqtt_en"] = "1"
        BY <1>1, <2>1, AppliedType
    <3>2. QED
        BY <1>6, <3>1
  <2>3. QED
      BY <1>1, <2>2 DEF SaveInv, Checkbox
<1>11. RepliesLast'
    BY <1>1 DEF RepliesLast
<1>12. QED
    BY <1>9, <1>10, <1>11

LEMMA SaveInvKept == SaveInv /\ [SettingsNext]_settings => SaveInv'
<1> SUFFICES ASSUME SaveInv, [SettingsNext]_settings
             PROVE  PartSaved' /\ RepliesLast' /\ Checkbox'
    BY TornInvKept DEF SaveInv
<1>1. ASSUME NEW f \in Forms, Post(f) PROVE PartSaved' /\ RepliesLast' /\ Checkbox'
    BY <1>1, PostBegins
<1>2. CASE SetField
    BY <1>2, SetFieldSaves
<1>3. CASE Reply
    BY <1>3 DEF Reply, save, SaveInv, PartSaved, Pending, Entered, Begun,
       RepliesLast, Checkbox
<1>4. CASE Restart \/ PowerCut
    BY <1>4 DEF Restart, PowerCut, GoesDown, SaveInv, PartSaved, RepliesLast,
       Checkbox
<1>5. CASE BootSettings
  <2>1. saving = "idle" /\ saving' = "idle"
      BY <1>5 DEF BootSettings, SaveInv, TornInv, OffIsIdle
  <2>2. stored'["mqtt_en"] \in {"0", "1", Unset}
      BY <1>5 DEF BootSettings, SaveInv, Checkbox, Keys
  <2>3. QED
      BY <2>1, <2>2 DEF PartSaved, RepliesLast, Checkbox
<1>6. CASE UNCHANGED settings
    BY <1>6 DEF settings, save, SaveInv, PartSaved, Pending, Entered, Begun,
       RepliesLast, Checkbox
<1>7. QED
    BY <1>1, <1>2, <1>3, <1>4, <1>5, <1>6 DEF SettingsNext

LEMMA SavedIsEntered ==
    ASSUME SaveInv, saving = "saved", whole, NEW k \in Keys \ failed
    PROVE  stored[k] = Entered(k)
<1>1. Len(todo) = 0
    BY DEF SaveInv, RepliesLast
<1>2. ~ Pending(k)
    BY <1>1 DEF Pending
<1>3. QED
    BY <1>2 DEF SaveInv, PartSaved

LEMMA SaveInvHolds == SettingsSpec => []SaveInv
BY SaveInvInit, SaveInvKept, PTL DEF SettingsSpec

\* SavedAsEntered holds in every state: after a save that arrived whole every
\* setting of which no write failed is what the form says.
THEOREM SavedAsEnteredHolds == SettingsSpec => []SavedAsEntered
<1>1. SaveInv => SavedAsEntered
    BY SavedIsEntered DEF SavedAsEntered, Entered
<1>2. QED
    BY <1>1, SaveInvHolds, PTL

-----------------------------------------------------------------------------
(* The page                                                                *)

LEMMA ShownTyped ==
    ASSUME NEW k \in Returned, NEW v
    PROVE  Shown(k, v) \in Choices[k] \cup {Empty} /\ (k = "mqtt_en" => Shown(k, v) \in {"0", "1"})
BY DEF Shown, Choices, Returned, Keys

LEMMA FormWith ==
    ASSUME NEW f, f = [k \in Keys |-> f[k]], f["mqtt_en"] \in {"0", "1"},
           f["meter_type"] \in Offered \cup {Empty}, f["e450_parity"] = "none"
    PROVE  f \in Forms
<1>1. f = [mqtt_en |-> f["mqtt_en"], meter_type |-> f["meter_type"],
           e450_parity |-> f["e450_parity"]]
    BY DEF Keys
<1>2. QED
    BY <1>1 DEF Forms, Choices

LEMMA PageTypedInit == PageInit => PageTypeOK
<1> SUFFICES ASSUME PageInit PROVE PageTypeOK
    OBVIOUS
<1>1. page \in Forms
    BY SettingsAssumption DEF PageInit, OnPage, Forms, Choices
<1>2. QED
    BY <1>1 DEF PageInit, PageTypeOK, Untold, Stored, Keys

LEMMA PageTyped ==
    ASSUME PageTypeOK, SettingsTypeOK, [PageNext]_pageVars
    PROVE  PageTypeOK'
<1>1. CASE OpenPage
  <2>1. page' \in Forms
      BY <1>1, SettingsAssumption DEF OpenPage, OnPage, Forms, Choices
  <2>2. QED
      BY <1>1, <2>1 DEF OpenPage, PageTypeOK, Untold, Stored, Keys
<1>2. CASE ConfigArrives
  <2>1. page' \in Forms
    <3>1. PICK f : f = page'
        OBVIOUS
    <3>2. f = [k \in Keys |-> IF k \in Returned THEN Shown(k, Response[k]) ELSE page[k]]
        BY <1>2, <3>1 DEF ConfigArrives
    <3>3. "mqtt_en" \in Returned /\ "meter_type" \in Returned /\ "e450_parity" \notin Returned
          /\ Returned \subseteq Keys /\ "e450_parity" \in Keys
        BY DEF Returned, Keys
    <3>4. f["mqtt_en"] \in {"0", "1"}
        BY <3>2, <3>3, ShownTyped
    <3>5. f["meter_type"] \in Offered \cup {Empty}
        BY <3>2, <3>3, ShownTyped DEF Choices
    <3>6. f["e450_parity"] = "none"
        BY <3>2, <3>3, FormsTyped DEF PageTypeOK
    <3>7. f = [k \in Keys |-> f[k]]
        BY <3>2
    <3>8. QED
        BY <3>1, <3>4, <3>5, <3>6, <3>7, FormWith
  <2>2. told' \in Stored
      BY <1>2 DEF ConfigArrives, SettingsTypeOK, Stored
  <2>3. QED
      BY <1>2, <2>1, <2>2 DEF ConfigArrives, PageTypeOK
<1>3. CASE FetchFails
    BY <1>3 DEF FetchFails, PageTypeOK
<1>4. CASE Edit
  <2>1. PICK k \in Keys : \E v \in Choices[k] \ {page[k]} :
           page' = [page EXCEPT ![k] = v] /\ edited' = edited \cup {k}
      BY <1>4 DEF Edit
  <2>2. PICK v \in Choices[k] \ {page[k]} : page' = [page EXCEPT ![k] = v]
      BY <2>1
  <2>3. page' \in Forms
      BY <2>1, <2>2 DEF PageTypeOK, Forms, Choices, Keys
  <2>4. QED
      BY <1>4, <2>1, <2>3 DEF Edit, PageTypeOK
<1>5. CASE Submit
    BY <1>5 DEF Submit, browser, PageTypeOK
<1>6. CASE OtherSession
    BY <1>6 DEF OtherSession, browser, PageTypeOK
<1>7. CASE Device
  <2>1. byPage' \in BOOLEAN
      BY <1>7 DEF Device, PageTypeOK
  <2>2. QED
      BY <1>7, <2>1 DEF Device, browser, PageTypeOK
<1>8. CASE UNCHANGED pageVars
    BY <1>8 DEF pageVars, browser, PageTypeOK
<1>9. QED
    BY <1>1, <1>2, <1>3, <1>4, <1>5, <1>6, <1>7, <1>8 DEF PageNext

\* To the settings every step of the page is a client's, or none.
LEMMA PageSteps ==
    ASSUME PageTypeOK, [PageNext]_pageVars
    PROVE  [SettingsNext]_settings
<1>1. CASE Submit
    BY <1>1 DEF Submit, SettingsNext, PageTypeOK
<1>2. CASE OtherSession
    BY <1>2 DEF OtherSession, SettingsNext
<1>3. CASE Device
    BY <1>3 DEF Device, SettingsNext
<1>4. CASE OpenPage \/ ConfigArrives \/ FetchFails \/ Edit \/ UNCHANGED pageVars
    BY <1>4 DEF OpenPage, ConfigArrives, FetchFails, Edit, pageVars
<1>5. QED
    BY <1>1, <1>2, <1>3, <1>4 DEF PageNext

LEMMA PageInvTyped == PageSpec => [](SettingsTypeOK /\ PageTypeOK)
<1>1. PageInit => SettingsTypeOK /\ PageTypeOK
    BY PageTypedInit, SettingsInitTyped DEF PageInit
<1>2. SettingsTypeOK /\ PageTypeOK /\ [PageNext]_pageVars => (SettingsTypeOK /\ PageTypeOK)'
    BY PageTyped, PageSteps, SettingsTyped
<1>3. QED
    BY <1>1, <1>2, PTL DEF PageSpec

\* PageTypeOK holds in every state: the page never sends what the forms of
\* Settings leave out, whatever it was told.
THEOREM PageTypeCorrect == PageSpec => []PageTypeOK
BY PageInvTyped, PTL

\* The page and the other sessions are clients like any other: what holds of
\* every sequence of saves, cuts and starts holds with the page.
THEOREM PageSavesAsSpecified == PageSpec => SettingsSpec
<1>1. PageInit => SettingsInit
    BY DEF PageInit
<1>2. PageTypeOK /\ [PageNext]_pageVars => [SettingsNext]_settings
    BY PageSteps
<1>3. QED
    BY <1>1, <1>2, PageTypeCorrect, PTL DEF PageSpec, SettingsSpec

\* What the page was told and the user left alone it still shows; what it was
\* told of the checkbox is one of two; and what is being saved is what it shows.
Shows ==
    /\ \A k \in Returned \ edited : told[k] # Unset => page[k] = Shown(k, told[k])
    /\ told["mqtt_en"] \in {"0", "1", Unset}
    /\ saving # "idle" /\ byPage => form = page

LEMMA ShowsKept ==
    ASSUME PageTypeOK, SaveInv, Shows, [PageNext]_pageVars
    PROVE  Shows'
<1>0. page \in Form
    BY FormsTyped DEF PageTypeOK
<1>1. CASE OpenPage
    BY <1>1 DEF OpenPage, settings, Shows, Untold, Returned, Keys
<1>2. CASE ConfigArrives
  <2>1. Returned \subseteq Keys /\ "mqtt_en" \in Returned
      BY DEF Returned, Keys
  <2>2. saving' = "idle"
      BY <1>2 DEF ConfigArrives, settings
  <2>3. told'["mqtt_en"] = stored["mqtt_en"]
      BY <1>2, <2>1 DEF ConfigArrives
  <2>4. ASSUME NEW k \in Returned, told'[k] # Unset
        PROVE  page'[k] = Shown(k, told'[k])
    <3>1. k \in Keys /\ told'[k] = stored[k]
        BY <1>2, <2>1 DEF ConfigArrives
    <3>2. Response[k] = stored[k]
        BY <2>4, <3>1 DEF Response
    <3>3. page'[k] = Shown(k, Response[k])
        BY <1>2, <3>1 DEF ConfigArrives
    <3>4. QED
        BY <3>1, <3>2, <3>3
  <2>5. QED
      BY <2>2, <2>3, <2>4 DEF Shows, SaveInv, Checkbox
<1>3. CASE FetchFails
    BY <1>3 DEF FetchFails, settings, save, Shows
<1>4. CASE Edit
  <2>1. PICK k \in Keys : \E v \in Choices[k] \ {page[k]} :
           page' = [page EXCEPT ![k] = v] /\ edited' = edited \cup {k}
      BY <1>4 DEF Edit
  <2>2. told' = told /\ saving' = "idle"
      BY <1>4 DEF Edit, settings
  <2>3. \A j \in Returned \ edited' : j \in Returned \ edited /\ page'[j] = page[j]
      BY <1>0, <2>1 DEF Form, Returned
  <2>4. QED
      BY <2>2, <2>3 DEF Shows
<1>5. CASE Submit
    BY <1>5 DEF Submit, Post, browser, Shows
<1>6. CASE OtherSession
    BY <1>6 DEF OtherSession, browser, Shows
<1>7. CASE Device
  <2>1. saving' # "idle" /\ byPage' => saving # "idle" /\ byPage /\ form' = form
      BY <1>7 DEF Device, SetField, Reply, save, Restart, PowerCut, GoesDown,
         BootSettings, SaveInv, TornInv, OffIsIdle
  <2>2. QED
      BY <1>7, <2>1 DEF Device, browser, Shows
<1>8. CASE UNCHANGED pageVars
    BY <1>8 DEF pageVars, browser, settings, save, Shows
<1>9. QED
    BY <1>1, <1>2, <1>3, <1>4, <1>5, <1>6, <1>7, <1>8 DEF PageNext

\* UneditedAsTold holds in every state: what the page was told and the user left
\* alone is stored again as the page was told it, however stale that is.
THEOREM UneditedAsToldHolds == PageSpec => []UneditedAsTold
<1>1. PageInit => Shows
    BY DEF PageInit, SettingsInit, Shows, Untold, Keys, Returned
<1>2. PageTypeOK /\ SaveInv /\ Shows /\ [PageNext]_pageVars => Shows'
    BY ShowsKept
<1>3. PageSpec => []SaveInv
    BY PageSavesAsSpecified, SaveInvHolds, PTL
<1>4. PageSpec => []Shows
    BY <1>1, <1>2, <1>3, PageTypeCorrect, PTL DEF PageSpec
<1>5. ASSUME SaveInv, Shows PROVE UneditedAsTold
  <2>1. SUFFICES ASSUME saving = "saved", byPage, whole,
                        NEW k \in Returned \ (edited \cup failed), told[k] # Unset
                 PROVE  stored[k] = IF told[k] \in Choices[k] THEN told[k] ELSE before[k]
      BY DEF UneditedAsTold
  <2>2. k \in Keys /\ stored[k] = Entered(k)
      BY <1>5, <2>1, SavedIsEntered DEF Returned
  <2>3. form[k] = Shown(k, told[k])
      BY <1>5, <2>1 DEF Shows
  <2>4. k = "mqtt_en" => told[k] \in Choices[k]
      BY <1>5, <2>1 DEF Shows, Choices
  <2>5. form[k] = IF told[k] \in Choices[k] THEN told[k] ELSE Empty
      BY <2>3, <2>4 DEF Shown
  <2>6. QED
      BY <2>2, <2>5, SettingsAssumption DEF Entered
<1>6. QED
    BY <1>3, <1>4, <1>5, PTL

-----------------------------------------------------------------------------
(* The device                                                              *)

\* Seen from the settings, every step is one of theirs or none; seen from the
\* uplink, it is one of the device going up or down, one of the link, or none.
LEMMA Parts ==
    ASSUME [Next]_vars
    PROVE  /\ [SettingsNext]_settings
           /\ \/ StationStarts /\ UNCHANGED <<reach, client, broker>>
              \/ ClientStops /\ wifi' = "off" /\ retries' = 0 /\ failures' = 0
                 /\ UNCHANGED <<reach, broker>>
              \/ Link
              \/ UNCHANGED uplink
<1>1. CASE Boot
    BY <1>1 DEF Boot, SettingsNext
<1>2. CASE Down
    BY <1>2 DEF Down, SettingsNext
<1>3. CASE Saving
    BY <1>3 DEF Saving, SettingsNext
<1>4. CASE Link /\ UNCHANGED settings
    BY <1>4
<1>5. CASE UNCHANGED vars
    BY <1>5 DEF vars
<1>6. QED
    BY <1>1, <1>2, <1>3, <1>4, <1>5 DEF Next

\* To the settings the device is what starts them and goes down with them: what
\* holds of every sequence of saves, cuts and starts holds of the gateway.
THEOREM GatewaySavesAsSpecified == Spec => SettingsSpec
<1>1. Init => SettingsInit
    BY DEF Init
<1>2. [Next]_vars => [SettingsNext]_settings
    BY Parts
<1>3. QED
    BY <1>1, <1>2, PTL DEF Spec, SettingsSpec

\* How far the station is: what ties the count of tries to the disconnections.
StationCounts ==
    /\ wifi \in {"off", "up"} => failures = 0 /\ retries = 0
    /\ wifi = "connecting" => failures = retries
    /\ wifi = "failed" => failures = MaxRetry + 1

\* The strengthening of the uplink's invariants.
UplinkInv == UplinkTypeOK /\ StationCounts /\ OnlineIsRevocable

LEMMA LinkKeepsUplinkInv ==
    ASSUME UplinkInv, Link
    PROVE  UplinkInv'
<1> USE UplinkAssumption DEF UplinkInv, UplinkTypeOK, StationCounts, OnlineIsRevocable,
        station, client, broker
<1>1. CASE Disconnected
    BY <1>1 DEF Disconnected, TriesLeft, Reconnect
<1>2. CASE GotIp
    BY <1>2 DEF GotIp, GotIpResets
<1>3. CASE AccessPoint
    BY <1>3 DEF AccessPoint
<1>4. CASE Mqtt
    <2>1. CASE MqttConnects(MqttEnabled)
        BY <2>1 DEF MqttConnects, OnConnect, StatusAfterWill
    <2>2. CASE OnlineArrives
        BY <2>2 DEF OnlineArrives
    <2>3. CASE MqttNotices
        BY <2>3 DEF MqttNotices, OnDisconnect
    <2>4. QED
        BY <1>4, <2>1, <2>2, <2>3 DEF Mqtt
<1>5. CASE SessionExpires
    BY <1>5 DEF SessionExpires, StatusAfterWill
<1>6. CASE Publishing
    BY <1>6 DEF Publishing, PublishBegins, PublishEnds
<1>7. QED
    BY <1>1, <1>2, <1>3, <1>4, <1>5, <1>6 DEF Link

LEMMA UplinkInvHolds == Spec => []UplinkInv
<1>1. Init => UplinkInv
    <2>1. 0 \in 0 .. MaxRetry /\ 0 \in 0 .. MaxRetry + 1
        BY UplinkAssumption
    <2>2. Init => UplinkTypeOK
        BY <2>1, Zenon DEF Init, UplinkInit, ClientInit, UplinkTypeOK
    <2>3. Init => StationCounts /\ OnlineIsRevocable
        BY DEF Init, UplinkInit, StationCounts, OnlineIsRevocable
    <2>4. QED
        BY <2>2, <2>3 DEF UplinkInv
<1>2. UplinkInv /\ [Next]_vars => UplinkInv'
    <2> SUFFICES ASSUME UplinkInv, [Next]_vars PROVE UplinkInv'
        OBVIOUS
    <2>0. 0 \in 0 .. MaxRetry /\ 0 \in 0 .. MaxRetry + 1
        BY UplinkAssumption
    <2>1. CASE StationStarts /\ UNCHANGED <<reach, client, broker>>
        BY <2>0, <2>1 DEF StationStarts, UplinkInv, UplinkTypeOK, StationCounts,
           OnlineIsRevocable, client, broker
    <2>2. CASE ClientStops /\ wifi' = "off" /\ retries' = 0 /\ failures' = 0
               /\ UNCHANGED <<reach, broker>>
        <3>1. UplinkTypeOK'
            BY <2>0, <2>2, Zenon DEF ClientStops, UplinkInv, UplinkTypeOK, broker
        <3>2. StationCounts' /\ OnlineIsRevocable'
            BY <2>2 DEF UplinkInv, StationCounts, OnlineIsRevocable, broker
        <3>3. QED
            BY <3>1, <3>2 DEF UplinkInv
    <2>3. CASE UNCHANGED uplink
        BY <2>3 DEF uplink, station, client, broker, UplinkInv, UplinkTypeOK,
           StationCounts, OnlineIsRevocable
    <2>4. QED
        BY <2>1, <2>2, <2>3, LinkKeepsUplinkInv, Parts
<1>3. QED
    BY <1>1, <1>2, PTL DEF Spec

\* TypeOK holds in every state: the retries never pass their limit, and no cut
\* or unset value reaches the settings in use untyped.
THEOREM GatewayTypeCorrect == Spec => []TypeOK
<1>1. UplinkInv => UplinkTypeOK
    BY DEF UplinkInv
<1>2. QED
    BY <1>1, UplinkInvHolds, SettingsTypeCorrect, GatewaySavesAsSpecified, PTL DEF TypeOK

\* GivesUpRightly holds in every state, for every number of retries.
THEOREM GivesUpOnlyAfterAllTries == Spec => []GivesUpRightly
<1>1. UplinkInv => GivesUpRightly
    BY UplinkAssumption DEF UplinkInv, UplinkTypeOK, StationCounts, GivesUpRightly
<1>2. QED
    BY <1>1, UplinkInvHolds, PTL

\* OnlineIsRevocable holds in every state, through restarts and takeovers.
THEOREM OnlineAlwaysRevocable == Spec => []OnlineIsRevocable
<1>1. UplinkInv => OnlineIsRevocable
    BY DEF UplinkInv
<1>2. QED
    BY <1>1, UplinkInvHolds, PTL
=============================================================================
