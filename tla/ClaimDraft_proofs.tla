------------------------- MODULE ClaimDraft_proofs -------------------------
(***************************************************************************)
(* Proofs about ClaimDraft for any sets of items, columns, documents and   *)
(* requests: a claim past DRAFT is frozen once the requests that saw the   *)
(* draft have ended, the claimed amount is the sum of the items when item  *)
(* requests follow one another, and without accidents what two services    *)
(* are told of the claim is one state of it.  Nothing is assumed about the *)
(* sum itself but its value on no items.                                   *)
(***************************************************************************)
EXTENDS ClaimDraft, TLAPS

USE DraftNoneAssumption

(* A claim without items totals nothing.                                    *)
LEMMA EmptyTotal == Total(NoItems) = 0
  <1>1. ItemRows(NoItems) = {}
    BY DEF ItemRows, NoItems
  <1> DEFINE f(i) == NoItems[i]
  <1>2. MapThenSumSet(f, {}) = 0
    BY DEF MapThenSumSet, MapThenFoldSet
  <1>3. QED
    BY <1>1, <1>2 DEF Total

(* Every amount the system computes is the total of some table.             *)
Amounts == {Total(table) : table \in Table}

(* A total is an amount: Total adds up naturals over finitely many rows.    *)
LEMMA TotalIsAmount == \A table \in Table : Total(table) \in Amounts
  BY DEF Amounts

(* What Init and an idle request hold is typed.                             *)
LEMMA ZeroIsAmount == 0 \in Amounts /\ NoItems \in Table
  BY EmptyTotal DEF Amounts, NoItems, Table

Op == ItemOp \cup {"none", "edit", "submit", "verdict"}
Step == {"idle", "loaded", "found", "written", "items", "links", "total"}
Request == [op : Op, step : Step, version : Nat, filled : SUBSET Field, amount : Amounts,
            item : Item \cup {None}, items : Table, docs : SUBSET Doc]

Typed ==
    /\ version \in Nat
    /\ filled \in SUBSET Field
    /\ amount \in Amounts
    /\ items \in Table
    /\ links \in SUBSET Doc
    /\ raced \in SUBSET {"items", "submit"}
    /\ handler \in [Handler -> Request]

(* Only an item request finds, writes and totals.                           *)
Phases ==
    \A h \in Handler :
        /\ handler[h].step \in {"found", "written", "total"} => handler[h].op \in ItemOp
        /\ handler[h].step = "found" => handler[h].item \in Item

(* While item requests follow one another, the one in flight is alone, and  *)
(* between its write and its total the amount is behind; at all other times *)
(* the amount, or the total read and not yet written, is the items' total.  *)
InTurn ==
    "items" \notin raced =>
        /\ \A g, h \in Handler : handler[g].op \in ItemOp /\ handler[h].op \in ItemOp => g = h
        /\ \A h \in Handler : handler[h].step = "total" => handler[h].amount = Total(items)
        /\ (\A h \in Handler : handler[h].step \notin {"written", "total"})
              => amount = Total(items)

IInv == Typed /\ Phases /\ InTurn

(* The new claim of POST /v1/claims satisfies the invariant.                *)
LEMMA InitIInv == Init => IInv
  <1> SUFFICES ASSUME Init PROVE IInv
    OBVIOUS
  <1>1. NoRequest \in Request
    BY ZeroIsAmount DEF NoRequest, Request, Op, Step
  <1>2. Typed
    BY <1>1, ZeroIsAmount DEF Init, Typed
  <1>3. Phases
    BY DEF Init, Phases, NoRequest
  <1>4. InTurn
    BY EmptyTotal DEF Init, InTurn, NoRequest, ItemOp
  <1>5. QED
    BY <1>2, <1>3, <1>4 DEF IInv

(* A step of a request replaces its record by another request.              *)
LEMMA GoesTyped ==
    ASSUME Typed, NEW h \in Handler, NEW r \in Request, Goes(h, r)
    PROVE  /\ handler' \in [Handler -> Request]
           /\ handler'[h] = r
           /\ \A g \in Handler \ {h} : handler'[g] = handler[g]
  BY DEF Typed, Goes

(* A step outside the write and the total of an item request.               *)
LEMMA Aside ==
    ASSUME IInv, NEW h \in Handler, NEW r \in Request, Goes(h, r),
           handler[h].step \notin {"written", "total"}, r.step \notin {"written", "total"},
           r.step = "found" => r.op \in ItemOp /\ r.item \in Item,
           r.op \in ItemOp => handler[h].op \in ItemOp,
           UNCHANGED <<items, amount>>, "items" \in raced => "items" \in raced'
    PROVE  Phases' /\ InTurn'
  <1>1. /\ handler' \in [Handler -> Request] /\ handler'[h] = r
        /\ \A g \in Handler \ {h} : handler'[g] = handler[g]
    BY GoesTyped DEF IInv
  <1>2. Phases'
    BY <1>1 DEF IInv, Phases
  <1>3. InTurn'
    <2> SUFFICES ASSUME "items" \notin raced'
                 PROVE  /\ \A g, k \in Handler : handler'[g].op \in ItemOp /\ handler'[k].op \in ItemOp
                                                 => g = k
                        /\ \A k \in Handler : handler'[k].step = "total"
                                              => handler'[k].amount = Total(items')
                        /\ (\A k \in Handler : handler'[k].step \notin {"written", "total"})
                              => amount' = Total(items')
      BY DEF InTurn
    <2>1. /\ \A g, k \in Handler : handler[g].op \in ItemOp /\ handler[k].op \in ItemOp => g = k
          /\ \A k \in Handler : handler[k].step = "total" => handler[k].amount = Total(items)
          /\ (\A k \in Handler : handler[k].step \notin {"written", "total"})
                => amount = Total(items)
      BY DEF IInv, InTurn
    <2>2. \A g \in Handler : handler'[g].op \in ItemOp => handler[g].op \in ItemOp
      BY <1>1
    <2>3. \A g \in Handler : handler'[g].step \in {"written", "total"}
                               <=> handler[g].step \in {"written", "total"}
      BY <1>1
    <2>4. \A g, k \in Handler : handler'[g].op \in ItemOp /\ handler'[k].op \in ItemOp => g = k
      BY <2>1, <2>2
    <2>5. \A k \in Handler : handler'[k].step = "total" => handler'[k] = handler[k]
      BY <1>1
    <2>6. items' = items /\ amount' = amount
      OBVIOUS
    <2>7. QED
      BY <2>1, <2>3, <2>4, <2>5, <2>6
  <1>4. QED
    BY <1>2, <1>3

(* The write of an item request.                                            *)
LEMMA Writes ==
    ASSUME IInv, NEW h \in Handler, NEW r \in Request, Goes(h, r),
           handler[h].op \in ItemOp, r.op = handler[h].op, r.step = "written",
           UNCHANGED raced
    PROVE  Phases' /\ InTurn'
  <1>1. /\ handler' \in [Handler -> Request] /\ handler'[h] = r
        /\ \A g \in Handler \ {h} : handler'[g] = handler[g]
    BY GoesTyped DEF IInv
  <1>2. Phases'
    BY <1>1 DEF IInv, Phases
  <1>3. ASSUME "items" \notin raced
        PROVE  \A g \in Handler \ {h} : handler'[g].op \notin ItemOp
                                        /\ handler'[g].step \notin {"written", "total"}
    BY <1>1, <1>3 DEF IInv, InTurn, Phases
  <1>4. InTurn'
    BY <1>1, <1>3 DEF InTurn
  <1>5. QED
    BY <1>2, <1>4

(* Every statement of every request preserves the invariant.                *)
LEMMA StepIInv == IInv /\ [Next]_vars => IInv'
<1> SUFFICES ASSUME IInv, [Next]_vars
             PROVE  IInv'
  OBVIOUS
<1>a. /\ version \in Nat /\ filled \in SUBSET Field /\ amount \in Amounts
      /\ items \in Table /\ links \in SUBSET Doc /\ raced \in SUBSET {"items", "submit"}
      /\ handler \in [Handler -> Request]
  BY DEF IInv, Typed
<1>b. \A h \in Handler : /\ handler[h].step \in {"found", "written", "total"} =>
                                 handler[h].op \in ItemOp
                         /\ handler[h].step = "found" => handler[h].item \in Item
  BY DEF IInv, Phases
<1>c. NoRequest \in Request /\ NoRequest.op \notin ItemOp /\ NoRequest.step = "idle"
  BY ZeroIsAmount DEF NoRequest, Request, Op, Step, ItemOp
<1>d. \A h \in Handler : handler[h] \in Request
  BY <1>a
<1>1. ASSUME NEW h \in Handler, NEW op \in ItemOp, LoadForItem(h, op) PROVE IInv'
  <2> DEFINE r == [NoRequest EXCEPT !.op = op, !.step = "loaded"]
  <2>1. r \in Request /\ r.op = op /\ r.step = "loaded"
    BY ZeroIsAmount DEF NoRequest, Request, Op, Step
  <2>2. /\ handler[h] = NoRequest /\ Races(op) /\ Goes(h, r)
        /\ UNCHANGED <<row, items, links, sent, briefed>>
    BY <1>1 DEF LoadForItem
  <2> HIDE DEF r
  <2>3. /\ handler' \in [Handler -> Request] /\ handler'[h] = r
        /\ \A g \in Handler \ {h} : handler'[g] = handler[g]
    BY <2>1, <2>2, GoesTyped DEF IInv
  <2>4. /\ raced' \in SUBSET {"items", "submit"}
        /\ "items" \notin raced' => "items" \notin raced /\ ~InFlight(ItemOp)
    BY <1>a, <2>2 DEF Races
  <2>5. Typed'
    BY <1>a, <2>2, <2>3, <2>4 DEF Typed, row
  <2>6. Phases'
    BY <1>b, <2>1, <2>3 DEF Phases
  <2>7. InTurn'
    <3>1. CASE "items" \in raced'
      BY <3>1 DEF InTurn
    <3>2. CASE "items" \notin raced'
      <4>1. \A g \in Handler : handler[g].op \notin ItemOp
                               /\ handler[g].step \notin {"written", "total"}
        BY <1>b, <2>4, <3>2 DEF InFlight
      <4>2. amount = Total(items)
        BY <2>4, <3>2, <4>1 DEF IInv, InTurn
      <4>3. items' = items /\ amount' = amount
        BY <2>2 DEF row
      <4>4. QED
        BY <2>1, <2>3, <4>1, <4>2, <4>3 DEF InTurn
    <3>3. QED
      BY <3>1, <3>2
  <2>8. QED
    BY <2>5, <2>6, <2>7 DEF IInv
<1>2. ASSUME NEW h \in Handler, NEW i \in Item, FindItem(h, i) PROVE IInv'
  <2> DEFINE r == [handler[h] EXCEPT !.step = "found", !.item = i]
  <2>1. /\ handler[h].op \in ItemOp /\ handler[h].step = "loaded" /\ Goes(h, r)
        /\ UNCHANGED <<row, items, links, sent, briefed, raced>>
    BY <1>2 DEF FindItem, ItemOp
  <2>2. r \in Request /\ r.op = handler[h].op /\ r.step = "found" /\ r.item = i
    <3>1. handler[h] \in Request
      BY <1>d
    <3>2. QED
      BY <3>1 DEF Request, Step
  <2> HIDE DEF r
  <2>3. Typed'
    BY <1>a, <2>1, <2>2, GoesTyped DEF IInv, Typed, row
  <2>4. Phases' /\ InTurn'
    BY <2>1, <2>2, Aside DEF row
  <2>5. QED
    BY <2>3, <2>4 DEF IInv
<1>3. ASSUME NEW h \in Handler, NEW i \in Item, NEW p \in Paise, InsertItem(h, i, p) PROVE IInv'
  <2> DEFINE r == [handler[h] EXCEPT !.step = "written"]
  <2>1. /\ handler[h].op \in ItemOp /\ Goes(h, r) /\ items' = [items EXCEPT ![i] = p]
        /\ UNCHANGED <<row, links, sent, briefed, raced>>
    BY <1>3 DEF InsertItem, At, ItemOp
  <2>2. r \in Request /\ r.op = handler[h].op /\ r.step = "written"
    <3>1. handler[h] \in Request
      BY <1>d
    <3>2. QED
      BY <3>1 DEF Request, Step
  <2> HIDE DEF r
  <2>3. Typed'
    BY <1>a, <2>1, <2>2, GoesTyped DEF IInv, Typed, row, Table
  <2>4. Phases' /\ InTurn'
    BY <2>1, <2>2, Writes
  <2>5. QED
    BY <2>3, <2>4 DEF IInv
<1>4. ASSUME NEW h \in Handler, NEW p \in Paise, UpdateItem(h, p) PROVE IInv'
  <2> DEFINE r == [handler[h] EXCEPT !.step = "written", !.item = None]
  <2>1. /\ handler[h].op \in ItemOp /\ handler[h].item \in Item /\ Goes(h, r)
        /\ items' = [items EXCEPT ![handler[h].item] = p]
        /\ UNCHANGED <<row, links, sent, briefed, raced>>
    BY <1>4, <1>b DEF UpdateItem, At, ItemOp
  <2>2. r \in Request /\ r.op = handler[h].op /\ r.step = "written"
    <3>1. handler[h] \in Request
      BY <1>d
    <3>2. QED
      BY <3>1 DEF Request, Step
  <2> HIDE DEF r
  <2>3. Typed'
    BY <1>a, <2>1, <2>2, GoesTyped DEF IInv, Typed, row, Table
  <2>4. Phases' /\ InTurn'
    BY <2>1, <2>2, Writes
  <2>5. QED
    BY <2>3, <2>4 DEF IInv
<1>5. ASSUME NEW h \in Handler, DeleteItem(h) PROVE IInv'
  <2> DEFINE r == [handler[h] EXCEPT !.step = "written", !.item = None]
  <2>1. /\ handler[h].op \in ItemOp /\ handler[h].item \in Item /\ Goes(h, r)
        /\ items' = [items EXCEPT ![handler[h].item] = None]
        /\ UNCHANGED <<row, links, sent, briefed, raced>>
    BY <1>5, <1>b DEF DeleteItem, At, ItemOp
  <2>2. r \in Request /\ r.op = handler[h].op /\ r.step = "written"
    <3>1. handler[h] \in Request
      BY <1>d
    <3>2. QED
      BY <3>1 DEF Request, Step
  <2> HIDE DEF r
  <2>3. Typed'
    BY <1>a, <2>1, <2>2, GoesTyped DEF IInv, Typed, row, Table
  <2>4. Phases' /\ InTurn'
    BY <2>1, <2>2, Writes
  <2>5. QED
    BY <2>3, <2>4 DEF IInv
<1>6. ASSUME NEW h \in Handler, ReadTotal(h) PROVE IInv'
  <2> DEFINE r == [handler[h] EXCEPT !.step = "total", !.amount = Total(items)]
  <2>1. /\ handler[h].step = "written" /\ handler[h].op \in ItemOp /\ Goes(h, r)
        /\ UNCHANGED <<row, items, links, sent, briefed, raced>>
    BY <1>6, <1>b DEF ReadTotal
  <2>2. r \in Request /\ r.op = handler[h].op /\ r.step = "total" /\ r.amount = Total(items)
    <3>1. handler[h] \in Request /\ Total(items) \in Amounts
      BY <1>a, <1>d, TotalIsAmount
    <3>2. QED
      BY <3>1 DEF Request, Step
  <2> HIDE DEF r
  <2>3. /\ handler' \in [Handler -> Request] /\ handler'[h] = r
        /\ \A g \in Handler \ {h} : handler'[g] = handler[g]
    BY <2>1, <2>2, GoesTyped DEF IInv
  <2>4. Typed'
    BY <1>a, <2>1, <2>3 DEF Typed, row
  <2>5. Phases'
    BY <1>b, <2>1, <2>2, <2>3 DEF Phases
  <2>6. ASSUME "items" \notin raced
        PROVE  \A g \in Handler \ {h} : handler'[g].op \notin ItemOp
                                        /\ handler'[g].step \notin {"written", "total"}
    BY <1>b, <2>1, <2>3, <2>6 DEF IInv, InTurn
  <2>7. InTurn'
    BY <2>1, <2>2, <2>3, <2>6 DEF InTurn
  <2>8. QED
    BY <2>4, <2>5, <2>7 DEF IInv
<1>7. ASSUME NEW h \in Handler, WriteTotal(h) PROVE IInv'
  <2>1. /\ handler[h].step = "total" /\ handler[h].op \in ItemOp /\ Goes(h, NoRequest)
        /\ amount' = handler[h].amount
        /\ UNCHANGED <<status, version, filled, items, links, sent, briefed, raced>>
    BY <1>7, <1>b DEF WriteTotal
  <2>2. /\ handler' \in [Handler -> Request] /\ handler'[h] = NoRequest
        /\ \A g \in Handler \ {h} : handler'[g] = handler[g]
    BY <1>c, <2>1, GoesTyped DEF IInv
  <2>3. Typed'
    BY <1>a, <1>d, <2>1, <2>2 DEF Typed, Request
  <2>4. Phases'
    BY <1>b, <1>c, <2>2 DEF Phases
  <2>5. ASSUME "items" \notin raced
        PROVE  /\ handler[h].amount = Total(items)
               /\ \A g \in Handler \ {h} : handler'[g].op \notin ItemOp
                                        /\ handler'[g].step \notin {"written", "total"}
    BY <1>b, <2>1, <2>2, <2>5 DEF IInv, InTurn
  <2>6. InTurn'
    BY <1>c, <2>1, <2>2, <2>5 DEF InTurn
  <2>7. QED
    BY <2>3, <2>4, <2>6 DEF IInv
<1>8. ASSUME NEW h \in Handler, NEW op \in {"edit", "submit", "verdict"},
             handler[h] = NoRequest, Goes(h, Copy(op)), "items" \in raced' <=> "items" \in raced,
             raced' \in SUBSET {"items", "submit"},
             UNCHANGED <<row, items, links, sent, briefed>>
      PROVE  IInv'
  <2>1. Copy(op) \in Request /\ Copy(op).op \notin ItemOp /\ Copy(op).step = "loaded"
    BY <1>a, ZeroIsAmount DEF Copy, NoRequest, Request, Op, Step, ItemOp
  <2>2. Typed'
    BY <1>a, <1>8, <2>1, GoesTyped DEF IInv, Typed, row
  <2>3. Phases' /\ InTurn'
    BY <1>8, <1>c, <2>1, Aside DEF row
  <2>4. QED
    BY <2>2, <2>3 DEF IInv
<1>9. ASSUME NEW h \in Handler, LoadForEdit(h) \/ LoadForSubmit(h) \/ LoadForVerdict(h) PROVE IInv'
  <2>1. CASE LoadForEdit(h)
    <3>1. ("items" \in raced' <=> "items" \in raced) /\ raced' \in SUBSET {"items", "submit"}
      BY <1>a, <2>1 DEF LoadForEdit, Races, ItemOp
    <3>2. QED
      BY <1>8, <2>1, <3>1 DEF LoadForEdit
  <2>2. CASE LoadForSubmit(h)
    <3>1. ("items" \in raced' <=> "items" \in raced) /\ raced' \in SUBSET {"items", "submit"}
      BY <1>a, <2>2 DEF LoadForSubmit, Races, ItemOp
    <3>2. QED
      BY <1>8, <2>2, <3>1 DEF LoadForSubmit
  <2>3. CASE LoadForVerdict(h)
    BY <1>8, <1>a, <2>3 DEF LoadForVerdict
  <2>4. QED
    BY <1>9, <2>1, <2>2, <2>3
<1>10. ASSUME NEW h \in Handler, NEW r \in Request, Goes(h, r), handler[h].op \notin ItemOp,
              r.op \notin ItemOp, r.step \notin {"found", "written", "total"},
              version' \in Nat, filled' \in SUBSET Field, links' = links, items' = items,
              amount' = amount, raced' = raced
       PROVE  IInv'
  <2>1. Typed'
    BY <1>a, <1>10, GoesTyped DEF IInv, Typed
  <2>2. handler[h].step \notin {"written", "total"}
    BY <1>b, <1>10
  <2>3. Phases' /\ InTurn'
    BY <1>10, <2>2, Aside
  <2>4. QED
    BY <2>1, <2>3 DEF IInv
<1>11. ASSUME NEW h \in Handler, NEW f \in Field, WriteEdit(h, f) PROVE IInv'
  <2>1. /\ handler[h].op \notin ItemOp /\ Goes(h, NoRequest)
        /\ version' = handler[h].version + 1 /\ filled' = handler[h].filled \cup {f}
        /\ links' = links /\ items' = items /\ amount' = amount /\ raced' = raced
    BY <1>11 DEF WriteEdit, At, ItemOp
  <2>2. version' \in Nat /\ filled' \in SUBSET Field
    BY <1>d, <2>1 DEF Request
  <2>3. QED
    BY <1>c, <1>10, <2>1, <2>2
<1>12. ASSUME NEW h \in Handler, ReadItems(h) PROVE IInv'
  <2> DEFINE r == [handler[h] EXCEPT !.step = "items", !.items = items]
  <2>1. /\ handler[h].op = "submit" /\ Goes(h, r)
        /\ UNCHANGED <<row, items, links, sent, briefed, raced>>
    BY <1>12 DEF ReadItems, At
  <2>2. r \in Request /\ r.op = "submit" /\ r.step = "items"
    BY <1>a, <1>d, <2>1 DEF Request, Step
  <2> HIDE DEF r
  <2>3. QED
    BY <1>a, <1>10, <2>1, <2>2 DEF row, ItemOp
<1>13. ASSUME NEW h \in Handler, ReadLinks(h) PROVE IInv'
  <2> DEFINE r == [handler[h] EXCEPT !.step = "links", !.docs = links]
  <2>1. /\ handler[h].op = "submit" /\ Goes(h, r)
        /\ UNCHANGED <<row, items, links, sent, briefed, raced>>
    BY <1>13 DEF ReadLinks, At
  <2>2. r \in Request /\ r.op = "submit" /\ r.step = "links"
    BY <1>a, <1>d, <2>1 DEF Request, Step
  <2> HIDE DEF r
  <2>3. QED
    BY <1>a, <1>10, <2>1, <2>2 DEF row, ItemOp
<1>14. ASSUME NEW h \in Handler, CommitSubmit(h) \/ QueueAgent(h) PROVE IInv'
  <2>1. /\ handler[h].op \notin ItemOp /\ Goes(h, NoRequest)
        /\ version' = handler[h].version + 1 /\ filled' = filled
        /\ links' = links /\ items' = items /\ amount' = amount /\ raced' = raced
    BY <1>14 DEF CommitSubmit, QueueAgent, At, ItemOp
  <2>2. version' \in Nat /\ filled' \in SUBSET Field
    BY <1>a, <1>d, <2>1 DEF Request
  <2>3. QED
    BY <1>c, <1>10, <2>1, <2>2
<1>15. ASSUME NEW h \in Handler, Abandon(h) PROVE IInv'
  <2>1. /\ Goes(h, NoRequest) /\ UNCHANGED <<row, items, links, sent, briefed>>
        /\ raced' = IF handler[h].step \in {"written", "total"} THEN raced \cup {"items"} ELSE raced
    BY <1>15 DEF Abandon
  <2>2. /\ handler' \in [Handler -> Request] /\ handler'[h] = NoRequest
        /\ \A g \in Handler \ {h} : handler'[g] = handler[g]
    BY <1>c, <2>1, GoesTyped DEF IInv
  <2>3. Typed'
    BY <1>a, <2>1, <2>2 DEF Typed, row
  <2>4. CASE handler[h].step \in {"written", "total"}
    <3>1. Phases' /\ InTurn'
      BY <1>b, <1>c, <2>1, <2>2, <2>4 DEF Phases, InTurn
    <3>2. QED
      BY <2>3, <3>1 DEF IInv
  <2>5. CASE handler[h].step \notin {"written", "total"}
    <3>1. Phases' /\ InTurn'
      BY <1>c, <2>1, <2>5, Aside DEF row
    <3>2. QED
      BY <2>3, <3>1 DEF IInv
  <2>6. QED
    BY <2>4, <2>5
<1>16. ASSUME NEW d \in Doc, Link(d) PROVE IInv'
  <2>1. /\ links' = links \cup {d} /\ UNCHANGED <<row, items, sent, briefed, handler, raced>>
    BY <1>16 DEF Link
  <2>2. Typed'
    BY <1>a, <2>1 DEF Typed, row
  <2>3. Phases' /\ InTurn'
    BY <2>1 DEF IInv, Phases, InTurn, row
  <2>4. QED
    BY <2>2, <2>3 DEF IInv
<1>17. CASE UNCHANGED vars
  BY <1>17 DEF vars, row, IInv, Typed, Phases, InTurn
<1>18. QED
  BY <1>1, <1>2, <1>3, <1>4, <1>5, <1>6, <1>7, <1>9, <1>11, <1>12, <1>13, <1>14, <1>15,
     <1>16, <1>17 DEF Next, ItemNext

(* The types of TypeOK that matter, the item requests and the totals hold   *)
(* in every state, whatever requests interleave.                            *)
THEOREM Invariance == Spec => []IInv
  <1>1. QED
    BY InitIInv, StepIInv, PTL DEF Spec

(* The claimed amount is the sum of the items whenever item requests        *)
(* followed one another and none is in flight.                              *)
THEOREM Amounting == Spec => []AmountIsTotal
  <1>1. IInv => AmountIsTotal
    BY DEF IInv, Phases, InTurn, AmountIsTotal, InFlight
  <1>2. QED
    BY <1>1, Invariance, PTL

(* "Only a draft claim can be edited".                                      *)
THEOREM Freezing == Spec => FrozenOnceDrained
  <1>1. ASSUME IInv, [Next]_vars, Drained
        PROVE  Drained' /\ UNCHANGED <<items, filled, amount>>
    <2>1. /\ status # "DRAFT"
          /\ \A h \in Handler : /\ handler[h].op \notin ItemOp /\ handler[h].op # "edit"
                               /\ handler[h].step \notin {"written", "total"}
      BY <1>1 DEF Drained, InFlight, IInv, Phases
    <2>2. handler \in [Handler -> Request]
      BY <1>1 DEF IInv, Typed
    <2> SUFFICES /\ status' # "DRAFT"
                 /\ \A g \in Handler : handler'[g].op \notin ItemOp \cup {"edit"}
                 /\ UNCHANGED <<items, filled, amount>>
      BY DEF Drained, InFlight
    <2>3. ASSUME NEW h \in Handler, ItemNext(h) PROVE FALSE
      BY <2>1, <2>3 DEF ItemNext, LoadForItem, FindItem, InsertItem, UpdateItem, DeleteItem,
                        ReadTotal, WriteTotal, At, ItemOp
    <2>4. ASSUME NEW h \in Handler,
                 LoadForEdit(h) \/ LoadForSubmit(h) \/ \E f \in Field : WriteEdit(h, f)
          PROVE  FALSE
      BY <2>1, <2>4 DEF LoadForEdit, LoadForSubmit, WriteEdit, At
    <2>5. ASSUME NEW h \in Handler, NEW r, Goes(h, r), r.op \notin ItemOp \cup {"edit"}
          PROVE  \A g \in Handler : handler'[g].op \notin ItemOp \cup {"edit"}
      BY <2>1, <2>2, <2>5 DEF Goes
    <2>6. CASE \E d \in Doc : Link(d)
      BY <2>1, <2>6 DEF Link, row
    <2>7. ASSUME NEW h \in Handler, ReadItems(h) \/ ReadLinks(h)
          PROVE  /\ \A g \in Handler : handler'[g].op \notin ItemOp \cup {"edit"}
                 /\ UNCHANGED <<status, items, filled, amount>>
      <3> DEFINE read == [handler[h] EXCEPT !.step = "items", !.items = items]
                 linked == [handler[h] EXCEPT !.step = "links", !.docs = links]
      <3>1. read.op = handler[h].op /\ linked.op = handler[h].op
        BY <2>2 DEF Request
      <3>2. (Goes(h, read) \/ Goes(h, linked)) /\ UNCHANGED <<status, items, filled, amount>>
        BY <2>7 DEF ReadItems, ReadLinks, row
      <3> HIDE DEF read, linked
      <3>3. QED
        BY <3>1, <3>2, <2>1, <2>5
    <2>8. ASSUME NEW h \in Handler, CommitSubmit(h) \/ QueueAgent(h) \/ Abandon(h)
          PROVE  /\ status' # "DRAFT"
                 /\ \A g \in Handler : handler'[g].op \notin ItemOp \cup {"edit"}
                 /\ UNCHANGED <<items, filled, amount>>
      <3>1. Goes(h, NoRequest)
        BY <2>8 DEF CommitSubmit, QueueAgent, Abandon
      <3>2. NoRequest.op \notin ItemOp \cup {"edit"}
        BY DEF NoRequest, ItemOp
      <3>3. status' # "DRAFT" /\ UNCHANGED <<items, filled, amount>>
        BY <2>1, <2>8 DEF CommitSubmit, QueueAgent, Abandon, row
      <3>4. QED
        BY <3>1, <3>2, <3>3, <2>5
    <2>9. ASSUME NEW h \in Handler, LoadForVerdict(h)
          PROVE  /\ \A g \in Handler : handler'[g].op \notin ItemOp \cup {"edit"}
                 /\ UNCHANGED <<status, items, filled, amount>>
      <3>1. Goes(h, Copy("verdict")) /\ UNCHANGED <<status, items, filled, amount>>
        BY <2>9 DEF LoadForVerdict, row
      <3>2. Copy("verdict").op \notin ItemOp \cup {"edit"}
        BY DEF Copy, NoRequest, ItemOp
      <3>3. QED
        BY <3>1, <3>2, <2>5
    <2>10. CASE UNCHANGED vars
      BY <2>1, <2>10 DEF vars, row
    <2>11. QED
      BY <1>1, <2>1, <2>3, <2>4, <2>6, <2>7, <2>8, <2>9, <2>10 DEF Next
  <1>2. IInv /\ [Next]_vars
          => [Drained => Drained' /\ UNCHANGED <<items, filled, amount>>]_vars
    BY <1>1
  <1>3. QED
    BY <1>2, Invariance, PTL DEF Spec, FrozenOnceDrained
-----------------------------------------------------------------------------
(* What a submit and a verdict hold in their hands, when no submit          *)
(* overlapped a writer and no item request overlapped another or died.      *)

Writer == ItemOp \cup {"edit"}

NoWriter == \A g \in Handler : handler[g].op \notin Writer

(* What a submit has read so far is what the claim is: nobody writes it.    *)
SubmitsCurrent ==
    \A h \in Handler : handler[h].op = "submit" =>
        /\ NoWriter
        /\ handler[h].filled = filled /\ handler[h].amount = amount
        /\ handler[h].step \in {"items", "links"} => handler[h].items = items
        /\ handler[h].step = "links" => handler[h].docs \subseteq links

VerdictsCurrent ==
    \A h \in Handler : handler[h].op = "verdict" =>
        /\ status # "DRAFT"
        /\ handler[h].filled = filled /\ handler[h].amount = amount

Tells(s) ==
    /\ s.filled = filled /\ s.amount = amount /\ s.items = items
    /\ s.docs \subseteq links

(* Past DRAFT the claim is what some submit sent.                           *)
PastDraft == status # "DRAFT" => NoWriter /\ \E s \in sent : Tells(s)

Agrees(s) == s.amount = Total(s.items)

Verified(b) ==
    \E s \in sent : /\ <<b.filled, b.items, b.amount>> = <<s.filled, s.items, s.amount>>
                    /\ s.docs \subseteq b.docs

Settled ==
    raced = {} => /\ SubmitsCurrent /\ VerdictsCurrent /\ PastDraft
                  /\ \A s \in sent : Agrees(s)
                  /\ \A b \in briefed : Verified(b)

(* No request is in flight and nothing is sent in the beginning.            *)
LEMMA InitSettled == Init => Settled
  BY DEF Init, Settled, SubmitsCurrent, VerdictsCurrent, PastDraft, NoRequest

(* A step of a writer: no submit is in flight, and before a submit there is *)
(* no verdict and nothing to keep.                                          *)
LEMMA WriterStep ==
    ASSUME IInv, Settled, raced = {}, NEW h \in Handler, NEW r \in Request, Goes(h, r),
           r.op \in Writer \cup {"none"}, status = "DRAFT", ~InFlight({"submit"}),
           UNCHANGED <<status, sent, briefed>>
    PROVE  Settled'
<1>1. /\ handler'[h] = r /\ \A g \in Handler \ {h} : handler'[g] = handler[g]
  BY GoesTyped DEF IInv
<1>2. \A g \in Handler : handler'[g].op \notin {"submit", "verdict"}
  BY <1>1 DEF Settled, VerdictsCurrent, InFlight, Writer, ItemOp
<1> QED
  BY <1>2 DEF Settled, SubmitsCurrent, VerdictsCurrent, PastDraft, Agrees, Verified

(* A step of a request that writes neither the details nor the items, under *)
(* what it must know of the claim when it goes on.                          *)
LEMMA ReaderStep ==
    ASSUME IInv, Settled, raced = {}, NEW h \in Handler, NEW r \in Request, Goes(h, r),
           r.op \notin Writer,
           r.op = "submit" =>
              /\ \A g \in Handler \ {h} : handler[g].op \notin Writer
              /\ r.filled = filled /\ r.amount = amount
              /\ r.step \in {"items", "links"} => r.items = items
              /\ r.step = "links" => r.docs \subseteq links,
           r.op = "verdict" => status' # "DRAFT" /\ r.filled = filled /\ r.amount = amount,
           status # "DRAFT" => status' # "DRAFT",
           status' # "DRAFT" => status # "DRAFT" \/ (NoWriter /\ \E s \in sent' : Tells(s)),
           sent \subseteq sent', \A s \in sent' : Agrees(s),
           \A b \in briefed' : b \in briefed \/ Verified(b),
           UNCHANGED <<filled, amount, items, links>>
    PROVE  Settled'
<1>0. SubmitsCurrent /\ VerdictsCurrent /\ PastDraft /\ \A b \in briefed : Verified(b)
  BY DEF Settled
<1>1. /\ handler'[h] = r /\ \A g \in Handler \ {h} : handler'[g] = handler[g]
  BY GoesTyped DEF IInv
<1>2. /\ NoWriter => NoWriter'
      /\ (\A g \in Handler \ {h} : handler[g].op \notin Writer) => NoWriter'
  BY <1>1 DEF NoWriter
<1>3. SubmitsCurrent'
  <2> SUFFICES ASSUME NEW k \in Handler, handler'[k].op = "submit"
               PROVE  /\ NoWriter'
                      /\ handler'[k].filled = filled /\ handler'[k].amount = amount
                      /\ handler'[k].step \in {"items", "links"} => handler'[k].items = items
                      /\ handler'[k].step = "links" => handler'[k].docs \subseteq links
    BY DEF SubmitsCurrent
  <2>1. CASE k = h
    BY <1>1, <1>2, <2>1
  <2>2. CASE k # h
    BY <1>0, <1>1, <1>2, <2>2 DEF SubmitsCurrent
  <2> QED
    BY <2>1, <2>2
<1>4. VerdictsCurrent'
  BY <1>0, <1>1 DEF VerdictsCurrent
<1>5. PastDraft'
  BY <1>0, <1>2 DEF PastDraft, Tells
<1>6. \A b \in briefed' : Verified(b)'
  BY <1>0 DEF Verified
<1>7. \A s \in sent' : Agrees(s)'
  BY DEF Agrees
<1> QED
  BY <1>3, <1>4, <1>5, <1>6, <1>7 DEF Settled

(* Every statement keeps what submits and verdicts know up to date, or      *)
(* notes the accident.                                                      *)
LEMMA StepSettled == IInv /\ Settled /\ [Next]_vars => Settled'
<1> SUFFICES ASSUME IInv, Settled, [Next]_vars, raced' = {} PROVE Settled'
  BY DEF Settled
<1>a. /\ items \in Table /\ amount \in Amounts /\ filled \in SUBSET Field
      /\ links \in SUBSET Doc /\ version \in Nat
      /\ \A h \in Handler : handler[h] \in Request
  BY DEF IInv, Typed
<1>b. NoRequest \in Request /\ NoRequest.op = "none" /\ NoRequest.step = "idle"
  BY ZeroIsAmount DEF NoRequest, Request, Op, Step, ItemOp
<1>c. \A op \in {"edit", "submit", "verdict"} :
        /\ Copy(op) \in Request /\ Copy(op).op = op /\ Copy(op).step = "loaded"
        /\ Copy(op).filled = filled /\ Copy(op).amount = amount
  BY <1>a, ZeroIsAmount DEF Copy, NoRequest, Request, Op, Step, ItemOp
<1>d. raced = {} => /\ SubmitsCurrent /\ VerdictsCurrent /\ PastDraft
                    /\ \A s \in sent : Agrees(s)
                    /\ \A b \in briefed : Verified(b)
  BY DEF Settled
<1>1. ASSUME NEW h \in Handler, handler[h].op \in Writer, raced = {},
             NEW r \in Request, Goes(h, r), r.op \in Writer \cup {"none"},
             UNCHANGED <<status, sent, briefed>>
      PROVE  Settled'
  <2>1. status = "DRAFT"
    BY <1>d, <1>1 DEF PastDraft, NoWriter
  <2>2. ~InFlight({"submit"})
    BY <1>d, <1>1 DEF SubmitsCurrent, NoWriter, InFlight
  <2> QED
    BY <1>1, <2>1, <2>2, WriterStep
<1>2. ASSUME NEW h \in Handler, NEW op \in ItemOp, LoadForItem(h, op) PROVE Settled'
  <2> DEFINE r == [NoRequest EXCEPT !.op = op, !.step = "loaded"]
  <2>1. r \in Request /\ r.op = op
    BY ZeroIsAmount DEF NoRequest, Request, Op, Step
  <2>2. raced = {} /\ ~InFlight({"submit"})
    BY <1>2 DEF LoadForItem, Races
  <2>3. Goes(h, r) /\ status = "DRAFT" /\ UNCHANGED <<status, sent, briefed>>
    BY <1>2 DEF LoadForItem, row
  <2> HIDE DEF r
  <2> QED
    BY <2>1, <2>2, <2>3, WriterStep DEF Writer
<1>3. ASSUME NEW h \in Handler, LoadForEdit(h) PROVE Settled'
  <2>1. raced = {} /\ ~InFlight({"submit"})
    BY <1>3 DEF LoadForEdit, Races
  <2>2. Goes(h, Copy("edit")) /\ status = "DRAFT" /\ UNCHANGED <<status, sent, briefed>>
    BY <1>3 DEF LoadForEdit, row
  <2> QED
    BY <1>c, <2>1, <2>2, WriterStep DEF Writer
<1>4. ASSUME NEW h \in Handler, NEW i \in Item, FindItem(h, i) PROVE Settled'
  <2> DEFINE r == [handler[h] EXCEPT !.step = "found", !.item = i]
  <2>1. /\ Goes(h, r) /\ raced' = raced /\ handler[h].op \in Writer
        /\ UNCHANGED <<status, sent, briefed>>
    BY <1>4 DEF FindItem, row, Writer, ItemOp
  <2>2. r \in Request /\ r.op = handler[h].op
    BY <1>a DEF Request, Step
  <2> HIDE DEF r
  <2> QED
    BY <1>1, <2>1, <2>2
<1>5. ASSUME NEW h \in Handler,
             \/ \E i \in Item, p \in Paise : InsertItem(h, i, p)
             \/ \E p \in Paise : UpdateItem(h, p)
             \/ DeleteItem(h)
      PROVE  Settled'
  <2> DEFINE r == [handler[h] EXCEPT !.step = "written"]
             q == [handler[h] EXCEPT !.step = "written", !.item = None]
  <2>1. /\ Goes(h, r) \/ Goes(h, q)
        /\ raced' = raced /\ handler[h].op \in Writer /\ UNCHANGED <<status, sent, briefed>>
    BY <1>5 DEF InsertItem, UpdateItem, DeleteItem, At, row, Writer, ItemOp
  <2>2. r \in Request /\ r.op = handler[h].op /\ q \in Request /\ q.op = handler[h].op
    BY <1>a DEF Request, Step
  <2> HIDE DEF r, q
  <2> QED
    BY <1>1, <2>1, <2>2
<1>6. ASSUME NEW h \in Handler, ReadTotal(h) PROVE Settled'
  <2> DEFINE r == [handler[h] EXCEPT !.step = "total", !.amount = Total(items)]
  <2>1. /\ Goes(h, r) /\ raced' = raced /\ handler[h].op \in ItemOp
        /\ UNCHANGED <<status, sent, briefed>>
    BY <1>6 DEF ReadTotal, row, IInv, Phases
  <2>2. r \in Request /\ r.op = handler[h].op
    BY <1>a, TotalIsAmount DEF Request, Step
  <2> HIDE DEF r
  <2> QED
    BY <1>1, <2>1, <2>2 DEF Writer
<1>7. ASSUME NEW h \in Handler, WriteTotal(h) \/ \E f \in Field : WriteEdit(h, f)
      PROVE  Settled'
  <2>1. /\ Goes(h, NoRequest) /\ raced' = raced /\ handler[h].op \in Writer
        /\ UNCHANGED <<status, sent, briefed>>
    BY <1>7 DEF WriteTotal, WriteEdit, At, IInv, Phases, Writer
  <2> QED
    BY <1>1, <1>b, <2>1
<1>8. ASSUME NEW h \in Handler, LoadForSubmit(h) PROVE Settled'
  <2>1. raced = {} /\ NoWriter
    BY <1>8 DEF LoadForSubmit, Races, InFlight, NoWriter, Writer
  <2>2. Goes(h, Copy("submit")) /\ UNCHANGED <<row, items, links, sent, briefed>>
    BY <1>8 DEF LoadForSubmit
  <2> QED
    BY <1>c, <1>d, <2>1, <2>2, ReaderStep DEF NoWriter, row, Writer, ItemOp
<1>9. ASSUME NEW h \in Handler, ReadItems(h) PROVE Settled'
  <2> DEFINE r == [handler[h] EXCEPT !.step = "items", !.items = items]
  <2>1. /\ Goes(h, r) /\ raced = {} /\ handler[h].op = "submit"
        /\ UNCHANGED <<row, items, links, sent, briefed>>
    BY <1>9 DEF ReadItems, At
  <2>2. /\ r \in Request /\ r.op = "submit" /\ r.step = "items" /\ r.items = items
        /\ r.filled = handler[h].filled /\ r.amount = handler[h].amount
    BY <1>a, <2>1 DEF Request, Step
  <2> HIDE DEF r
  <2>3. NoWriter /\ r.filled = filled /\ r.amount = amount
    BY <1>d, <2>1, <2>2 DEF SubmitsCurrent
  <2> QED
    BY <1>d, <2>1, <2>2, <2>3, ReaderStep DEF NoWriter, row, Writer, ItemOp
<1>10. ASSUME NEW h \in Handler, ReadLinks(h) PROVE Settled'
  <2> DEFINE r == [handler[h] EXCEPT !.step = "links", !.docs = links]
  <2>1. /\ Goes(h, r) /\ raced = {} /\ handler[h].op = "submit" /\ handler[h].step = "items"
        /\ UNCHANGED <<row, items, links, sent, briefed>>
    BY <1>10 DEF ReadLinks, At
  <2>2. /\ r \in Request /\ r.op = "submit" /\ r.docs = links /\ r.items = handler[h].items
        /\ r.filled = handler[h].filled /\ r.amount = handler[h].amount
    BY <1>a, <2>1 DEF Request, Step
  <2> HIDE DEF r
  <2>3. NoWriter /\ r.filled = filled /\ r.amount = amount /\ r.items = items
    BY <1>d, <2>1, <2>2 DEF SubmitsCurrent
  <2> QED
    BY <1>d, <2>1, <2>2, <2>3, ReaderStep DEF NoWriter, row, Writer, ItemOp
<1>11. ASSUME NEW h \in Handler, CommitSubmit(h) PROVE Settled'
  <2> DEFINE s == Snapshot(handler[h], handler[h].items, handler[h].docs)
  <2>1. /\ Goes(h, NoRequest) /\ raced = {} /\ handler[h].op = "submit"
        /\ handler[h].step = "links" /\ status' = "VERIFYING" /\ sent' = sent \cup {s}
        /\ UNCHANGED <<filled, amount, items, links, briefed>>
    BY <1>11 DEF CommitSubmit, At
  <2>2. NoWriter /\ Tells(s)
    BY <1>d, <2>1 DEF SubmitsCurrent, Snapshot, Tells
  <2>3. Agrees(s)
    <3>1. \A g \in Handler : handler[g].step \notin {"written", "total"}
      BY <2>2 DEF IInv, Phases, NoWriter, Writer
    <3>2. amount = Total(items)
      BY <2>1, <3>1 DEF IInv, InTurn
    <3> QED
      BY <2>2, <3>2 DEF Tells, Agrees
  <2> HIDE DEF s
  <2> QED
    BY <1>b, <1>d, <2>1, <2>2, <2>3, ReaderStep DEF Writer, ItemOp
<1>12. ASSUME NEW h \in Handler, LoadForVerdict(h) PROVE Settled'
  <2>1. /\ raced = {} /\ status = "VERIFYING" /\ Goes(h, Copy("verdict"))
        /\ UNCHANGED <<row, items, links, sent, briefed>>
    BY <1>12 DEF LoadForVerdict
  <2> QED
    BY <1>c, <1>d, <2>1, ReaderStep DEF row, Writer, ItemOp
<1>13. ASSUME NEW h \in Handler, QueueAgent(h) PROVE Settled'
  <2> DEFINE b == Snapshot(handler[h], items, links)
  <2>1. /\ Goes(h, NoRequest) /\ raced = {} /\ handler[h].op = "verdict"
        /\ status' = "VERIFIED" /\ briefed' = briefed \cup {b}
        /\ UNCHANGED <<filled, amount, items, links, sent>>
    BY <1>13 DEF QueueAgent, At
  <2>2. /\ status # "DRAFT" /\ handler[h].filled = filled /\ handler[h].amount = amount
    BY <1>d, <2>1 DEF VerdictsCurrent
  <2>3. PICK s \in sent : Tells(s)
    BY <1>d, <2>1, <2>2 DEF PastDraft
  <2>4. Verified(b)
    BY <2>2, <2>3 DEF Snapshot, Verified, Tells
  <2> HIDE DEF b
  <2> QED
    BY <1>b, <1>d, <2>1, <2>2, <2>4, ReaderStep DEF Writer, ItemOp
<1>14. ASSUME NEW h \in Handler, Abandon(h) PROVE Settled'
  <2>1. raced = {} /\ Goes(h, NoRequest) /\ UNCHANGED <<row, items, links, sent, briefed>>
    BY <1>14 DEF Abandon
  <2> QED
    BY <1>b, <1>d, <2>1, ReaderStep DEF row, Writer, ItemOp
<1>15. ASSUME NEW d \in Doc, Link(d) PROVE Settled'
  <2>1. /\ links \subseteq links' /\ UNCHANGED <<row, items, sent, briefed, handler, raced>>
    BY <1>15 DEF Link
  <2> QED
    BY <1>d, <2>1 DEF Settled, SubmitsCurrent, VerdictsCurrent, PastDraft, NoWriter, Tells,
                      Agrees, Verified, row
<1>16. CASE UNCHANGED vars
  <2>1. UNCHANGED <<status, filled, amount, items, links, sent, briefed, handler, raced>>
    BY <1>16 DEF vars, row
  <2>2. SubmitsCurrent' /\ VerdictsCurrent' /\ PastDraft'
    BY <1>d, <2>1 DEF SubmitsCurrent, VerdictsCurrent, PastDraft, NoWriter, Tells
  <2>3. (\A s \in sent' : Agrees(s)') /\ \A b \in briefed' : Verified(b)'
    BY <1>d, <2>1 DEF Agrees, Verified
  <2> QED
    BY <2>2, <2>3 DEF Settled
<1> QED
  BY <1>2, <1>3, <1>4, <1>5, <1>6, <1>7, <1>8, <1>9, <1>10, <1>11, <1>12, <1>13, <1>14, <1>15,
     <1>16 DEF Next, ItemNext

(* What submits and verdicts hold is what the claim is, without accidents.  *)
LEMMA Settling == Spec => []Settled
  BY InitSettled, StepSettled, Invariance, PTL DEF Spec

(* The amount verification-service is told is the sum of the items it is    *)
(* told, though four reads put them together.                               *)
THEOREM Snapshotting == Spec => []SnapshotConsistent
<1>1. Settled => SnapshotConsistent
  BY DEF Settled, SnapshotConsistent, Agrees
<1> QED
  BY <1>1, Settling, PTL

(* agent-service is briefed on the claim that was verified.                 *)
THEOREM Briefing == Spec => []BriefedAsVerified
<1>1. Settled => BriefedAsVerified
  BY DEF Settled, BriefedAsVerified, Verified
<1> QED
  BY <1>1, Settling, PTL
=============================================================================
