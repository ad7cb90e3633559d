------------------------ MODULE ProductRequirements ------------------------
(***************************************************************************)
(* The documents a lender product asks for: who writes the list            *)
(* required_documents (routes/portalLenderProducts.ts and the requirement  *)
(* edits of services/lenderProductRequirementsService.ts) and the three    *)
(* readers of it (that service, the wizard's                               *)
(* routes/lenderProductsRequiredDocs.ts and the staff preview              *)
(* routes/lenderProductsRequiredDocsPreview.ts).                           *)
(*                                                                         *)
(* An entry written by the portal form names its document under            *)
(* "category", one written by a requirement edit under "type"; the readers *)
(* differ in which of the two they know.                                   *)
(***************************************************************************)
EXTENDS Naturals, SequencesExt

CONSTANTS RequiredProducts, Entries, AlwaysRequired, Categories, Countries, Amounts,
          MinAmounts, Terms, Editors, Null

ASSUME RequirementsAssumption ==
  /\ IsFiniteSet(RequiredProducts)
  /\ Amounts \subseteq Nat /\ Null \notin Amounts /\ MinAmounts \subseteq Amounts \cup {Null}
  /\ \A t \in Terms : {t.min, t.max} \subseteq Amounts \cup {Null}
  /\ "BOTH" \in Countries
  /\ \A e \in Entries : /\ e.key \in {"category", "type"}
                        /\ e.min \in Amounts \cup {Null} /\ e.max \in Amounts \cup {Null}
                        /\ e.required \in BOOLEAN
                        /\ e.key = "category" => e.min = Null /\ e.max = Null

VARIABLES
  listing,   \* lender_products with the lender's activity
  editing    \* the requirement edits in flight: the list they have read

reqVars == <<listing, editing>>

DocumentTypes == {e.doc : e \in Entries} \cup AlwaysRequired
MaxEntries == 2
EntryLists == UNION {[1..n -> Entries] : n \in 0..MaxEntries}
FormLists == {s \in EntryLists : \A i \in 1..Len(s) :
                s[i].key = "category" /\ \A j \in 1..Len(s) : s[i].doc = s[j].doc => i = j}
NoEdit == [product |-> {}, docs |-> <<>>]

ReqTypeOK ==
  /\ listing \in [RequiredProducts ->
       [active: BOOLEAN, lenderActive: BOOLEAN, category: Categories, country: Countries,
        min: MinAmounts, term: Terms, docs: EntryLists]]
  /\ editing \in [Editors -> [product: {{p} : p \in RequiredProducts} \cup {{}},
                              docs: EntryLists]]

\* Products as the portal's form saves them.
ReqInit ==
  /\ listing \in [RequiredProducts ->
       [active: {TRUE}, lenderActive: {TRUE}, category: Categories, country: Countries,
        min: MinAmounts, term: Terms, docs: FormLists]]
  /\ editing = [h \in Editors |-> NoEdit]

-----------------------------------------------------------------------------
\* Writers.

\* validateAndNormalizeRequiredDocuments: labels of the form's list, each once;
\* what the form sends without documents is the empty list.
Normalized(docs) == docs \in FormLists

\* PUT /portal/lender-products/:id replaces the list, also when it was not sent.
PutProduct(p, active, docs) ==
  /\ Normalized(docs)
  /\ listing' = [listing EXCEPT ![p] = [@ EXCEPT !.docs = docs, !.active = active]]
  /\ UNCHANGED editing

\* PATCH of the lender's status, which fetchProductById joins.
LenderStatus(p) ==
  /\ listing' = [listing EXCEPT ![p].lenderActive = ~@]
  /\ UNCHANGED editing

\* A requirement edit reads the whole list ...
ReadDocuments(h, p) ==
  /\ editing[h] = NoEdit
  /\ editing' = [editing EXCEPT ![h] = [product |-> {p}, docs |-> listing[p].docs]]
  /\ UNCHANGED listing

\* ... and writes it back whole.
WriteDocuments(h, docs) ==
  /\ \E p \in editing[h].product : listing' = [listing EXCEPT ![p].docs = docs]
  /\ editing' = [editing EXCEPT ![h] = NoEdit]

CreateRequirementForProduct(h, e) ==
  /\ e.key = "type" /\ Len(editing[h].docs) < MaxEntries
  /\ WriteDocuments(h, Append(editing[h].docs, e))

\* Only entries with an id are found: those a requirement edit created.
UpdateRequirementForProduct(h, i, e) ==
  /\ i \in 1..Len(editing[h].docs)
  /\ editing[h].docs[i].key = "type" /\ e.key = "type"
  /\ WriteDocuments(h, [editing[h].docs EXCEPT ![i] = e])

DeleteRequirementForProduct(h, i) ==
  /\ i \in 1..Len(editing[h].docs)
  /\ editing[h].docs[i].key = "type"
  /\ WriteDocuments(h, RemoveAt(editing[h].docs, i))

ReqNext ==
  \/ \E p \in RequiredProducts :
       \/ \E active \in BOOLEAN, docs \in FormLists : PutProduct(p, active, docs)
       \/ LenderStatus(p)
       \/ \E h \in Editors : ReadDocuments(h, p)
  \/ \E h \in Editors, e \in Entries :
       \/ CreateRequirementForProduct(h, e)
       \/ \E i \in 1..MaxEntries : UpdateRequirementForProduct(h, i, e)
  \/ \E h \in Editors, i \in 1..MaxEntries : DeleteRequirementForProduct(h, i)

ReqSpec == ReqInit /\ [][ReqNext]_reqVars

-----------------------------------------------------------------------------
\* The service's reading.

\* normalizeRequirementEntry: an entry without a type is no requirement.
Understood(docs) == {i \in DOMAIN docs : docs[i].key = "type"}

Lower(a, b) == IF a = Null THEN b ELSE IF b = Null \/ a < b THEN a ELSE b
Upper(a, b) == IF a = Null THEN b ELSE IF b = Null \/ a > b THEN a ELSE b

\* The last entry of a type wins.
KeepLast(found, e) == [d \in DOMAIN found \cup {e.doc} |->
  IF d = e.doc THEN [required |-> e.required, min |-> e.min, max |-> e.max] ELSE found[d]]

\* One round of dedupeRequirements.
MergeRequirement(found, e) ==
  IF e.doc \notin DOMAIN found
  THEN KeepLast(found, e)
  ELSE [found EXCEPT ![e.doc] = [required |-> @.required \/ e.required,
                                 min |-> Lower(@.min, e.min), max |-> Upper(@.max, e.max)]]

\* dedupeRequirements, in their order, of the entries of docs that are kept, after
\* those that made up found.
DedupeRequirements(found, docs, kept) ==
  MapThenFoldSet(LAMBDA e, merged : MergeRequirement(merged, e), found,
                 LAMBDA i : docs[i], LAMBDA s : Max(s), kept)

EnsureAlwaysRequired(found) ==
  [d \in DOMAIN found \cup AlwaysRequired |->
     IF d \in DOMAIN found THEN found[d]
     ELSE [required |-> TRUE, min |-> Null, max |-> Null]]

\* An amount, if there is one, within the bounds of an entry or of a term.
WithinAmount(e, amount) == amount # Null => /\ e.min # Null => amount >= e.min
                                            /\ e.max # Null => amount <= e.max

\* resolveLenderProductRequirements, for an amount or none.
ResolveLenderProductRequirements(p, amount) ==
  LET docs == listing[p].docs
  IN  EnsureAlwaysRequired(DedupeRequirements(
        <<>>, docs, {i \in Understood(docs) : WithinAmount(docs[i], amount)}))

\* The amount is compared with the term of the product.
ListMatchingProducts(category, country, amount) ==
  {p \in RequiredProducts : /\ listing[p].active /\ listing[p].lenderActive
                            /\ listing[p].category = category
                            /\ country = "BOTH" \/ listing[p].country \in {country, "BOTH"}
                            /\ WithinAmount(listing[p].term, amount)}

\* resolveRequirementsForProductType: the lists of the products one after the
\* other, in one order (in the code, that of their creation); no product at all
\* is refused by the caller.
ResolveRequirementsForProductType(category, country, amount) ==
  LET merge(p, found) == DedupeRequirements(found, listing[p].docs, Understood(listing[p].docs))
  IN  EnsureAlwaysRequired(FoldSet(merge, <<>>, ListMatchingProducts(category, country, amount)))

\* listClientRequirements: nothing of an inactive product or lender.
ListClientRequirements(p, amount) ==
  IF ~listing[p].active \/ ~listing[p].lenderActive THEN {}
  ELSE LET found == ResolveLenderProductRequirements(p, amount)
       IN {d \in DOMAIN found : found[d].required}

-----------------------------------------------------------------------------
\* The wizard's and the preview's reading: entries under "category".

Labels(docs) == {docs[i].doc : i \in {j \in DOMAIN docs : docs[j].key = "category"}}

FitsAmount(p, amount) == listing[p].min = Null \/ listing[p].min <= amount

\* GET /lender-products/required-docs: products of the borrower's own country.
WizardProducts(category, country, amount) ==
  {p \in RequiredProducts : /\ listing[p].active /\ listing[p].category = category
                            /\ listing[p].country = country
                            /\ amount > 0 => FitsAmount(p, amount)}

WizardDocuments(category, country, amount) ==
  UNION {Labels(listing[p].docs) : p \in WizardProducts(category, country, amount)}

\* queryProductsForLeg: those, and the products for both countries.
QueryProductsForLeg(category, country, amount) ==
  {p \in RequiredProducts : /\ listing[p].active /\ listing[p].category = category
                            /\ listing[p].country \in {country, "BOTH"}
                            /\ FitsAmount(p, amount)}

\* runOneLeg
RunOneLeg(category, country, amount) ==
  UNION {Labels(listing[p].docs) : p \in QueryProductsForLeg(category, country, amount)}

-----------------------------------------------------------------------------
\* Properties.

\* The requirements of the products whose term the amount falls into, merged
\* entry by entry, are for every type what all its entries say together: required
\* if one says so, over the union of their amounts (a bound only where some entry
\* has one), and the documents that are always required are always there
\* (listMatchingProducts, dedupeRequirements, ensureAlwaysRequired).
MergedRequirements ==
  \A category \in Categories, country \in Countries, amount \in Amounts \cup {Null} :
    LET found == ResolveRequirementsForProductType(category, country, amount)
        all == UNION {{listing[p].docs[i] : i \in {j \in DOMAIN listing[p].docs :
                                                     listing[p].docs[j].key = "type"}} :
                        p \in {q \in RequiredProducts :
                                 /\ listing[q].active /\ listing[q].lenderActive
                                 /\ listing[q].category = category
                                 /\ \/ country = "BOTH"
                                    \/ listing[q].country \in {country, "BOTH"}
                                 /\ WithinAmount(listing[q].term, amount)}}
        of(d) == {e \in all : e.doc = d}
    IN /\ DOMAIN found = {e.doc : e \in all} \cup AlwaysRequired
       /\ \A d \in DOMAIN found :
            /\ found[d].required = (of(d) = {} \/ \E e \in of(d) : e.required)
            /\ found[d].min \in {e.min : e \in of(d)} \cup {Null}
            /\ found[d].max \in {e.max : e \in of(d)} \cup {Null}
            /\ \A e \in of(d) : /\ e.min # Null => found[d].min # Null /\ found[d].min <= e.min
                                /\ e.max # Null => found[d].max # Null /\ found[d].max >= e.max

\* For an amount, the borrower of an active product is asked for exactly the
\* documents that an entry applying to the amount requires, and for an always
\* required one also when no entry that applies speaks of it
\* (listClientRequirements filters by amount before it merges).
DemandFitsAmount ==
  \A p \in RequiredProducts, amount \in Amounts \cup {Null} :
    LET docs == listing[p].docs
        applies == {docs[i] : i \in {j \in DOMAIN docs : docs[j].key = "type"
                                                        /\ WithinAmount(docs[j], amount)}}
        asked == ListClientRequirements(p, amount)
    IN IF listing[p].active /\ listing[p].lenderActive
       THEN asked = {e.doc : e \in {f \in applies : f.required}}
                    \cup (AlwaysRequired \ {e.doc : e \in applies})
       ELSE asked = {}

\* routes/lenderProductsRequiredDocsPreview.ts:2 "runs the same query the
\* wizard's Step 5 uses": a leg's preview shows the documents the wizard asks for.
PreviewMatchesWizard ==
  \A category \in Categories, country \in Countries \ {"BOTH"}, amount \in Amounts \ {0} :
    RunOneLeg(category, country, amount) = WizardDocuments(category, country, amount)
=============================================================================
